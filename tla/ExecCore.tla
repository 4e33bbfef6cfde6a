------------------------------ MODULE ExecCore ------------------------------
(***************************************************************************)
(* The single writer of the execution engine (exec.Core): commands, broker *)
(* events, eligible prints and timers are handled one at a time by Run,    *)
(* over state that is a fold of a durable log.  Handlers start goroutines  *)
(* for every broker request (ExecVenue) and never wait for them.           *)
(*                                                                         *)
(* One venue, one symbol, one trading session.  Prices are abstracted: a   *)
(* print says which held orders its price triggers.  Held orders are       *)
(* limit-if-touched parents and BUY stop-limits, which activate without    *)
(* the protective price filter.                                            *)
(***************************************************************************)
EXTENDS ExecVenue, HeldOrders, FiniteSets, Functions

CONSTANTS
  Commands,   \* the operator commands a run may use
  Deadline,   \* the tick at which the session of held orders ends
  MaxAge      \* eligiblePrintMaxAge, in ticks

CommandKinds == {"cancel", "replace", "kill", "disarm", "flatten", "resume", "shutdown"}
ASSUME CommandAssumption == Commands \subseteq CommandKinds
ASSUME HeldTimeAssumption == Deadline \in Nat /\ MaxAge \in Nat

VARIABLES
  up,             \* the engine process runs
  orders,         \* the live orders, by id
  logged,         \* what Replay of the log gives
  actionLog,      \* the last OrderActionChanged in the log, by id
  position,       \* the core's view of the shares held
  ready,          \* PositionsReady
  flattenPending, \* FlattenPending, durable
  armed,          \* MasterArmed; boot is always disarmed
  printHealthy,   \* an eligible print arrived since the feed last broke
  now,            \* the engine clock
  lastGap,        \* lastPrintGapMs
  lastPrint,      \* lastEligible: receive time (0: none) and the ids it triggers
  scan,           \* held orders the current print has yet to be applied to
  posts           \* history: SubmitOrder calls per id, over all restarts

bookVars == <<orders, logged, actionLog>>
clockVars == <<now, lastGap, lastPrint, printHealthy>>
coreVars == <<up, bookVars, position, ready, flattenPending, armed, clockVars, scan, posts>>
vars == <<venueVars, coreVars>>
\* what no handler of the core touches
outside == <<brokerVars, adapterVars>>

Prints == [recv : 0 .. MaxClock, hit : SUBSET HeldIds]
NoPrint == [recv |-> 0, hit |-> {}]

\* Run is between two inbox items: no handler is part way through a print.
Idle == up /\ scan = {}

-----------------------------------------------------------------------------
(* appendAndFold *)

Logs(i, c) == c.action.kind # "KEEP" /\ orders[i].status # "NONE"
AppendAndFold(chg) ==
  /\ orders' = [i \in Orders |-> Apply(orders[i], chg[i])]
  /\ logged' = [i \in Orders |-> Apply(logged[i], chg[i])]
  /\ actionLog' = [i \in Orders |-> IF Logs(i, chg[i]) THEN chg[i].action ELSE actionLog[i]]
Only(i, c) == [j \in Orders |-> IF j = i THEN c ELSE NoChange]
AppendSubmitted(i, o) ==
  /\ orders' = [orders EXCEPT ![i] = o]
  /\ logged' = [logged EXCEPT ![i] = o]
  /\ UNCHANGED actionLog

\* A broker list overlaid on the live orders, then changes appended.  An
\* engine order the log does not know is adopted into it.
Reconcile(rows, chg, adopt) ==
  LET base(o, i) == IF adopt /\ o.status = "NONE" THEN Overlay(o, rows[i]) ELSE o
  IN  /\ orders' = [i \in Orders |-> Apply(Overlay(orders[i], rows[i]), chg[i])]
      /\ logged' = [i \in Orders |-> Apply(base(logged[i], i), chg[i])]
      /\ actionLog' = [i \in Orders |-> IF Logs(i, chg[i]) THEN chg[i].action ELSE actionLog[i]]

Send(reqs) == net' = net \cup reqs
Cancels(ids) == {Request("CANCEL", i, 0) : i \in ids}

-----------------------------------------------------------------------------
(* Reservations *)

Guarded(i) == i \in Sells \/ position < 0
Committed(ids) == SumFunctionOnSet([i \in Orders |-> CommittedLeaves(orders[i])], ids)
SameSide(i) == {j \in Orders : (j \in Sells) = (i \in Sells)}
Reducible(i) == IF i \in Sells THEN position ELSE -position

\* sellLeavesCheck for q shares of order i, not counting order i itself
LeavesOk(i, q) ==
  /\ ~flattenPending
  /\ ready
  /\ Reducible(i) > 0
  /\ q + Committed(SameSide(i) \ {i}) <= Reducible(i)

HasReducingCommitments ==
  /\ position # 0
  /\ Committed(IF position > 0 THEN Sells ELSE Orders \ Sells) > 0

\* maybeClearFlattenPending, from the readiness and position a handler leaves
ClearFlatten(r, p) == flattenPending' = (flattenPending /\ ~(r /\ p = 0))

-----------------------------------------------------------------------------
(* Commands: orders *)

\* handleSubmit, native.  The POST starts only after the log holds the order.
SubmitNative(i) ==
  \E q \in 1 .. MaxQty, gate \in BOOLEAN :
    LET guarded == Guarded(i)
        a == IF guarded THEN Requested("SUBMIT", 0) ELSE NoAction
    IN  /\ Idle /\ i \notin HeldIds /\ orders[i].status = "NONE"
        /\ IF armed /\ gate
           THEN /\ guarded => LeavesOk(i, q)
                /\ AppendSubmitted(i, NewOrder(q, a, NoHeld))
                /\ Send({Request(IF guarded THEN "GUARDED" ELSE "SUBMIT", i, q)})
                /\ posts' = [posts EXCEPT ![i] = @ + 1]
           ELSE /\ AppendSubmitted(i, BlockedOrder(q))
                /\ UNCHANGED <<net, posts>>
        /\ UNCHANGED <<outside, outcomes, flatJob, wire, up, position, ready,
                       flattenPending, armed, clockVars, scan>>

FreshPrint == lastPrint.recv > 0 /\ now - lastPrint.recv <= MaxAge
\* A cached fresh print is applied to the order before the handler returns.
ScanCached(i) == scan' = IF FreshPrint /\ i \in lastPrint.hit THEN {i} ELSE {}

\* handleSubmit, engine-held: nothing is sent to the venue.
SubmitHeld(i) ==
  \E q \in 1 .. MaxQty, gate \in BOOLEAN :
    LET h == [NoHeld EXCEPT !.phase = "WAITING", !.after = now]
    IN  /\ Idle /\ i \in HeldIds /\ orders[i].status = "NONE"
        /\ now < Deadline
        /\ IF armed /\ gate
           THEN /\ Guarded(i) => LeavesOk(i, q)
                /\ AppendSubmitted(i, NewOrder(q, NoAction, h))
                /\ ScanCached(i)
           ELSE /\ AppendSubmitted(i, BlockedOrder(q))
                /\ UNCHANGED scan
        /\ UNCHANGED <<venueVars, up, position, ready, flattenPending, armed,
                       clockVars, posts>>

\* handleCancel
CancelOrder(i) ==
  /\ Idle /\ "cancel" \in Commands
  /\ ~CancelRefused(orders[i])
  /\ AppendAndFold(Only(i, Cancel(orders[i])))
  /\ Send(IF CancelSends(orders[i]) THEN Cancels({i}) ELSE {})
  /\ UNCHANGED <<outside, outcomes, flatJob, wire, up, position, ready,
                 flattenPending, armed, clockVars, scan, posts>>

\* handleReplaceSingle of an order at the venue, to q shares in all
ReplaceRefused(o, q) ==
  \/ o.status = "NONE"
  \/ Pending(o.action)
  \/ q <= o.exec
  \/ IsHeld(o) /\ (o.held.phase # "WORKING" \/ o.held.cancelRequested)
ReplaceOrder(i) ==
  \E q \in 1 .. MaxQty :
    LET o == orders[i] IN
      /\ Idle /\ "replace" \in Commands
      /\ ~ReplaceRefused(o, q)
      /\ (Guarded(i) /\ q - o.exec > o.leaves) => LeavesOk(i, q - o.exec)
      /\ AppendAndFold(Only(i, ActionChange(Requested("REPLACE", q))))
      /\ Send({Request("REPLACE", i, q)})
      /\ UNCHANGED <<outside, outcomes, flatJob, wire, up, position, ready,
                     flattenPending, armed, clockVars, scan, posts>>

\* handleReplaceSingle of an untriggered held order: local, and the new
\* trigger is held against the cached print at once.
ReplaceHeld(i) ==
  \E q \in 1 .. MaxQty, hits \in BOOLEAN :
    LET o == orders[i] IN
      /\ Idle /\ i \in HeldIds /\ "replace" \in Commands
      /\ o.held.phase \in {"WAITING", "ARMED"} /\ ~Pending(o.action)
      /\ ~o.held.cancelRequested /\ q > o.exec
      /\ armed
      /\ AppendAndFold(Only(i, LifeChange(ReplaceEvent(q))))
      /\ lastPrint' = [lastPrint EXCEPT !.hit = IF hits THEN @ \cup {i} ELSE @ \ {i}]
      /\ scan' = IF FreshPrint /\ hits THEN {i} ELSE {}
      /\ UNCHANGED <<venueVars, up, position, ready, flattenPending, armed, now,
                     lastGap, printHealthy, posts>>

\* handleResumeHeld
ResumeHeld(i) ==
  LET o == orders[i] IN
    /\ Idle /\ "resume" \in Commands
    /\ Working(o) /\ o.held.phase = "PAUSED"
    /\ armed
    /\ i \in Sells => ~flattenPending /\ ready
    /\ printHealthy
    /\ AppendAndFold(Only(i, IF now >= Deadline
                             THEN LifeChange(LifeEvent("OrderExpired"))
                             ELSE HeldChange([o.held EXCEPT !.phase = "WAITING",
                                                !.cancelRequested = FALSE, !.after = now])))
    /\ UNCHANGED <<venueVars, up, position, ready, flattenPending, armed,
                   clockVars, scan, posts>>

-----------------------------------------------------------------------------
(* Commands: the account *)

\* handleArm(true): nothing is checked.
Arm ==
  /\ Idle /\ ~armed /\ armed' = TRUE
  /\ UNCHANGED <<venueVars, up, bookVars, position, ready, flattenPending,
                 clockVars, scan, posts>>

\* handleArm(false)
DisarmMaster ==
  /\ Idle /\ "disarm" \in Commands
  /\ armed' = FALSE
  /\ AppendAndFold([i \in Orders |-> Disarm(orders[i], FALSE)])
  /\ UNCHANGED <<venueVars, up, position, ready, flattenPending, clockVars, scan, posts>>

\* BrokerAccountFresh(false), or a day-loss breach: the master switch alone
AutoDisarm ==
  /\ Idle /\ armed /\ Upset("stale")
  /\ armed' = FALSE
  /\ NoneMisread
  /\ UNCHANGED <<venue, shares, closing, net, outcomes, flatJob, wire, adapterVars, up,
                 bookVars, position, ready, flattenPending, clockVars, scan, posts>>

\* handleKill
KillSwitch ==
  /\ Idle /\ "kill" \in Commands
  /\ armed' = FALSE
  /\ AppendAndFold([i \in Orders |-> Kill(orders[i])])
  /\ Send(Cancels({i \in Orders : KillSends(orders[i])}))
  /\ UNCHANGED <<outside, outcomes, flatJob, wire, up, position, ready,
                 flattenPending, clockVars, scan, posts>>

\* handleFlatten.  One Flatten goroutine at a time is modelled.
Flatten ==
  /\ Idle /\ "flatten" \in Commands /\ flatJob.st = "idle"
  /\ ready /\ ~flattenPending /\ ~HasReducingCommitments
  /\ AppendAndFold([i \in Orders |-> IF Guarded(i) THEN Pause(orders[i]) ELSE NoChange])
  /\ flattenPending' = TRUE
  /\ ready' = FALSE
  /\ flatJob' = [IdleJob EXCEPT !.st = "close"]
  /\ UNCHANGED <<outside, net, outcomes, wire, up, position, armed, clockVars, scan, posts>>

-----------------------------------------------------------------------------
(* Broker events, in the order of the inbox *)

Receive(kind) == Idle /\ wire # <<>> /\ Head(wire).ev = kind /\ wire' = Tail(wire)

SideSign(i) == IF i \in Sells THEN -1 ELSE 1
\* applyPositionFill: the cumulative delta of a fill, once
FillDelta(i, e) ==
  IF e.ev = "OrderFilled" /\ orders[i].status # "NONE" /\ e.cum > orders[i].exec
  THEN SideSign(i) * (e.cum - orders[i].exec) ELSE 0
FillsDelta(ls) == SumFunctionOnSet([i \in Orders |-> FillDelta(i, ls[i])], Orders)

FoldLives(ls) ==
  LET sends == {i \in Orders : ls[i].ev = "OrderAccepted" /\ DeferredCancel(orders[i])}
      p == IF ready THEN position + FillsDelta(ls) ELSE position
  IN  /\ AppendAndFold([i \in Orders |-> OnLife(orders[i], ls[i])])
      /\ Send(Cancels(sends))
      /\ position' = p
      /\ ClearFlatten(ready, p)

OnLives ==
  /\ Receive("Lives")
  /\ FoldLives(Head(wire).lives)
  /\ UNCHANGED <<outside, outcomes, flatJob, up, ready, armed, clockVars, scan, posts>>

OnPosition ==
  LET p == IF ready THEN Head(wire).qty ELSE position
  IN  /\ Receive("BrokerPosition")
      /\ position' = p
      /\ ClearFlatten(ready, p)
      /\ UNCHANGED <<outside, net, outcomes, flatJob, up, bookVars, ready, armed,
                     clockVars, scan, posts>>

OnPositions ==
  /\ Receive("BrokerPositions")
  /\ position' = Head(wire).qty
  /\ UNCHANGED <<outside, net, outcomes, flatJob, up, bookVars, ready, flattenPending,
                 armed, clockVars, scan, posts>>

\* confirmSellSubmit of every listed order
ConfirmListed(rows) ==
  [i \in Orders |-> IF Listed(rows[i]) THEN ConfirmSell(Overlay(orders[i], rows[i])) ELSE NoChange]

OnOpenOrders ==
  LET rows == Head(wire).rows
  IN  /\ Receive("BrokerOpenOrders")
      /\ Reconcile(rows, ConfirmListed(rows), TRUE)
      /\ ready' = TRUE
      /\ ClearFlatten(TRUE, position)
      /\ UNCHANGED <<outside, net, outcomes, flatJob, up, position, armed, clockVars,
                     scan, posts>>

\* StreamGap, BrokerConnUp, BrokerConnDown
OnStreamBreak(kind) ==
  /\ Receive(kind)
  /\ ready' = FALSE
  /\ AppendAndFold([i \in Orders |-> Pause(orders[i])])
  /\ printHealthy' = (printHealthy /\ kind # "BrokerConnDown")
  /\ UNCHANGED <<outside, net, outcomes, flatJob, up, position, flattenPending, armed,
                 now, lastGap, lastPrint, scan, posts>>

\* BrokerSnapshot, from the goroutine of a Flatten
OnSnapshot ==
  /\ Idle /\ flatJob.st = "done"
  /\ Reconcile(flatJob.rows, ConfirmListed(flatJob.rows), FALSE)
  /\ position' = flatJob.qty
  /\ ready' = TRUE
  /\ ClearFlatten(TRUE, flatJob.qty)
  /\ flatJob' = IdleJob
  /\ UNCHANGED <<outside, net, outcomes, wire, up, armed, clockVars, scan, posts>>

-----------------------------------------------------------------------------
(* Results of the request goroutines *)

\* wrong: a submit whose answer was lost is taken for a rejected one
OnSubmitOutcomeRejecting(x) ==
  IF x.ok THEN ActionChange([orders[x.id].action EXCEPT !.phase = "CONFIRMED"])
          ELSE LifeChange(LifeEvent("OrderRejected"))
\* BrokerSubmitOutcome
OnSubmitOutcome(x) ==
  LET o == orders[x.id]
      p == IF x.ok THEN "CONFIRMED" ELSE "UNKNOWN"
  IN  IF Working(o) /\ Unresolved(o, "SUBMIT")
      THEN ActionChange([o.action EXCEPT !.phase = p]) ELSE NoChange
\* BrokerActionOutcome
OnActionOutcome(x) ==
  LET o == orders[x.id]
  IN  IF o.action.kind = x.kind /\ o.action.phase = "REQUESTED"
      THEN ActionChange([o.action EXCEPT !.phase = "UNKNOWN"]) ELSE NoChange
\* HeldActivationOutcome
ActivationDoubted(o) == o.held.child /\ o.held.phase \in {"ACTIVATING", "CANCEL_REQUESTED"}
CancelNow(o) == o.held.cancelRequested /\ ~o.held.cancelSent
OnActivationOutcome(x) ==
  LET o == orders[x.id]
  IN  IF ActivationDoubted(o)
      THEN HeldChange([o.held EXCEPT !.phase = "UNKNOWN", !.cancelSent = @ \/ CancelNow(o)])
      ELSE NoChange
\* postSubmit turns the error of an unguarded submit into OrderRejected.
OnOutcomeChange(x) ==
  CASE x.kind = "GUARDED" -> OnSubmitOutcome(x)
    [] x.kind = "SUBMIT"  -> OnLife(orders[x.id], LifeEvent("OrderRejected"))
    [] x.kind = "CHILD"   -> OnActivationOutcome(x)
    [] x.kind \in {"CANCEL", "REPLACE"} -> OnActionOutcome(x)

OnOutcome(x) ==
  /\ Idle /\ x \in outcomes
  /\ outcomes' = outcomes \ {x}
  /\ AppendAndFold(Only(x.id, OnOutcomeChange(x)))
  /\ Send(IF x.kind = "CHILD" /\ ActivationDoubted(orders[x.id]) /\ CancelNow(orders[x.id])
          THEN Cancels({x.id}) ELSE {})
  /\ IF x.kind = "SUBMIT" THEN ClearFlatten(ready, position) ELSE UNCHANGED flattenPending
  /\ UNCHANGED <<outside, flatJob, wire, up, position, ready, armed, clockVars, scan, posts>>

-----------------------------------------------------------------------------
(* Eligible prints and timers *)

\* handleEligiblePrint, up to its loop over the held orders
EligiblePrint ==
  \E recv \in 1 .. MaxClock, hit \in SUBSET HeldIds :
    /\ Idle /\ HeldIds # {}
    /\ recv <= now /\ recv > lastGap /\ recv >= lastPrint.recv
    /\ lastPrint' = [recv |-> recv, hit |-> hit]
    /\ IF now - recv <= MaxAge
       THEN /\ printHealthy' = TRUE
            /\ scan' = {i \in HeldIds : Live(orders[i]) /\ recv > orders[i].held.after}
       ELSE UNCHANGED <<printHealthy, scan>>
    /\ UNCHANGED <<venueVars, up, bookVars, position, ready, flattenPending, armed,
                   now, lastGap, posts>>

\* A gap carries the receive time of its cause, or none: then it is now.
PrintGap ==
  /\ Idle /\ HeldIds # {}
  /\ lastGap' \in lastGap .. now
  /\ lastPrint' = NoPrint
  /\ printHealthy' = FALSE
  /\ AppendAndFold([i \in Orders |-> Pause(orders[i])])
  /\ UNCHANGED <<venueVars, up, position, ready, flattenPending, armed, now, scan, posts>>

\* activateHeld, up to the gate
ActivationStops(i) ==
  IF i \in Sells /\ (~ready \/ flattenPending)
  THEN HeldTo(orders[i], "PAUSED") ELSE LifeChange(LifeEvent("OrderRejected"))
Activatable(i) ==
  /\ i \in Sells => ready /\ ~flattenPending
  /\ Guarded(i) => LeavesOk(i, orders[i].leaves)
\* wrong: the intent does not name the child
ActivationUnlinked(o) ==
  HeldChange([o.held EXCEPT !.phase = "ACTIVATING", !.cancelRequested = FALSE])
Activation(o) ==
  HeldChange([o.held EXCEPT !.phase = "ACTIVATING", !.child = TRUE, !.cancelRequested = FALSE])

\* one turn of the loop of handleEligiblePrint
EvaluateHeld(i) ==
  LET o == orders[i]
      post == Live(o) /\ now < Deadline /\ i \in lastPrint.hit
  IN  /\ up /\ i \in scan
      /\ scan' = scan \ {i}
      /\ \/ /\ post /\ armed /\ Activatable(i)
            /\ AppendAndFold(Only(i, Activation(o)))
            /\ Send({Request("CHILD", i, o.leaves)})
            /\ posts' = [posts EXCEPT ![i] = @ + 1]
         \/ /\ AppendAndFold(Only(i,
                 CASE ~Live(o) -> NoChange
                   [] Live(o) /\ now >= Deadline -> LifeChange(LifeEvent("OrderExpired"))
                   [] Live(o) /\ now < Deadline /\ ~post -> HeldTo(o, "ARMED")
                   [] post -> ActivationStops(i)))
            /\ UNCHANGED <<net, posts>>
      /\ UNCHANGED <<outside, outcomes, flatJob, wire, up, position, ready,
                     flattenPending, armed, clockVars>>

\* the one-second heldTimer
ExpireHeldOrders ==
  /\ Idle /\ now >= Deadline /\ HeldIds # {}
  /\ AppendAndFold([i \in Orders |-> Expire(orders[i])])
  /\ Send(Cancels({i \in Orders : ExpireSends(orders[i])}))
  /\ UNCHANGED <<outside, outcomes, flatJob, wire, up, position, ready,
                 flattenPending, armed, clockVars, scan, posts>>

Tick ==
  /\ now < MaxClock
  /\ now' = now + 1
  /\ UNCHANGED <<venueVars, up, bookVars, position, ready, flattenPending, armed,
                 lastGap, lastPrint, printHealthy, scan, posts>>

-----------------------------------------------------------------------------
(* The process *)

\* What a process loses when it dies; the log and actionLog are durable.
MemoryLost ==
  /\ up' = FALSE
  /\ position' = 0
  /\ ready' = FALSE
  /\ armed' = FALSE
  /\ printHealthy' = FALSE
  /\ lastGap' = 0
  /\ lastPrint' = NoPrint
  /\ scan' = {}
  /\ UNCHANGED <<flattenPending, now, posts>>

\* A kill -9, a panic or a power cut, between any two steps.  The appends one
\* handler makes are one step, so no death falls between two of them.
Crash ==
  /\ up /\ Upset("crash")
  /\ ProcessDies({})
  /\ orders' = logged
  /\ MemoryLost
  /\ UNCHANGED <<venue, shares, logged, actionLog>>

\* Run's ctx.Done: shutdownHeldOrders, then the process exits.  Its cancels
\* are synchronous with a deadline, so each is sent, or lost, or late.
ShutdownEngine ==
  /\ Idle /\ "shutdown" \in Commands
  /\ AppendAndFold([i \in Orders |-> Shutdown(orders[i])])
  /\ ProcessDies(Cancels({i \in Orders : ShutdownCancels(orders[i])}))
  /\ MemoryLost
  /\ UNCHANGED <<venue, shares, upsets>>

\* Recover, for one order of the log and its row of the boot snapshot.
Doubt(a) == IF a.phase = "REQUESTED" THEN [a EXCEPT !.phase = "UNKNOWN"] ELSE a
FirstDoubt(o) == IF Working(o) THEN Doubt(o.action) ELSE o.action
LastLogged(i) ==
  IF FirstDoubt(logged[i]) # logged[i].action THEN FirstDoubt(logged[i]) ELSE actionLog[i]
\* The last OrderActionChanged of the log replaces the folded action.
RestoredAction(i, m) ==
  IF Working(m) /\ LastLogged(i).kind # "NONE"
  THEN Doubt(LastLogged(i)) ELSE FirstDoubt(logged[i])
\* An order the broker lists settles a submit, and a replace it matches.
RecoveredAction(i, m, found) ==
  LET a == RestoredAction(i, m)
  IN  IF /\ Working(m) /\ found /\ a.phase = "UNKNOWN"
         /\ a.kind = "SUBMIT" \/ (a.kind = "REPLACE" /\ a.qty = m.qty)
      THEN [a EXCEPT !.phase = "CONFIRMED"] ELSE a
\* wrong: an activation nobody can find is offered for another try
RecoveredForRetry(m, found) ==
  IF Working(m) /\ m.held.phase \in {"WAITING", "ARMED", "ACTIVATING"}
  THEN [m.held EXCEPT !.phase = IF found THEN "WORKING" ELSE "PAUSED"] ELSE m.held
RecoveredHeld(m, found) ==
  LET h == m.held
      to(phase) == [h EXCEPT !.phase = phase]
  IN  CASE ~Working(m) -> h
        [] Working(m) /\ h.phase \in {"WAITING", "ARMED"} -> to("PAUSED")
        [] Working(m) /\ h.phase = "ACTIVATING" -> to(IF found THEN "WORKING" ELSE "UNKNOWN")
        [] Working(m) /\ h.phase = "CANCEL_REQUESTED" ->
             [h EXCEPT !.phase = IF found THEN @ ELSE "UNKNOWN",
                       !.cancelRequested = TRUE, !.cancelSent = @ \/ found]
        [] OTHER -> h
RecoverSends(i, m, found) ==
  /\ Working(m) /\ found
  /\ \/ m.held.phase = "CANCEL_REQUESTED"
     \/ ~IsHeld(m) /\ RestoredAction(i, m).kind = "CANCEL"
                  /\ RestoredAction(i, m).phase = "UNKNOWN"

\* Recover: replay, the boot snapshot if the broker answers, then custody.
RecoverWith(rows) ==
  LET m == [i \in Orders |-> Overlay(logged[i], rows[i])]
      found(i) == Listed(rows[i])
      act(i) == RecoveredAction(i, m[i], found(i))
      settle(o, i) == [o EXCEPT !.action = act(i), !.held = RecoveredHeld(m[i], found(i))]
      base(i) == IF logged[i].status = "NONE" THEN m[i] ELSE logged[i]
  IN  /\ orders' = [i \in Orders |-> settle(m[i], i)]
      /\ logged' = [i \in Orders |-> settle(base(i), i)]
      /\ actionLog' = [i \in Orders |-> IF act(i) # logged[i].action
                                           \/ RestoredAction(i, m[i]) # logged[i].action
                                        THEN act(i) ELSE actionLog[i]]
      /\ Send(Cancels({i \in Orders : RecoverSends(i, m[i], found(i))}))
Recover(ok) ==
  /\ ~up
  /\ up' = TRUE
  /\ IF ok THEN \E rows \in Readings : Read(rows) /\ RecoverWith(rows)
           ELSE Upset("snapshot") /\ NoneMisread /\ RecoverWith(NoRows)
  /\ position' = IF ok THEN shares ELSE 0
  /\ ready' = ok
  /\ ClearFlatten(ok, position')
  /\ UNCHANGED <<venue, shares, closing, adapterVars, outcomes, flatJob, wire, armed,
                 clockVars, scan, posts>>

-----------------------------------------------------------------------------
Init ==
  /\ VenueInit
  /\ up = TRUE
  /\ orders = [i \in Orders |-> NoOrder]
  /\ logged = [i \in Orders |-> NoOrder]
  /\ actionLog = [i \in Orders |-> NoAction]
  /\ position = Opening
  /\ ready = TRUE
  /\ flattenPending = FALSE
  /\ armed = FALSE
  /\ printHealthy = FALSE
  /\ now = 0
  /\ lastGap = 0
  /\ lastPrint = NoPrint
  /\ scan = {}
  /\ posts = [i \in Orders |-> 0]

OrderCommand ==
  \E i \in Orders : \/ SubmitNative(i) \/ SubmitHeld(i) \/ CancelOrder(i)
                    \/ ReplaceOrder(i) \/ ReplaceHeld(i) \/ ResumeHeld(i)
AccountCommand == Arm \/ DisarmMaster \/ AutoDisarm \/ KillSwitch \/ Flatten
StreamEvent ==
  \/ OnLives \/ OnPosition \/ OnPositions \/ OnOpenOrders
  \/ \E k \in {"StreamGap", "BrokerConnUp", "BrokerConnDown"} : OnStreamBreak(k)
JobResult == OnSnapshot \/ \E x \in outcomes : OnOutcome(x)
HeldStep == EligiblePrint \/ PrintGap \/ ExpireHeldOrders \/ Tick
Process == Crash \/ ShutdownEngine \/ \E ok \in BOOLEAN : Recover(ok)
Outside ==
  /\ BrokerNext \/ Drop \/ Connect \/ FlattenCloses \/ FlattenReads
     \/ \E r \in net \cup landed : Deliver(r)
  /\ UNCHANGED coreVars

Next ==
  \/ OrderCommand \/ AccountCommand \/ StreamEvent \/ JobResult \/ HeldStep
  \/ \E i \in Orders : EvaluateHeld(i)
  \/ Process \/ Outside

Spec == Init /\ [][Next]_vars

\* Go's select picks among ready channels at random, so an inbox item that is
\* ready again and again is taken; the loop over one print ends; a request
\* ends by its deadline; the adapters reconnect; the engine is restarted.
Fairness ==
  /\ SF_vars(StreamEvent)
  /\ SF_vars(JobResult)
  /\ WF_vars(\E i \in Orders : EvaluateHeld(i))
  /\ \A i \in Orders : WF_vars((\E r \in net \cup landed : r.id = i /\ Deliver(r)) /\ UNCHANGED coreVars)
  /\ WF_vars((FlattenCloses \/ FlattenReads \/ CloseFills) /\ UNCHANGED coreVars)
  /\ WF_vars(Connect /\ UNCHANGED coreVars)
  /\ WF_vars(Recover(TRUE))
LiveSpec == Spec /\ Fairness
=============================================================================
