----------------------------- MODULE ExecState -----------------------------
(***************************************************************************)
(* The order state of the execution core (engine/internal/exec) and its    *)
(* fold.  An order is a record; a persisted event is folded into it by     *)
(* Apply, which is the same function on the live state and on a replay of  *)
(* the log.  Nothing here has state: ExecVenue and ExecCore build on it.   *)
(***************************************************************************)
EXTENDS Integers

CONSTANTS
  Orders,     \* order ids the idgen can mint in one run
  Sells,      \* the ids whose side is SELL; the others are BUY
  HeldIds,    \* the ids routed RouteEngineHeld; the others are native
  MaxQty,     \* largest order quantity, in shares
  MaxClock    \* bound of the engine clock, in ticks

ASSUME IdsAssumption == Sells \subseteq Orders /\ HeldIds \subseteq Orders
ASSUME QtyAssumption == MaxQty \in Nat /\ MaxQty > 0
ASSUME ClockAssumption == MaxClock \in Nat

Qtys == 0 .. MaxQty

-----------------------------------------------------------------------------
(* Records *)

WorkingStatus == {"SUBMITTED", "ACCEPTED", "PARTIALLY_FILLED"}
\* "NONE" is an id the core has never seen: absent from Orders and orderIndex.
\* No event gives REPLACED: only a row of a broker list does.
Status == WorkingStatus
            \cup {"NONE", "BLOCKED", "REJECTED", "FILLED", "CANCELED", "EXPIRED", "REPLACED"}

ActionKinds == {"NONE", "SUBMIT", "CANCEL", "REPLACE", "KEEP"}
ActionPhases == {"NONE", "REQUESTED", "UNKNOWN", "CONFIRMED", "FAILED"}
Action == [kind : ActionKinds, phase : ActionPhases, qty : Qtys]
NoAction == [kind |-> "NONE", phase |-> "NONE", qty |-> 0]
Requested(k, q) == [kind |-> k, phase |-> "REQUESTED", qty |-> q]

Pretrigger == {"WAITING", "ARMED", "PAUSED"}
HeldPhases == Pretrigger \cup {"NONE", "ACTIVATING", "WORKING", "CANCEL_REQUESTED", "UNKNOWN", "KEEP"}
\* "after" is the later of CreatedMs and ResumeAfterMs: both only ever bound
\* from below the receive time of a print that may trigger the order.
Held == [phase : HeldPhases, child : BOOLEAN, cancelRequested : BOOLEAN,
         cancelSent : BOOLEAN, after : 0 .. MaxClock]
NoHeld == [phase |-> "NONE", child |-> FALSE, cancelRequested |-> FALSE,
           cancelSent |-> FALSE, after |-> 0]

Order == [status : Status, qty : Qtys, exec : Qtys, leaves : Qtys,
          action : Action, held : Held]
NoOrder == [status |-> "NONE", qty |-> 0, exec |-> 0, leaves |-> 0,
            action |-> NoAction, held |-> NoHeld]

Working(o) == o.status \in WorkingStatus
IsHeld(o) == o.held.phase # "NONE"
Pending(a) == a.phase \in {"REQUESTED", "UNKNOWN"}
Unresolved(o, k) == o.action.kind = k /\ Pending(o.action)

-----------------------------------------------------------------------------
(* The fold of one lifecycle event *)

LifeKinds == {"NoEvent", "OrderAccepted", "OrderRejected", "OrderFilled",
              "OrderCanceled", "OrderExpired", "OrderReplaced"}
\* cum and leaves are OrderFilled's, qty is OrderReplaced's
Life == [ev : LifeKinds, cum : Qtys, leaves : Qtys, qty : Qtys]
LifeEvent(k) == [ev |-> k, cum |-> 0, leaves |-> 0, qty |-> 0]
NoEvent == LifeEvent("NoEvent")
FillEvent(c, l) == [LifeEvent("OrderFilled") EXCEPT !.cum = c, !.leaves = l]
ReplaceEvent(q) == [LifeEvent("OrderReplaced") EXCEPT !.qty = q]

Confirm(a, k) == IF a.kind = k /\ Pending(a) THEN [a EXCEPT !.phase = "CONFIRMED"] ELSE a
Fail(a) == IF Pending(a) THEN [a EXCEPT !.phase = "FAILED"] ELSE a
Ended(o, st) == IF Working(o) THEN st ELSE o.status
\* LeavesQty below zero commits nothing, as zero does.
Minus(a, b) == IF a >= b THEN a - b ELSE 0

FoldAccepted(o) == [o EXCEPT !.status = "ACCEPTED", !.action = Confirm(@, "SUBMIT")]
FoldRejected(o) == [o EXCEPT !.status = "REJECTED", !.action = Fail(@)]
FoldFilled(o, e) ==
  [o EXCEPT !.status = IF e.leaves = 0 THEN "FILLED" ELSE "PARTIALLY_FILLED",
            !.exec = e.cum, !.leaves = e.leaves, !.action = Confirm(@, "SUBMIT")]
FoldCanceled(o) ==
  [o EXCEPT !.status = Ended(o, "CANCELED"),
            !.action = Confirm(Confirm(@, "SUBMIT"), "CANCEL")]
FoldExpired(o) ==
  [o EXCEPT !.status = Ended(o, "EXPIRED"), !.action = Fail(Confirm(@, "SUBMIT"))]
\* wrong: the new size added to what is left
FoldReplacedAdding(o, e) ==
  IF Working(o) THEN [o EXCEPT !.status = "ACCEPTED", !.qty = e.qty, !.leaves = @ + e.qty] ELSE o
FoldReplaced(o, e) ==
  IF Working(o)
  THEN [o EXCEPT !.status = "ACCEPTED", !.qty = e.qty, !.leaves = Minus(e.qty, o.exec),
                 !.action = Confirm(@, "REPLACE")]
  ELSE o

FoldLife(o, e) ==
  CASE e.ev = "NoEvent"       -> o
    [] e.ev = "OrderAccepted" -> FoldAccepted(o)
    [] e.ev = "OrderRejected" -> FoldRejected(o)
    [] e.ev = "OrderFilled"   -> FoldFilled(o, e)
    [] e.ev = "OrderCanceled" -> FoldCanceled(o)
    [] e.ev = "OrderExpired"  -> FoldExpired(o)
    [] e.ev = "OrderReplaced" -> FoldReplaced(o, e)

-----------------------------------------------------------------------------
(* What one handler persists about one order: at most one lifecycle event, *)
(* then at most one OrderActionChanged and one HeldOrderChanged.           *)

KeepAction == [NoAction EXCEPT !.kind = "KEEP"]
KeepHeld == [NoHeld EXCEPT !.phase = "KEEP"]
Change == [life : Life, action : Action, held : Held]
NoChange == [life |-> NoEvent, action |-> KeepAction, held |-> KeepHeld]
LifeChange(e) == [NoChange EXCEPT !.life = e]
ActionChange(a) == [NoChange EXCEPT !.action = a]
HeldChange(h) == [NoChange EXCEPT !.held = h]

SetAction(old, a) == IF a.kind = "KEEP" THEN old ELSE a
SetHeld(old, h) == IF h.phase = "KEEP" THEN old ELSE h
\* mutate: an event for an id that was never submitted changes nothing.  (The
\* code indexes the id of an unknown fill; no such fill exists here, as a POST
\* starts from an order of the log: IntentBeforePost.)
Apply(o, c) ==
  IF o.status = "NONE" THEN o
  ELSE [FoldLife(o, c.life) EXCEPT !.action = SetAction(@, c.action),
                                   !.held = SetHeld(@, c.held)]

NewOrder(q, a, h) ==
  [NoOrder EXCEPT !.status = "SUBMITTED", !.qty = q, !.leaves = q, !.action = a, !.held = h]
BlockedOrder(q) == [NoOrder EXCEPT !.status = "BLOCKED", !.qty = q]

-----------------------------------------------------------------------------
(* Broker rows overlaid on the live orders, outside the log *)

\* restOrderStatusDomain: the status a row of the open-orders list is given.
\* An order may be open and yet listed with a status the core does not count as
\* working: pending_cancel is read as CANCELED, pending_replace as REPLACED, and
\* stopped, suspended, calculated and done_for_day as EXPIRED.
OddStatus == {"CANCELED", "REPLACED", "EXPIRED"}
\* A row of a broker open-orders list; qty 0 is "not in the list".
Row == [qty : Qtys, exec : Qtys, as : OddStatus \cup {"open"}]
NoRow == [qty |-> 0, exec |-> 0, as |-> "open"]
Listed(r) == r.qty > 0
ListedAs(r) ==
  CASE r.as # "open"               -> r.as
    [] r.as = "open" /\ r.exec = 0 -> "ACCEPTED"
    [] r.as = "open" /\ r.exec > 0 -> "PARTIALLY_FILLED"

\* wrong: the broker's row replaces the parent, custody and all
OverlayForgetting(o, r) ==
  IF Listed(r)
  THEN [NoOrder EXCEPT !.status = ListedAs(r), !.qty = r.qty, !.exec = r.exec,
                       !.leaves = Minus(r.qty, r.exec)]
  ELSE o
\* ReconcileOpenOrders: the broker's status and quantities win, whatever they
\* are; custody stays the parent's.
Overlay(o, r) ==
  IF Listed(r)
  THEN [o EXCEPT !.status = ListedAs(r), !.qty = r.qty, !.exec = r.exec,
                 !.leaves = Minus(r.qty, r.exec)]
  ELSE o

-----------------------------------------------------------------------------
(* Shares an order commits at the venue *)

\* wrong: a submit nobody answered commits nothing
CommittedWhenConfirmed(o) == IF ~Working(o) \/ Unresolved(o, "SUBMIT") THEN 0 ELSE o.leaves
\* wrong: an unanswered replace commits only the old size
CommittedBeforeReplace(o) ==
  IF ~Working(o) \/ (o.held.phase \in Pretrigger /\ ~o.held.child) THEN 0 ELSE o.leaves
CommittedLeaves(o) ==
  IF ~Working(o) \/ (o.held.phase \in Pretrigger /\ ~o.held.child) THEN 0
  ELSE IF Unresolved(o, "REPLACE") /\ Minus(o.action.qty, o.exec) > o.leaves
       THEN Minus(o.action.qty, o.exec)
       ELSE o.leaves
=============================================================================
