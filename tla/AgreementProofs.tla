-------------------------- MODULE AgreementProofs --------------------------
(***************************************************************************)
(* What the books of the core, its log and the broker's books agree on,    *)
(* for every set of orders and every bound: custody survives a replay, and *)
(* once the stream is drained the core knows what rests at the broker.     *)
(***************************************************************************)
EXTENDS OrderLifeProofs

-----------------------------------------------------------------------------
(* What one step of the core does to one order *)

\* One change folded into the live order and into the log.
Took(i, c) == orders'[i] = Apply(orders[i], c) /\ logged'[i] = Apply(logged[i], c)
\* An id the core has never seen becomes an order (handleSubmit).
Opened(o) ==
  \E q \in 1 .. MaxQty :
    \/ o = BlockedOrder(q)
    \/ \E a \in {NoAction, Requested("SUBMIT", 0)}, h \in Held :
         h.phase \in {"NONE", "WAITING"} /\ o = NewOrder(q, a, h)
Enters(i) ==
  /\ posts[i] = 0 /\ orders[i].status = "NONE" /\ logged[i].status = "NONE"
  /\ orders'[i] = logged'[i] /\ Opened(orders'[i])

\* What a command, a timer or a result persists of an order: an event only of
\* one that waits in the engine, or the rejection of one whose answer was lost.
OwnLife(i, e) ==
  \/ e = NoEvent
  \/ /\ orders[i].held.phase \in Pretrigger
     /\ e.ev \in OwnEvents /\ (e.ev = "OrderReplaced" => e.qty > 0)
  \/ i \notin Firm /\ e = LifeEvent("OrderRejected")
\* A replace of q shares is asked for (handleReplaceSingle).
Resizes(i, q) ==
  /\ "replace" \in Commands /\ ~ReplaceRefused(orders[i], q)
  /\ (Guarded(i) /\ q - orders[i].exec > orders[i].leaves) => LeavesOk(i, q - orders[i].exec)
  /\ net' = net \cup {Request("REPLACE", i, q)}
\* Why a cancel may be asked for.
Cancelable(i) ==
  \/ "cancel" \in Commands \/ "kill" \in Commands
  \/ orders[i].held.phase = "ACTIVATING"
  \/ HeldIds # {} /\ now >= Deadline
OwnAction(i, a) ==
  \/ a.kind = "KEEP"
  \/ a.kind = "CANCEL" /\ Cancelable(i)
  \/ \E q \in 1 .. MaxQty : a = Requested("REPLACE", q) /\ Resizes(i, q)
  \/ /\ a.kind = orders[i].action.kind /\ a.qty = orders[i].action.qty
     /\ a.kind = "REPLACE" => Pending(orders[i].action) /\ Pending(a)
\* An order that left the engine, or is leaving it, does not come back to it.
Early == Pretrigger \cup {"ACTIVATING"}
OwnHeld(i, h) == h.phase \in Early => orders[i].held.phase \in Early
Restrained(i, c) ==
  c \in Change /\ OwnLife(i, c.life) /\ OwnAction(i, c.action) /\ OwnHeld(i, c.held)

\* The requests a step of the core starts: cancels, or the submission of an
\* order that never had one, new or waiting in the engine, or a replace.
Submitted(r) ==
  /\ r.kind \in SubmitKinds /\ posts[r.id] = 0 /\ posts'[r.id] = 1
  /\ orders[r.id].status = "NONE" \/ orders[r.id].held.phase \in Pretrigger
  /\ Working(orders'[r.id]) /\ orders'[r.id].leaves = r.qty
  /\ Guarded(r.id) => LeavesOk(r.id, r.qty)
Asked(r) ==
  /\ r.live
  /\ \/ Submitted(r)
     \/ /\ r.kind = "REPLACE" /\ r.qty > 0 /\ Resizes(r.id, r.qty)
        /\ orders'[r.id].action = Requested("REPLACE", r.qty)
OnlyCancels == net \subseteq net' /\ \A r \in net' : r \in net \/ (r.kind = "CANCEL" /\ r.live)
Sent == OnlyCancels \/ \E r \in Requests : net' = net \cup {r} /\ Asked(r)

\* The steps of the core that take nothing off the inbox.
OwnStep ==
  \/ OrderCommand \/ AccountCommand \/ HeldStep
  \/ \E x \in outcomes : OnOutcome(x)
  \/ \E i \in Orders : EvaluateHeld(i)
Quietly == /\ UNCHANGED <<venue, shares, closing, wire, online, connected, tracked, seenQty>>
           /\ UNCHANGED <<up, ready, position, flatJob>>
Does == /\ Quietly /\ Sent
        /\ \A i \in Orders : Enters(i) \/ \E c \in Change : Took(i, c) /\ Restrained(i, c)

\* Folding nothing changes nothing.
LEMMA ApplyNothing == \A o \in Order : Apply(o, NoChange) = o
<1>1. ASSUME NEW o \in Order PROVE Apply(o, NoChange) = o
  <2>1. /\ NoChange.life.ev = "NoEvent" /\ NoChange.action.kind = "KEEP"
        /\ NoChange.held.phase = "KEEP"
    BY DEF NoChange, NoEvent, LifeEvent, KeepAction, KeepHeld, NoAction, NoHeld
  <2>2. FoldLife(o, NoChange.life) = o
    BY <2>1 DEF FoldLife
  <2> QED BY <2>1, <2>2 DEF Apply, SetAction, SetHeld, Order
<1> QED BY <1>1

\* An order a step leaves alone.
LEMMA TookNothing ==
  ASSUME LInv, NEW i \in Orders, orders'[i] = orders[i], logged'[i] = logged[i]
  PROVE  \E c \in Change : Took(i, c) /\ Restrained(i, c)
<1>1. orders[i] \in Order /\ logged[i] \in Order
  BY LInvFacts
<1>2. Took(i, NoChange) /\ NoChange \in Change
  BY <1>1, ApplyNothing, EmptyTypes DEF Took
<1>3. Restrained(i, NoChange)
  BY <1>2 DEF Restrained, OwnLife, OwnAction, NoChange, KeepAction, NoAction,
              OwnHeld, KeepHeld, NoHeld, Early, Pretrigger
<1> QED BY <1>2, <1>3

\* What the changes are made of.
LEMMA RestrainedChanges ==
  ASSUME LInv, NEW i \in Orders
  PROVE  /\ Restrained(i, NoChange)
         /\ \A h \in Held : OwnHeld(i, h) => Restrained(i, HeldChange(h))
         /\ \A p \in HeldPhases : (p \in Early => orders[i].held.phase \in Early)
                                   => Restrained(i, HeldTo(orders[i], p))
         /\ orders[i].held.phase \in Pretrigger =>
              \A k \in {"OrderRejected", "OrderCanceled", "OrderExpired"} :
                 Restrained(i, LifeChange(LifeEvent(k)))
         /\ Cancelable(i) => Restrained(i, AskCancel(orders[i]))
         /\ Restrained(i, Pause(orders[i]))
         /\ Restrained(i, Disarm(orders[i], FALSE))
         /\ "cancel" \in Commands => Restrained(i, Cancel(orders[i]))
         /\ "kill" \in Commands => Restrained(i, Kill(orders[i]))
         /\ HeldIds # {} /\ now >= Deadline => Restrained(i, Expire(orders[i]))
<1> DEFINE o == orders[i]
<1>0. o \in Order /\ o.action \in Action /\ o.held \in Held
  BY LInvFacts DEF Order
<1>k. /\ NoChange.life = NoEvent /\ NoChange.action.kind = "KEEP"
      /\ \A e : LifeChange(e).life = e /\ LifeChange(e).action.kind = "KEEP"
      /\ \A h : /\ HeldChange(h).life = NoEvent /\ HeldChange(h).action.kind = "KEEP"
               /\ HeldChange(h).held = h
      /\ \A a : ActionChange(a).life = NoEvent /\ ActionChange(a).action = a
  BY DEF NoChange, LifeChange, HeldChange, ActionChange, KeepAction, NoAction
<1>h. /\ OwnHeld(i, NoChange.held)
      /\ \A e : OwnHeld(i, LifeChange(e).held)
      /\ \A a : OwnHeld(i, ActionChange(a).held)
  BY DEF NoChange, LifeChange, ActionChange, KeepHeld, NoHeld, OwnHeld, Early, Pretrigger
<1>1. Restrained(i, NoChange)
  BY <1>k, <1>h, EmptyTypes DEF Restrained, OwnLife, OwnAction
<1>2. \A h \in Held : OwnHeld(i, h) => Restrained(i, HeldChange(h))
  BY <1>k, ChangeTypes DEF Restrained, OwnLife, OwnAction
<1>3. ASSUME NEW p \in HeldPhases, p \in Early => o.held.phase \in Early
      PROVE  Restrained(i, HeldTo(o, p))
  <2>1. HeldTo(o, p) \in Change
    BY <1>0, HeldChangeTypes
  <2>2. HeldTo(o, p).life = NoEvent /\ HeldTo(o, p).action.kind = "KEEP"
    BY <1>k DEF HeldTo
  <2>3. HeldTo(o, p).held.phase = p
    <3>1. [o.held EXCEPT !.phase = p, !.cancelRequested = FALSE].phase = p
      BY <1>0 DEF Held
    <3>2. HeldTo(o, p) = HeldChange([o.held EXCEPT !.phase = p, !.cancelRequested = FALSE])
      BY DEF HeldTo
    <3> QED BY <1>k, <3>1, <3>2
  <2> QED BY <1>3, <2>1, <2>2, <2>3 DEF Restrained, OwnLife, OwnAction, OwnHeld
<1>4. ASSUME o.held.phase \in Pretrigger,
             NEW k \in {"OrderRejected", "OrderCanceled", "OrderExpired"}
      PROVE  Restrained(i, LifeChange(LifeEvent(k)))
  <2>1. LifeEvent(k) \in Life /\ LifeEvent(k).ev = k
    BY LifeTypes DEF LifeKinds, LifeEvent
  <2>2. LifeChange(LifeEvent(k)) \in Change
    BY <2>1, ChangeTypes
  <2> QED BY <1>k, <1>h, <1>4, <2>1, <2>2 DEF Restrained, OwnLife, OwnAction, OwnEvents
<1>5. ASSUME Cancelable(i) PROVE Restrained(i, AskCancel(o))
  <2>1. AskCancel(o) \in Change
    BY <1>0, HeldChangeTypes
  <2>2. /\ AskCancel(o).life = NoEvent
        /\ AskCancel(o).action.kind \in {"KEEP", "CANCEL"}
    BY <1>k DEF AskCancel, NoChange, Requested
  <2>3. AskCancel(o).held.phase \in {"KEEP", "CANCEL_REQUESTED"}
    <3>1. NoChange.held.phase = "KEEP"
      BY DEF NoChange, KeepHeld, NoHeld
    <3>2. [o.held EXCEPT !.phase = "CANCEL_REQUESTED", !.cancelRequested = TRUE,
                         !.cancelSent = @ \/ o.held.phase # "ACTIVATING"].phase = "CANCEL_REQUESTED"
      BY <1>0 DEF Held
    <3>3. CASE Unresolved(o, "CANCEL")
      BY <3>1, <3>3 DEF AskCancel
    <3>4. CASE ~Unresolved(o, "CANCEL")
      BY <3>2, <3>4 DEF AskCancel, NoChange
    <3> QED BY <3>3, <3>4
  <2> QED BY <1>5, <2>1, <2>2, <2>3 DEF Restrained, OwnLife, OwnAction, OwnHeld, Early, Pretrigger
<1> HIDE DEF o
<1>6. "PAUSED" \in HeldPhases
  BY DEF HeldPhases, Pretrigger
<1>7. Restrained(i, Pause(o))
  BY <1>1, <1>3, <1>6 DEF Pause, Live, Early, Pretrigger
<1>8. Restrained(i, Disarm(o, FALSE))
  <2>1. o.held.phase = "ACTIVATING" => Cancelable(i)
    BY DEF Cancelable, o
  <2>2. \/ Disarm(o, FALSE) = NoChange
        \/ o.held.phase \in Pretrigger /\ Disarm(o, FALSE) = HeldTo(o, "PAUSED")
        \/ o.held.phase = "ACTIVATING" /\ Disarm(o, FALSE) = AskCancel(o)
    BY SMTT(20) DEF Disarm
  <2> QED BY <1>1, <1>3, <1>5, <1>6, <2>1, <2>2 DEF Early
<1>9. ASSUME "cancel" \in Commands \/ "kill" \in Commands PROVE Restrained(i, Cancel(o))
  <2>1. Cancelable(i)
    BY <1>9 DEF Cancelable
  <2>2. Restrained(i, ActionChange(Requested("CANCEL", 0)))
    <3>1. ActionChange(Requested("CANCEL", 0)) \in Change
      BY ChangeTypes, EmptyTypes DEF ActionKinds
    <3> QED BY <1>k, <1>h, <2>1, <3>1 DEF Restrained, OwnLife, OwnAction, Requested
  <2> QED BY <1>1, <1>4, <1>5, <2>1, <2>2 DEF Cancel
<1>10. ASSUME "kill" \in Commands PROVE Restrained(i, Kill(o))
  <2>1. Cancelable(i)
    BY <1>10 DEF Cancelable
  <2>2. \/ Disarm(o, TRUE) = NoChange \/ Disarm(o, TRUE) = AskCancel(o)
        \/ /\ o.held.phase \in Pretrigger
           /\ Disarm(o, TRUE) = LifeChange(LifeEvent("OrderCanceled"))
    BY SMTT(20) DEF Disarm
  <2>3. Kill(o) = NoChange \/ Kill(o) = Disarm(o, TRUE) \/ Kill(o) = Cancel(o)
    BY DEF Kill
  <2> QED BY <1>1, <1>4, <1>5, <1>9, <1>10, <2>1, <2>2, <2>3
<1>11. ASSUME HeldIds # {}, now >= Deadline PROVE Restrained(i, Expire(o))
  <2>1. Cancelable(i)
    BY <1>11 DEF Cancelable
  <2>2. \/ Expire(o) = NoChange \/ Expire(o) = AskCancel(o)
        \/ o.held.phase \in Pretrigger /\ Expire(o) = LifeChange(LifeEvent("OrderExpired"))
    BY SMTT(20) DEF Expire
  <2> QED BY <1>1, <1>4, <1>5, <2>1, <2>2
<1> QED
  BY <1>1, <1>2, <1>3, <1>4, <1>5, <1>7, <1>8, <1>9, <1>10, <1>11 DEF o, Early

\* The results of the goroutines.
LEMMA RestrainedOutcome ==
  ASSUME LInv, NoLateWord, NEW x \in outcomes
  PROVE  Restrained(x.id, OnOutcomeChange(x))
<1> DEFINE o == orders[x.id]
<1>1. /\ x \in Outcomes /\ x.id \in Orders /\ x.kind \in RequestKinds
      /\ o \in Order /\ o.action \in Action /\ o.held \in Held /\ CoreTypeOK
  BY LInvFacts DEF VenueTypeOK, Outcomes, Order
<1>2. OnOutcomeChange(x) \in Change
  BY <1>1, OutcomeChangeType
<1>k. /\ NoChange.life = NoEvent /\ NoChange.action.kind = "KEEP"
      /\ \A h : HeldChange(h).life = NoEvent /\ HeldChange(h).action.kind = "KEEP"
      /\ \A a : ActionChange(a).life = NoEvent /\ ActionChange(a).action = a
  BY DEF NoChange, HeldChange, ActionChange, KeepAction, NoAction
<1>h. /\ OwnHeld(x.id, NoChange.held)
      /\ \A a : OwnHeld(x.id, ActionChange(a).held)
  BY DEF NoChange, ActionChange, KeepHeld, NoHeld, OwnHeld, Early, Pretrigger
<1>3. CASE x.kind = "SUBMIT"
  <2>1. x.id \notin Firm
    BY <1>3 DEF NoLateWord
  <2>2. OnOutcomeChange(x) = OnLife(o, LifeEvent("OrderRejected"))
    BY <1>3 DEF OnOutcomeChange
  <2>3. /\ OnLife(o, LifeEvent("OrderRejected")).life = LifeEvent("OrderRejected")
        /\ OnLife(o, LifeEvent("OrderRejected")).action.kind = "KEEP"
        /\ OnLife(o, LifeEvent("OrderRejected")).held.phase = "KEEP"
    BY DEF OnLife, LifeEvent, KeepAction, NoAction, KeepHeld, NoHeld
  <2> QED BY <1>2, <2>1, <2>2, <2>3 DEF Restrained, OwnLife, OwnAction, OwnHeld, Early, Pretrigger
<1>4. CASE x.kind # "SUBMIT"
  <2>1. ASSUME NEW p \in ActionPhases, o.action.kind = "REPLACE" => Pending(o.action) /\ p = "UNKNOWN"
        PROVE  OwnAction(x.id, [o.action EXCEPT !.phase = p])
    <3>1. /\ [o.action EXCEPT !.phase = p].kind = o.action.kind
          /\ [o.action EXCEPT !.phase = p].qty = o.action.qty
          /\ [o.action EXCEPT !.phase = p].phase = p
      BY <1>1 DEF Action
    <3> QED BY <2>1, <3>1 DEF OwnAction, Pending
  <2>2. OwnAction(x.id, NoChange.action) /\ \A h : OwnAction(x.id, HeldChange(h).action)
    BY <1>k DEF OwnAction
  <2>3. /\ OnSubmitOutcome(x).life = NoEvent /\ OwnAction(x.id, OnSubmitOutcome(x).action)
        /\ OwnHeld(x.id, OnSubmitOutcome(x).held)
    <3>1. CASE Working(o) /\ Unresolved(o, "SUBMIT")
      <4>1. \E p \in ActionPhases : OnSubmitOutcome(x) = ActionChange([o.action EXCEPT !.phase = p])
        BY <3>1 DEF OnSubmitOutcome, ActionPhases
      <4>2. o.action.kind # "REPLACE"
        BY <3>1 DEF Unresolved
      <4> QED BY <1>k, <1>h, <2>1, <4>1, <4>2
    <3>2. CASE ~(Working(o) /\ Unresolved(o, "SUBMIT"))
      <4>1. OnSubmitOutcome(x) = NoChange
        BY <3>2 DEF OnSubmitOutcome
      <4> QED BY <1>k, <1>h, <2>2, <4>1
    <3> QED BY <3>1, <3>2
  <2>4. /\ OnActionOutcome(x).life = NoEvent /\ OwnAction(x.id, OnActionOutcome(x).action)
        /\ OwnHeld(x.id, OnActionOutcome(x).held)
    <3>1. CASE o.action.kind = x.kind /\ o.action.phase = "REQUESTED"
      <4>1. OnActionOutcome(x) = ActionChange([o.action EXCEPT !.phase = "UNKNOWN"])
        BY <3>1 DEF OnActionOutcome
      <4>2. Pending(o.action) /\ "UNKNOWN" \in ActionPhases
        BY <3>1 DEF Pending, ActionPhases
      <4> QED BY <1>k, <1>h, <2>1, <4>1, <4>2
    <3>2. CASE ~(o.action.kind = x.kind /\ o.action.phase = "REQUESTED")
      <4>1. OnActionOutcome(x) = NoChange
        BY <3>2 DEF OnActionOutcome
      <4> QED BY <1>k, <1>h, <2>2, <4>1
    <3> QED BY <3>1, <3>2
  <2>5. /\ OnActivationOutcome(x).life = NoEvent /\ OwnAction(x.id, OnActivationOutcome(x).action)
        /\ OwnHeld(x.id, OnActivationOutcome(x).held)
    <3>1. CASE ActivationDoubted(o)
      <4> DEFINE h == [o.held EXCEPT !.phase = "UNKNOWN", !.cancelSent = @ \/ CancelNow(o)]
      <4>1. OnActivationOutcome(x) = HeldChange(h)
        BY <3>1 DEF OnActivationOutcome
      <4>2. h.phase = "UNKNOWN"
        BY <1>1 DEF Held
      <4>3. \A g : HeldChange(g).held = g
        BY DEF HeldChange, NoChange
      <4> HIDE DEF h
      <4> QED BY <1>k, <2>2, <4>1, <4>2, <4>3 DEF OwnHeld, Early, Pretrigger
    <3>2. CASE ~ActivationDoubted(o)
      <4>1. OnActivationOutcome(x) = NoChange
        BY <3>2 DEF OnActivationOutcome
      <4> QED BY <1>k, <1>h, <2>2, <4>1
    <3> QED BY <3>1, <3>2
  <2>6. OnOutcomeChange(x) \in {OnSubmitOutcome(x), OnActivationOutcome(x), OnActionOutcome(x)}
    BY <1>1, <1>4 DEF OnOutcomeChange, RequestKinds, SubmitKinds
  <2> QED BY <1>2, <2>3, <2>4, <2>5, <2>6 DEF Restrained, OwnLife
<1> QED
  BY <1>3, <1>4

\* A step that folds a change of its own into each order.
LEMMA AppendDoes ==
  ASSUME Quietly, Sent, NEW chg, AppendAndFold(chg),
         \A i \in Orders : Restrained(i, chg[i])
  PROVE  Does
<1>1. ASSUME NEW i \in Orders PROVE \E c \in Change : Took(i, c) /\ Restrained(i, c)
  <2>1. Took(i, chg[i]) /\ chg[i] \in Change
    BY DEF AppendAndFold, Took, Restrained
  <2> QED BY <2>1
<1> QED BY <1>1 DEF Does

\* The same for a change of one order.
LEMMA OnlyDoes ==
  ASSUME LInv, Quietly, Sent, NEW i \in Orders, NEW c, AppendAndFold(Only(i, c)), Restrained(i, c)
  PROVE  Does
<1>1. \A j \in Orders : Restrained(j, Only(i, c)[j])
  BY RestrainedChanges DEF Only
<1> QED BY <1>1, AppendDoes

\* A step that leaves the books alone.
LEMMA IdleDoes ==
  ASSUME LInv, Quietly, Sent, UNCHANGED <<orders, logged>>
  PROVE  Does
BY TookNothing DEF Does

LEMMA SentCancels ==
  /\ \A ids : Send(Cancels(ids)) => OnlyCancels
  /\ Send({}) => OnlyCancels
  /\ UNCHANGED net => OnlyCancels
BY DEF Send, Cancels, Request, OnlyCancels

LEMMA SubmitDoes ==
  ASSUME LInv, NEW i \in Orders, SubmitNative(i) \/ SubmitHeld(i)
  PROVE  Does
<1>1. /\ orders[i].status = "NONE" /\ logged[i].status = "NONE" /\ posts[i] = 0
      /\ posts \in [Orders -> Nat] /\ BookTypeOK
  <2>1. orders[i].status = "NONE"
    BY DEF SubmitNative, SubmitHeld
  <2>2. Custody(i) /\ posts \in [Orders -> Nat] /\ BookTypeOK
    BY LInvFacts
  <2> QED BY <2>1, <2>2 DEF Custody
<1>2. Quietly
  BY DEF SubmitNative, SubmitHeld, Quietly, Idle, venueVars, outside, brokerVars, adapterVars
<1>3. ASSUME NEW o, AppendSubmitted(i, o), Opened(o), Sent PROVE Does
  <2>1. Enters(i)
    BY <1>1, <1>3 DEF Enters, AppendSubmitted, BookTypeOK
  <2>2. ASSUME NEW j \in Orders \ {i} PROVE \E c \in Change : Took(j, c) /\ Restrained(j, c)
    <3>1. orders'[j] = orders[j] /\ logged'[j] = logged[j]
      BY <1>1, <1>3 DEF AppendSubmitted, BookTypeOK
    <3> QED BY <3>1, TookNothing
  <2> QED BY <1>2, <1>3, <2>1, <2>2 DEF Does
<1>4. \A q \in 1 .. MaxQty : Opened(BlockedOrder(q))
  BY DEF Opened
<1>5. CASE SubmitNative(i)
  <2> DEFINE a == IF Guarded(i) THEN Requested("SUBMIT", 0) ELSE NoAction
             k == IF Guarded(i) THEN "GUARDED" ELSE "SUBMIT"
  <2>1. PICK q \in 1 .. MaxQty :
          \/ /\ Guarded(i) => LeavesOk(i, q)
             /\ AppendSubmitted(i, NewOrder(q, a, NoHeld))
             /\ Send({Request(k, i, q)})
             /\ posts' = [posts EXCEPT ![i] = @ + 1]
          \/ AppendSubmitted(i, BlockedOrder(q)) /\ UNCHANGED <<net, posts>>
    BY <1>5 DEF SubmitNative
  <2>2. k \in SubmitKinds /\ a \in {NoAction, Requested("SUBMIT", 0)}
    BY DEF SubmitKinds
  <2> HIDE DEF a, k
  <2>3. CASE /\ Guarded(i) => LeavesOk(i, q)
             /\ AppendSubmitted(i, NewOrder(q, a, NoHeld))
             /\ Send({Request(k, i, q)})
             /\ posts' = [posts EXCEPT ![i] = @ + 1]
    <3> DEFINE r == Request(k, i, q)
    <3>1. r.kind = k /\ r.id = i /\ r.qty = q /\ r.live
      BY DEF Request
    <3>2. r \in Requests
      <4>1. q \in Qtys
        BY QtyAssumption DEF Qtys
      <4> QED BY <2>2, <4>1 DEF Request, Requests, RequestKinds
    <3>3. net' = net \cup {r} /\ posts'[i] = 1
      BY <1>1, <2>3 DEF Send
    <3> HIDE DEF r
    <3>4. orders'[i] = NewOrder(q, a, NoHeld)
      BY <1>1, <2>3 DEF AppendSubmitted, BookTypeOK
    <3>5. Working(orders'[i]) /\ orders'[i].leaves = q
      BY <3>4 DEF NewOrder, NoOrder, Working, WorkingStatus
    <3>6. Asked(r)
      BY <1>1, <2>2, <2>3, <3>1, <3>3, <3>5 DEF Asked, Submitted
    <3>7. Sent
      BY <3>2, <3>3, <3>6 DEF Sent
    <3>8. Opened(NewOrder(q, a, NoHeld))
      BY <2>2, EmptyTypes DEF Opened, NoHeld
    <3> QED BY <1>3, <2>3, <3>7, <3>8
  <2>4. CASE AppendSubmitted(i, BlockedOrder(q)) /\ UNCHANGED <<net, posts>>
    BY <1>3, <1>4, <2>4, SentCancels DEF Sent
  <2> QED BY <2>1, <2>3, <2>4
<1>6. CASE SubmitHeld(i)
  <2> DEFINE h == [NoHeld EXCEPT !.phase = "WAITING", !.after = now]
  <2>1. PICK q \in 1 .. MaxQty :
          /\ AppendSubmitted(i, NewOrder(q, NoAction, h)) \/ AppendSubmitted(i, BlockedOrder(q))
          /\ UNCHANGED net
    BY <1>6 DEF SubmitHeld, venueVars
  <2>2. h \in Held /\ h.phase = "WAITING"
    BY EmptyTypes, LInvFacts DEF Held, CoreTypeOK, NoHeld, HeldPhases, Pretrigger
  <2> HIDE DEF h
  <2>3. Opened(NewOrder(q, NoAction, h))
    BY <2>2 DEF Opened
  <2> QED BY <1>3, <1>4, <2>1, <2>3, SentCancels DEF Sent
<1> QED
  BY <1>5, <1>6

\* The commands about an order that exists.
LEMMA OrderCommandDoes ==
  ASSUME LInv, OrderCommand
  PROVE  Does
<1> USE DEF venueVars, outside, brokerVars, adapterVars, Idle
<1>1. ASSUME NEW i \in Orders, CancelOrder(i) PROVE Does
  <2>1. Quietly /\ AppendAndFold(Only(i, Cancel(orders[i]))) /\ "cancel" \in Commands
    BY <1>1 DEF CancelOrder, Quietly
  <2>2. Sent
    BY <1>1, SentCancels DEF CancelOrder, Sent
  <2>3. Restrained(i, Cancel(orders[i]))
    BY <2>1, RestrainedChanges
  <2> QED BY <2>1, <2>2, <2>3, OnlyDoes
<1>2. ASSUME NEW i \in Orders, ReplaceOrder(i) PROVE Does
  <2>1. PICK q \in 1 .. MaxQty :
          /\ ~ReplaceRefused(orders[i], q) /\ "replace" \in Commands
          /\ (Guarded(i) /\ q - orders[i].exec > orders[i].leaves) => LeavesOk(i, q - orders[i].exec)
          /\ AppendAndFold(Only(i, ActionChange(Requested("REPLACE", q))))
          /\ Send({Request("REPLACE", i, q)})
    BY <1>2 DEF ReplaceOrder
  <2>2. Quietly
    BY <1>2 DEF ReplaceOrder, Quietly
  <2> DEFINE r == Request("REPLACE", i, q)
  <2>3. Resizes(i, q) /\ net' = net \cup {r}
    BY <2>1 DEF Resizes, Send
  <2>4. r.kind = "REPLACE" /\ r.id = i /\ r.qty = q /\ r.live
    BY DEF Request
  <2>5. q \in Qtys /\ q > 0
    BY QtyAssumption DEF Qtys
  <2>6. r \in Requests
    BY <2>5 DEF Request, Requests, RequestKinds
  <2> HIDE DEF r
  <2>a. orders'[i].action = Requested("REPLACE", q)
    <3> DEFINE c == ActionChange(Requested("REPLACE", q))
    <3>1. orders'[i] = Apply(orders[i], c)
      BY <2>1 DEF AppendAndFold, Only
    <3>2. c.action = Requested("REPLACE", q) /\ c.life = NoEvent
      BY DEF ActionChange, NoChange
    <3>3. orders[i].status # "NONE" /\ orders[i] \in Order
      BY <2>1, LInvFacts DEF ReplaceRefused
    <3>4. FoldLife(orders[i], NoEvent) = orders[i]
      BY DEF FoldLife, NoEvent, LifeEvent
    <3> HIDE DEF c
    <3> QED BY <3>1, <3>2, <3>3, <3>4 DEF Apply, SetAction, Requested, Order
  <2>7. Sent
    BY <2>3, <2>4, <2>5, <2>6, <2>a DEF Sent, Asked
  <2>8. Restrained(i, ActionChange(Requested("REPLACE", q)))
    <3>1. /\ ActionChange(Requested("REPLACE", q)).life = NoEvent
          /\ ActionChange(Requested("REPLACE", q)).action = Requested("REPLACE", q)
      BY DEF ActionChange, NoChange
    <3>2. ActionChange(Requested("REPLACE", q)) \in Change
      BY <2>5, ChangeTypes DEF ActionKinds
    <3>3. OwnHeld(i, ActionChange(Requested("REPLACE", q)).held)
      BY DEF ActionChange, NoChange, KeepHeld, NoHeld, OwnHeld, Early, Pretrigger
    <3> QED BY <2>3, <3>1, <3>2, <3>3 DEF Restrained, OwnLife, OwnAction
  <2> QED BY <2>1, <2>2, <2>7, <2>8, OnlyDoes
<1>3. ASSUME NEW i \in Orders, ReplaceHeld(i) PROVE Does
  <2>1. PICK q \in 1 .. MaxQty : AppendAndFold(Only(i, LifeChange(ReplaceEvent(q))))
    BY <1>3 DEF ReplaceHeld
  <2>2. Quietly /\ UNCHANGED net /\ orders[i].held.phase \in {"WAITING", "ARMED"}
    BY <1>3 DEF ReplaceHeld, Quietly
  <2>3. q \in Qtys /\ q > 0
    BY QtyAssumption DEF Qtys
  <2>4. ReplaceEvent(q) \in Life /\ ReplaceEvent(q).ev = "OrderReplaced" /\ ReplaceEvent(q).qty = q
    BY <2>3, LifeTypes DEF ReplaceEvent, LifeEvent
  <2>5. Restrained(i, LifeChange(ReplaceEvent(q)))
    <3>1. /\ LifeChange(ReplaceEvent(q)).life = ReplaceEvent(q)
          /\ LifeChange(ReplaceEvent(q)).action.kind = "KEEP"
      BY DEF LifeChange, NoChange, KeepAction, NoAction
    <3>2. OwnHeld(i, LifeChange(ReplaceEvent(q)).held)
      BY DEF LifeChange, NoChange, KeepHeld, NoHeld, OwnHeld, Early, Pretrigger
    <3> QED BY <2>2, <2>3, <2>4, <3>1, <3>2, ChangeTypes
            DEF Restrained, OwnLife, OwnAction, OwnEvents, Pretrigger
  <2> QED BY <2>1, <2>2, <2>5, SentCancels, OnlyDoes DEF Sent
<1>4. ASSUME NEW i \in Orders, ResumeHeld(i) PROVE Does
  <2> DEFINE h == [orders[i].held EXCEPT !.phase = "WAITING", !.cancelRequested = FALSE,
                                         !.after = now]
             c == IF now >= Deadline THEN LifeChange(LifeEvent("OrderExpired"))
                                     ELSE HeldChange(h)
  <2>1. AppendAndFold(Only(i, c)) /\ Quietly /\ UNCHANGED net /\ orders[i].held.phase = "PAUSED"
    BY <1>4 DEF ResumeHeld, Quietly
  <2>2. h \in Held
    <3>1. orders[i].held \in Held /\ now \in 0 .. MaxClock
      BY LInvFacts DEF CoreTypeOK, Order
    <3> QED BY <3>1 DEF Held, HeldPhases, Pretrigger
  <2> HIDE DEF h
  <2>a. OwnHeld(i, h)
    BY <2>1 DEF OwnHeld, Early, Pretrigger
  <2>3. Restrained(i, c)
    BY <2>1, <2>2, <2>a, RestrainedChanges DEF Pretrigger
  <2> HIDE DEF c
  <2> QED BY <2>1, <2>3, SentCancels, OnlyDoes DEF Sent
<1> QED
  BY <1>1, <1>2, <1>3, <1>4, SubmitDoes DEF OrderCommand

\* The commands about the account, the prints and the timers.
LEMMA AccountCommandDoes ==
  ASSUME LInv, "flatten" \notin Commands, AccountCommand \/ HeldStep
  PROVE  Does
<1> USE DEF venueVars, outside, brokerVars, adapterVars, Idle
<1>1. CASE Arm \/ AutoDisarm \/ EligiblePrint \/ Tick
  <2>1. Quietly /\ UNCHANGED <<net, orders, logged>>
    BY <1>1 DEF Arm, AutoDisarm, EligiblePrint, Tick, Quietly, bookVars
  <2> QED BY <2>1, IdleDoes, SentCancels DEF Sent
<1>2. CASE DisarmMaster
  <2> DEFINE chg == [i \in Orders |-> Disarm(orders[i], FALSE)]
  <2>1. Quietly /\ UNCHANGED net /\ AppendAndFold(chg)
    BY <1>2 DEF DisarmMaster, Quietly
  <2>2. \A i \in Orders : Restrained(i, chg[i])
    BY RestrainedChanges
  <2> HIDE DEF chg
  <2> QED BY <2>1, <2>2, SentCancels, AppendDoes DEF Sent
<1>3. CASE KillSwitch
  <2> DEFINE chg == [i \in Orders |-> Kill(orders[i])]
  <2>1. Quietly /\ AppendAndFold(chg) /\ "kill" \in Commands
    BY <1>3 DEF KillSwitch, Quietly
  <2>2. Sent
    BY <1>3, SentCancels DEF KillSwitch, Sent
  <2>3. \A i \in Orders : Restrained(i, chg[i])
    BY <2>1, RestrainedChanges
  <2> HIDE DEF chg
  <2> QED BY <2>1, <2>2, <2>3, AppendDoes
<1>4. CASE PrintGap
  <2> DEFINE chg == [i \in Orders |-> Pause(orders[i])]
  <2>1. Quietly /\ UNCHANGED net /\ AppendAndFold(chg)
    BY <1>4 DEF PrintGap, Quietly
  <2>2. \A i \in Orders : Restrained(i, chg[i])
    BY RestrainedChanges
  <2> HIDE DEF chg
  <2> QED BY <2>1, <2>2, SentCancels, AppendDoes DEF Sent
<1>5. CASE ExpireHeldOrders
  <2> DEFINE chg == [i \in Orders |-> Expire(orders[i])]
  <2>1. Quietly /\ AppendAndFold(chg) /\ HeldIds # {} /\ now >= Deadline
    BY <1>5 DEF ExpireHeldOrders, Quietly
  <2>2. Sent
    BY <1>5, SentCancels DEF ExpireHeldOrders, Sent
  <2>3. \A i \in Orders : Restrained(i, chg[i])
    BY <2>1, RestrainedChanges
  <2> HIDE DEF chg
  <2> QED BY <2>1, <2>2, <2>3, AppendDoes
<1>6. ~Flatten
  BY DEF Flatten
<1> QED
  BY <1>1, <1>2, <1>3, <1>4, <1>5, <1>6 DEF AccountCommand, HeldStep

\* A print held against one order.
LEMMA EvaluateDoes ==
  ASSUME LInv, NEW i \in Orders, EvaluateHeld(i)
  PROVE  Does
<1> DEFINE o == orders[i]
<1>0. /\ o \in Order /\ logged[i] \in Order /\ Custody(i) /\ posts \in [Orders -> Nat]
      /\ CoreTypeOK /\ o.held \in Held /\ o.leaves \in Qtys
  BY LInvFacts DEF Order
<1>1. Quietly
  BY DEF EvaluateHeld, Quietly, outside, brokerVars, adapterVars
<1> HIDE DEF o
<1>2. CASE /\ Live(o) /\ Activatable(i)
           /\ AppendAndFold(Only(i, Activation(o)))
           /\ Send({Request("CHILD", i, o.leaves)})
           /\ posts' = [posts EXCEPT ![i] = @ + 1]
  <2> DEFINE r == Request("CHILD", i, o.leaves)
             h == [o.held EXCEPT !.phase = "ACTIVATING", !.child = TRUE, !.cancelRequested = FALSE]
  <2>1. posts[i] = 0 /\ posts'[i] = 1
    <3>1. posts[i] = 0
      BY <1>0, <1>2 DEF Custody, Unlinked, Live, Pretrigger, EvaluateHeld, o, CoreTypeOK
    <3> QED BY <1>0, <1>2, <3>1
  <2>2. r.kind = "CHILD" /\ r.id = i /\ r.qty = o.leaves /\ r.live /\ net' = net \cup {r}
    BY <1>2 DEF Request, Send
  <2>3. r \in Requests
    BY <1>0 DEF Request, Requests, RequestKinds, SubmitKinds
  <2> HIDE DEF r
  <2>4. h \in Held
    BY <1>0 DEF Held, HeldPhases
  <2>5. Activation(o) = HeldChange(h)
    BY DEF Activation
  <2> HIDE DEF h
  <2>a. OwnHeld(i, h)
    BY <1>2 DEF OwnHeld, Live, Early, Pretrigger, o
  <2>6. Restrained(i, Activation(o))
    BY <2>4, <2>5, <2>a, RestrainedChanges
  <2>7. Working(orders'[i]) /\ orders'[i].leaves = o.leaves
    <3>1. orders'[i] = Apply(o, Activation(o))
      BY <1>2 DEF AppendAndFold, Only, o
    <3>2. Activation(o).life = NoEvent /\ o.status # "NONE"
      BY <1>2, <2>5 DEF HeldChange, NoChange, Live, Working, WorkingStatus
    <3>3. FoldLife(o, NoEvent) = o
      BY DEF FoldLife, NoEvent, LifeEvent
    <3>4. orders'[i].status = o.status /\ orders'[i].leaves = o.leaves
      BY <1>0, <3>1, <3>2, <3>3 DEF Apply, Order
    <3> QED BY <1>2, <3>4 DEF Working, Live
  <2>8. Asked(r)
    <3>1. (Guarded(i) => LeavesOk(i, o.leaves)) /\ orders[i].held.phase \in Pretrigger
      BY <1>2 DEF Activatable, o, Live, Pretrigger
    <3> QED BY <2>1, <2>2, <2>7, <3>1 DEF Asked, Submitted, SubmitKinds
  <2>9. Sent
    BY <2>2, <2>3, <2>8 DEF Sent
  <2> QED BY <1>1, <1>2, <2>6, <2>9, OnlyDoes
<1>3. CASE \E c : /\ AppendAndFold(Only(i, c)) /\ UNCHANGED net
                  /\ \/ c = NoChange
                     \/ /\ Live(o)
                        /\ c \in {HeldTo(o, "ARMED"), HeldTo(o, "PAUSED"),
                                  LifeChange(LifeEvent("OrderExpired")),
                                  LifeChange(LifeEvent("OrderRejected"))}
  <2>1. PICK c : /\ AppendAndFold(Only(i, c)) /\ UNCHANGED net
                 /\ \/ c = NoChange
                    \/ /\ Live(o)
                       /\ c \in {HeldTo(o, "ARMED"), HeldTo(o, "PAUSED"),
                                 LifeChange(LifeEvent("OrderExpired")),
                                 LifeChange(LifeEvent("OrderRejected"))}
    BY <1>3
  <2>2. Restrained(i, c)
    BY <2>1, RestrainedChanges DEF o, Live, Pretrigger, HeldPhases, Early
  <2> QED BY <1>1, <2>1, <2>2, SentCancels, OnlyDoes DEF Sent
<1>4. \/ /\ Live(o) /\ Activatable(i)
         /\ AppendAndFold(Only(i, Activation(o)))
         /\ Send({Request("CHILD", i, o.leaves)})
         /\ posts' = [posts EXCEPT ![i] = @ + 1]
      \/ \E c : /\ AppendAndFold(Only(i, c)) /\ UNCHANGED net
                /\ \/ c = NoChange
                   \/ /\ Live(o)
                      /\ c \in {HeldTo(o, "ARMED"), HeldTo(o, "PAUSED"),
                                LifeChange(LifeEvent("OrderExpired")),
                                LifeChange(LifeEvent("OrderRejected"))}
  <2> DEFINE post == Live(o) /\ now < Deadline /\ i \in lastPrint.hit
             x == CASE ~Live(o) -> NoChange
                    [] Live(o) /\ now >= Deadline -> LifeChange(LifeEvent("OrderExpired"))
                    [] Live(o) /\ now < Deadline /\ ~post -> HeldTo(o, "ARMED")
                    [] post -> ActivationStops(i)
  <2>1. \/ /\ post /\ Activatable(i)
           /\ AppendAndFold(Only(i, Activation(o)))
           /\ Send({Request("CHILD", i, o.leaves)})
           /\ posts' = [posts EXCEPT ![i] = @ + 1]
        \/ AppendAndFold(Only(i, x)) /\ UNCHANGED net
    BY DEF EvaluateHeld, o
  <2>2. \/ x = NoChange
        \/ /\ Live(o)
           /\ x \in {HeldTo(o, "ARMED"), HeldTo(o, "PAUSED"),
                     LifeChange(LifeEvent("OrderExpired")),
                     LifeChange(LifeEvent("OrderRejected"))}
    <3>1. \/ ActivationStops(i) = HeldTo(o, "PAUSED")
          \/ ActivationStops(i) = LifeChange(LifeEvent("OrderRejected"))
      BY DEF ActivationStops, o
    <3>2. Deadline \in Nat /\ now \in Nat
      BY <1>0, HeldTimeAssumption, ClockAssumption DEF CoreTypeOK
    <3>3. CASE ~Live(o)
      BY <3>3
    <3>4. CASE Live(o) /\ now >= Deadline
      BY <3>2, <3>4
    <3>5. CASE Live(o) /\ now < Deadline /\ ~post
      BY <3>2, <3>5
    <3>6. CASE post
      BY <3>1, <3>2, <3>6
    <3> QED BY <3>2, <3>3, <3>4, <3>5, <3>6
  <2> HIDE DEF x
  <2> QED BY <2>1, <2>2
<1> QED BY <1>2, <1>3, <1>4

\* What a step of the core may do that takes nothing off the inbox.
LEMMA OwnSteps ==
  ASSUME LInv, NoLateWord, "flatten" \notin Commands, OwnStep
  PROVE  Does
<1>1. ASSUME NEW x \in outcomes, OnOutcome(x) PROVE Does
  <2>1. AppendAndFold(Only(x.id, OnOutcomeChange(x))) /\ Quietly
    BY <1>1 DEF OnOutcome, Quietly, outside, brokerVars, adapterVars, Idle
  <2>2. Sent
    BY <1>1, SentCancels DEF OnOutcome, Sent
  <2>3. x.id \in Orders
    BY LInvFacts DEF VenueTypeOK, Outcomes
  <2> QED BY <2>1, <2>2, <2>3, RestrainedOutcome, OnlyDoes
<1> QED
  BY <1>1, OrderCommandDoes, AccountCommandDoes, EvaluateDoes DEF OwnStep

\* The steps there are.
LEMMA StepKinds ==
  ASSUME NoLateWord, Next
  PROVE  OwnStep \/ StreamEvent \/ Process \/ Outside
<1>1. ~OnSnapshot
  BY DEF OnSnapshot, NoLateWord
<1> QED BY <1>1 DEF Next, OwnStep, JobResult

-----------------------------------------------------------------------------
(* What the core learns from the head of its inbox *)

Learns(i, m) ==
  \E c \in Change :
    /\ OwnAction(i, c.action) /\ OwnHeld(i, c.held)
    /\ IF Lists(m) /\ Listed(m.rows[i])
       THEN /\ c.life = NoEvent
            /\ orders'[i] = Apply(Overlay(orders[i], m.rows[i]), c)
            /\ logged'[i] = Apply(logged[i], c)
       ELSE Took(i, c) /\ c.life = (IF m.ev = "Lives" THEN m.lives[i] ELSE NoEvent)
\* whether the core trusts its position after it took m
After(r, m) == IF Breaks(m) THEN FALSE ELSE IF Lists(m) THEN TRUE ELSE r

\* A submit that is confirmed changes nothing of a replace.
LEMMA ConfirmOwn ==
  ASSUME NEW i, NEW o \in Order, o.action = orders[i].action
  PROVE  /\ ConfirmSell(o).life = NoEvent /\ OwnAction(i, ConfirmSell(o).action)
         /\ OwnHeld(i, ConfirmSell(o).held)
<1>0. o.action \in Action
  BY DEF Order
<1>1. CASE Working(o) /\ Unresolved(o, "SUBMIT")
  <2> DEFINE a == [o.action EXCEPT !.phase = "CONFIRMED"]
  <2>1. a.kind = o.action.kind /\ a.qty = o.action.qty /\ a.kind # "REPLACE"
    BY <1>0, <1>1 DEF Action, Unresolved
  <2>2. ConfirmSell(o) = ActionChange(a)
    BY <1>1 DEF ConfirmSell
  <2>3. /\ ActionChange(a).action = a /\ ActionChange(a).life = NoEvent
        /\ ActionChange(a).held = KeepHeld
    BY DEF ActionChange, NoChange
  <2> QED BY ZenonT(40), <2>1, <2>2, <2>3 DEF OwnAction, OwnHeld, KeepHeld, NoHeld, Early, Pretrigger
<1>2. CASE ~(Working(o) /\ Unresolved(o, "SUBMIT"))
  BY <1>2 DEF ConfirmSell, NoChange, OwnAction, KeepAction, NoAction,
              OwnHeld, KeepHeld, NoHeld, Early, Pretrigger
<1> QED BY <1>1, <1>2

LEMMA EventSteps ==
  ASSUME LInv, StreamEvent
  PROVE  /\ wire # <<>> /\ Head(wire) \in Msgs /\ wire' = Tail(wire) /\ up
         /\ UNCHANGED <<venue, shares, closing, online, connected, tracked, seenQty>>
         /\ UNCHANGED <<up, flatJob, posts>>
         /\ OnlyCancels
         /\ ready' = After(ready, Head(wire))
         /\ \A i \in Orders : Learns(i, Head(wire))
<1> DEFINE m == Head(wire)
<1>0. /\ wire \in Seq(Msgs) /\ VenueTypeOK /\ CoreTypeOK
      /\ \A i \in Orders : orders[i] \in Order /\ logged[i] \in Order /\ Custody(i)
      /\ \A i \in Orders : posts[i] = 0 => Quiet(i)
  BY LInvFacts DEF VenueTypeOK
<1>1. /\ wire # <<>> /\ wire' = Tail(wire) /\ up
      /\ UNCHANGED <<venue, shares, closing, online, connected, tracked, seenQty>>
      /\ UNCHANGED <<up, flatJob, posts>>
  BY DEF StreamEvent, OnLives, OnPosition, OnPositions, OnOpenOrders, OnStreamBreak, Receive,
         Idle, outside, brokerVars, adapterVars
<1>2. m \in Msgs /\ m.lives \in [Orders -> Life] /\ m.rows \in [Orders -> Row]
  <2>1. m \in Msgs
    BY <1>0, <1>1, HeadTailProperties
  <2> QED BY <2>1 DEF Msgs
<1>3. ASSUME NEW chg, AppendAndFold(chg), NEW i \in Orders, chg[i] \in Change,
             ~Lists(m), OwnAction(i, chg[i].action), OwnHeld(i, chg[i].held),
             chg[i].life = IF m.ev = "Lives" THEN m.lives[i] ELSE NoEvent
      PROVE  Learns(i, m)
  <2>1. Took(i, chg[i])
    BY <1>3 DEF AppendAndFold, Took
  <2> HIDE DEF m
  <2> QED BY <1>3, <2>1 DEF Learns
<1> HIDE DEF m
<1>4. CASE OnLives
  <2> DEFINE chg == [i \in Orders |-> OnLife(orders[i], m.lives[i])]
  <2>1. m.ev = "Lives" /\ AppendAndFold(chg) /\ UNCHANGED ready
        /\ \E ids : Send(Cancels(ids))
    BY <1>4 DEF OnLives, Receive, FoldLives, m
  <2>2. ASSUME NEW i \in Orders
        PROVE  /\ chg[i] \in Change /\ chg[i].life = m.lives[i]
               /\ OwnAction(i, chg[i].action) /\ OwnHeld(i, chg[i].held)
    <3>1. chg[i] = OnLife(orders[i], m.lives[i]) /\ m.lives[i] \in Life
      BY <1>2
    <3>2. OnLife(orders[i], m.lives[i]).action \in {ConfirmSell(orders[i]).action, KeepAction}
      BY DEF OnLife
    <3>3. OwnAction(i, ConfirmSell(orders[i]).action) /\ OwnAction(i, KeepAction)
      BY <1>0, ConfirmOwn DEF OwnAction, KeepAction, NoAction
    <3>4. OnLife(orders[i], m.lives[i]).life = m.lives[i]
      BY DEF OnLife
    <3>5. OwnHeld(i, OnLife(orders[i], m.lives[i]).held)
      <4>1. orders[i].held \in Held
        BY <1>0 DEF Order
      <4>2. ChildAccepted(orders[i]).phase \in {"CANCEL_REQUESTED", "WORKING"}
        BY <4>1 DEF ChildAccepted, Held
      <4>3. OnLife(orders[i], m.lives[i]).held \in {ChildAccepted(orders[i]), KeepHeld}
        BY DEF OnLife
      <4> QED BY <4>2, <4>3 DEF OwnHeld, KeepHeld, NoHeld, Early, Pretrigger
    <3> QED BY <1>0, <3>1, <3>2, <3>3, <3>4, <3>5, HandlerTypes
  <2>3. ~Lists(m) /\ ~Breaks(m)
    BY <2>1 DEF Lists, Breaks
  <2> HIDE DEF chg
  <2>4. \A i \in Orders : Learns(i, m)
    BY <1>3, <2>1, <2>2, <2>3
  <2> QED BY <1>1, <1>2, <2>1, <2>3, <2>4, SentCancels DEF After, m
<1>5. ASSUME OnPosition \/ OnPositions
      PROVE  ready' = After(ready, m) /\ OnlyCancels /\ \A i \in Orders : Learns(i, m)
  <2>1. m.ev \in {"BrokerPosition", "BrokerPositions"} /\ UNCHANGED <<orders, logged, net, ready>>
    BY <1>5 DEF OnPosition, OnPositions, Receive, bookVars, m
  <2>2. ASSUME NEW i \in Orders PROVE Learns(i, m)
    <3>1. Took(i, NoChange) /\ NoChange \in Change
      BY <1>0, <2>1, ApplyNothing, EmptyTypes DEF Took
    <3>2. OwnAction(i, NoChange.action) /\ NoChange.life = NoEvent /\ OwnHeld(i, NoChange.held)
      BY DEF OwnAction, NoChange, KeepAction, NoAction, OwnHeld, KeepHeld, NoHeld, Early, Pretrigger
    <3> QED BY <2>1, <3>1, <3>2 DEF Learns, Lists
  <2> QED BY <2>1, <2>2, SentCancels DEF After, Breaks, Lists
<1>6. ASSUME OnOpenOrders
      PROVE  ready' = After(ready, m) /\ OnlyCancels /\ \A i \in Orders : Learns(i, m)
  <2>1. /\ m.ev = "BrokerOpenOrders" /\ UNCHANGED net /\ ready' = TRUE
        /\ Reconcile(m.rows, ConfirmListed(m.rows), TRUE)
    BY <1>6 DEF OnOpenOrders, Receive, m
  <2>2. ASSUME NEW i \in Orders PROVE Learns(i, m)
    <3> DEFINE o == Overlay(orders[i], m.rows[i])
               c == ConfirmListed(m.rows)[i]
    <3>1. o \in Order /\ o.action = orders[i].action
      <4>1. orders[i] \in Order /\ m.rows[i] \in Row
        BY <1>0, <1>2
      <4> QED BY <4>1, OverlayType, OverlayFacts
    <3>2. c = IF Listed(m.rows[i]) THEN ConfirmSell(o) ELSE NoChange
      BY DEF ConfirmListed
    <3>3. /\ ConfirmSell(o).life = NoEvent /\ OwnAction(i, ConfirmSell(o).action)
          /\ OwnHeld(i, ConfirmSell(o).held)
      BY <3>1, ConfirmOwn
    <3>4. OwnAction(i, NoChange.action) /\ NoChange.life = NoEvent /\ OwnHeld(i, NoChange.held)
      BY DEF OwnAction, NoChange, KeepAction, NoAction, OwnHeld, KeepHeld, NoHeld, Early, Pretrigger
    <3>5. c \in Change /\ c.life = NoEvent /\ OwnAction(i, c.action) /\ OwnHeld(i, c.held)
      BY <3>1, <3>2, <3>3, <3>4, HeldChangeTypes, EmptyTypes
    <3>6. Listed(m.rows[i]) => logged[i].status # "NONE"
      <4>1. SUFFICES ASSUME posts[i] = 0 PROVE ~Listed(m.rows[i])
        BY <1>0 DEF Custody
      <4>2. wire \in Seq(QuietMsgs(i))
        BY <1>0, <4>1 DEF Quiet
      <4>3. Head(wire) \in QuietMsgs(i)
        BY <1>1, <4>2, HeadTailProperties
      <4> QED BY <4>3 DEF QuietMsgs, m
    <3>7. orders'[i] = Apply(o, c)
      BY <2>1 DEF Reconcile
    <3>8. logged'[i] = Apply(logged[i], c)
      <4> DEFINE b == IF logged[i].status = "NONE" THEN Overlay(logged[i], m.rows[i]) ELSE logged[i]
      <4>1. logged'[i] = Apply(b, c)
        BY <2>1 DEF Reconcile
      <4>2. b = logged[i]
        BY <3>6 DEF Overlay
      <4> HIDE DEF b, c
      <4> QED BY <4>1, <4>2
    <3> HIDE DEF c
    <3>9. CASE Listed(m.rows[i])
      BY <2>1, <3>5, <3>7, <3>8, <3>9 DEF Learns, Lists
    <3>10. CASE ~Listed(m.rows[i])
      <4>1. o = orders[i]
        BY <3>10 DEF Overlay
      <4>2. Took(i, c)
        BY <3>7, <3>8, <4>1 DEF Took
      <4> QED BY <2>1, <3>5, <3>10, <4>2 DEF Learns
    <3> QED BY <3>9, <3>10
  <2> QED BY <2>1, <2>2, SentCancels DEF After, Breaks, Lists
<1>7. ASSUME NEW k \in {"StreamGap", "BrokerConnUp", "BrokerConnDown"}, OnStreamBreak(k)
      PROVE  ready' = After(ready, m) /\ OnlyCancels /\ \A i \in Orders : Learns(i, m)
  <2> DEFINE chg == [i \in Orders |-> Pause(orders[i])]
  <2>1. m.ev = k /\ UNCHANGED net /\ ready' = FALSE /\ AppendAndFold(chg)
    BY <1>7 DEF OnStreamBreak, Receive, m
  <2>2. ASSUME NEW i \in Orders
        PROVE  /\ chg[i] \in Change /\ chg[i].life = NoEvent /\ OwnAction(i, chg[i].action)
               /\ OwnHeld(i, chg[i].held)
    <3>1. chg[i] = Pause(orders[i])
      OBVIOUS
    <3>2. \E h : Pause(orders[i]) = HeldChange(h) \/ Pause(orders[i]) = NoChange
      BY DEF Pause, HeldTo
    <3>3. \A h : HeldChange(h).life = NoEvent /\ HeldChange(h).action.kind = "KEEP"
      BY DEF HeldChange, NoChange, KeepAction, NoAction
    <3>4. NoChange.life = NoEvent /\ NoChange.action.kind = "KEEP"
      BY DEF NoChange, KeepAction, NoAction
    <3>5. OwnHeld(i, Pause(orders[i]).held)
      BY DEF Pause, Live, OwnHeld, NoChange, KeepHeld, NoHeld, Early, Pretrigger
    <3> QED BY <1>0, <3>1, <3>2, <3>3, <3>4, <3>5, HeldChangeTypes DEF OwnAction
  <2>3. Breaks(m) /\ ~Lists(m) /\ m.ev # "Lives"
    BY <2>1 DEF Breaks, Lists
  <2> HIDE DEF chg
  <2>4. \A i \in Orders : Learns(i, m)
    BY <1>3, <2>1, <2>2, <2>3
  <2> QED BY <2>1, <2>3, <2>4, SentCancels DEF After
<1> QED
  BY <1>1, <1>2, <1>4, <1>5, <1>6, <1>7 DEF StreamEvent, m

-----------------------------------------------------------------------------
(* The life of the process *)

\* The inbox and the memory are gone; what was sent may still land.
Dies ==
  /\ up' = FALSE /\ wire' = <<>> /\ online' = FALSE /\ UNCHANGED <<venue, posts>>
  /\ \A s \in net' : \/ s.kind = "CANCEL"
                     \/ \E r \in net : s.kind = r.kind /\ s.id = r.id /\ s.qty = r.qty
  /\ \A i \in Orders : \/ orders'[i] = logged[i] /\ logged'[i] = logged[i]
                       \/ \E c \in Change : Took(i, c) /\ c.life = NoEvent
\* The log, overlaid with what the broker lists if it answers.
Restored(i, row) ==
  \E a \in Action, h \in Held :
    /\ orders'[i] = [Overlay(logged[i], row) EXCEPT !.action = a, !.held = h]
    /\ logged'[i] = [logged[i] EXCEPT !.action = a, !.held = h]
Restarts ==
  /\ ~up /\ up' /\ UNCHANGED <<venue, posts, wire, online>> /\ OnlyCancels
  /\ \E rows \in Readings \cup {NoRows} :
       OddIn(rows) \subseteq misread' /\ \A i \in Orders : Restored(i, rows[i])

LEMMA ProcessSteps ==
  ASSUME LInv, Process
  PROVE  Dies \/ Restarts
<1>0. /\ VenueTypeOK /\ CoreTypeOK /\ BookTypeOK
      /\ \A i \in Orders : orders[i] \in Order /\ logged[i] \in Order /\ Custody(i)
      /\ \A i \in Orders : posts[i] = 0 => Quiet(i)
  BY LInvFacts
<1>1. ASSUME NEW last, ProcessDies(last), \A r \in last : r.kind = "CANCEL"
      PROVE  \A s \in net' : \/ s.kind = "CANCEL"
                             \/ \E r \in net : s.kind = r.kind /\ s.id = r.id /\ s.qty = r.qty
  <2>1. PICK sent \in SUBSET (net \cup last) : net' = {Dead(r) : r \in sent}
    BY <1>1 DEF ProcessDies
  <2>2. \A r \in sent : r \in net => r \in Requests
    BY <1>0 DEF VenueTypeOK
  <2>3. ASSUME NEW r \in sent
        PROVE  \/ Dead(r).kind = "CANCEL"
               \/ \E q \in net : Dead(r).kind = q.kind /\ Dead(r).id = q.id /\ Dead(r).qty = q.qty
    <3>1. CASE r \in net
      BY <2>2, <3>1 DEF Dead, Requests
    <3>2. CASE r \in last
      BY <1>1, <3>2 DEF Dead
    <3> QED BY <3>1, <3>2
  <2> QED BY <2>1, <2>3
<1>2. CASE Crash
  <2>1. ProcessDies({}) /\ UNCHANGED <<venue, logged, posts>> /\ orders' = logged /\ up' = FALSE
    BY <1>2 DEF Crash, MemoryLost
  <2>2. wire' = <<>> /\ online' = FALSE
    BY <2>1 DEF ProcessDies
  <2> QED BY <1>1, <2>1, <2>2 DEF Dies
<1>3. CASE ShutdownEngine
  <2> DEFINE last == Cancels({i \in Orders : ShutdownCancels(orders[i])})
             chg == [i \in Orders |-> Shutdown(orders[i])]
  <2>1. AppendAndFold(chg) /\ ProcessDies(last) /\ UNCHANGED <<venue, posts>> /\ up' = FALSE
    BY <1>3 DEF ShutdownEngine, MemoryLost
  <2>2. \A r \in last : r.kind = "CANCEL"
    BY DEF Cancels, Request
  <2>3. wire' = <<>> /\ online' = FALSE
    BY <2>1 DEF ProcessDies
  <2>4. ASSUME NEW i \in Orders PROVE \E c \in Change : Took(i, c) /\ c.life = NoEvent
    <3>1. Took(i, Shutdown(orders[i]))
      BY <2>1 DEF AppendAndFold, Took
    <3>2. Shutdown(orders[i]).life = NoEvent
      <4>1. NoChange.life = NoEvent /\ \A h : HeldChange(h).life = NoEvent
        BY DEF NoChange, HeldChange
      <4>2. AskCancel(orders[i]).life = NoEvent
        BY <4>1 DEF AskCancel, NoChange
      <4>3. HeldTo(orders[i], "PAUSED").life = NoEvent
        BY <4>1 DEF HeldTo
      <4> QED BY <4>1, <4>2, <4>3 DEF Shutdown, NoChange
    <3>3. Shutdown(orders[i]) \in Change
      BY <1>0, HandlerTypes
    <3> QED BY <3>1, <3>2, <3>3
  <2> HIDE DEF last, chg
  <2>5. \A s \in net' : \/ s.kind = "CANCEL"
                        \/ \E r \in net : s.kind = r.kind /\ s.id = r.id /\ s.qty = r.qty
    BY <1>1, <2>1, <2>2
  <2> QED BY <2>1, <2>3, <2>4, <2>5 DEF Dies
<1>4. ASSUME NEW ok \in BOOLEAN, Recover(ok) PROVE Restarts
  <2>0. PICK rows \in (IF ok THEN Readings ELSE {NoRows}) :
           misread' = misread \cup OddIn(rows) /\ RecoverWith(rows)
    BY <1>4, RecoverReads
  <2> DEFINE m == [i \in Orders |-> Overlay(logged[i], rows[i])]
             found(i) == Listed(rows[i])
             act(i) == RecoveredAction(i, m[i], found(i))
             held(i) == RecoveredHeld(m[i], found(i))
             base(i) == IF logged[i].status = "NONE" THEN m[i] ELSE logged[i]
  <2>1. /\ orders' = [i \in Orders |-> [m[i] EXCEPT !.action = act(i), !.held = held(i)]]
        /\ logged' = [i \in Orders |-> [base(i) EXCEPT !.action = act(i), !.held = held(i)]]
        /\ \E ids : Send(Cancels(ids))
    BY <2>0 DEF RecoverWith
  <2>3. UNCHANGED <<venue, wire, online, posts>> /\ ~up /\ up'
    BY <1>4 DEF Recover, adapterVars
  <2>4. rows \in Readings \cup {NoRows} /\ OddIn(rows) \subseteq misread'
    BY <2>0
  <2>2. ASSUME NEW i \in Orders PROVE Restored(i, rows[i])
    <3>1. logged[i] \in Order /\ rows[i] \in Row /\ m[i] \in Order
      <4>1. logged[i] \in Order /\ rows[i] \in Row
        <5>1. rows \in [Orders -> Row]
          BY <1>0, <2>4, RowsType
        <5> QED BY <1>0, <5>1
      <4> QED BY <4>1, OverlayType
    <3>2. logged[i].status = "NONE" => ~Listed(rows[i])
      <4>1. SUFFICES ASSUME logged[i].status = "NONE" PROVE ~Listed(rows[i])
        OBVIOUS
      <4>2. venue[i] = NoVenueOrder
        BY <1>0, <4>1 DEF Custody, Quiet
      <4>3. ~OpenAt(i)
        BY <4>2 DEF NoVenueOrder, OpenAt
      <4>4. rows[i] = NoRow
        BY <2>4, <4>3, ReadingsTell DEF NoRows
      <4> QED BY <4>4 DEF NoRow, Listed
    <3>3. base(i) = logged[i]
      BY <3>2 DEF Overlay
    <3>4. act(i) \in Action /\ held(i) \in Held
      <4>1. found(i) \in BOOLEAN
        BY DEF Listed
      <4> HIDE DEF m, found
      <4> QED BY <1>0, <3>1, <4>1, RecoveredType
    <3>6. /\ orders'[i] = [Overlay(logged[i], rows[i]) EXCEPT !.action = act(i), !.held = held(i)]
          /\ logged'[i] = [logged[i] EXCEPT !.action = act(i), !.held = held(i)]
      BY <2>1, <3>3
    <3> HIDE DEF act, held, base, m, found
    <3> QED BY <3>4, <3>6 DEF Restored
  <2> HIDE DEF m, found, act, held, base
  <2>5. OnlyCancels
    BY <2>1, SentCancels
  <2> QED BY <2>2, <2>3, <2>4, <2>5 DEF Restarts
<1> QED
  BY <1>2, <1>3, <1>4 DEF Process
-----------------------------------------------------------------------------
(* What happens outside the core *)

\* One share of an open order executes.
Executed(v) ==
  [v EXCEPT !.exec = v.exec + 1, !.st = IF v.exec + 1 = v.qty THEN "filled" ELSE "open"]
Executes(j) ==
  /\ OpenAt(j) /\ venue[j].exec < venue[j].qty
  /\ venue' = [venue EXCEPT ![j] = Executed(venue[j])]
  /\ shares' = shares + SideSign(j)
  /\ wire' = IF online
             THEN Append(Append(wire, LifeMsg(j, FillEvent(venue[j].exec + 1,
                                                           venue[j].qty - (venue[j].exec + 1)))),
                         PositionMsg(shares'))
             ELSE wire
  /\ UNCHANGED <<closing, net, online>>
\* An open order ends, or gets the size a replace asks for.
Ends(j) ==
  /\ OpenAt(j)
  /\ \E s \in {"canceled", "expired"}, k \in {"OrderCanceled", "OrderExpired"} :
       /\ venue' = [venue EXCEPT ![j] = [@ EXCEPT !.st = s]]
       /\ wire' = IF online THEN Append(wire, LifeMsg(j, LifeEvent(k))) ELSE wire
  /\ net' \subseteq net /\ UNCHANGED <<shares, closing, online>>
Gets(j, r) ==
  /\ r \in net /\ r.kind = "REPLACE" /\ r.id = j
  /\ OpenAt(j) /\ r.qty > venue[j].exec
  /\ venue' = [venue EXCEPT ![j] = [@ EXCEPT !.qty = r.qty]]
  /\ wire' = IF online THEN Append(wire, LifeMsg(j, ReplaceEvent(r.qty))) ELSE wire
  /\ net' = net \ {r} /\ UNCHANGED <<shares, closing, online>>
\* A submit lands, or is refused while its process hears of it.
Lands(j, r) ==
  /\ r \in net /\ r.kind \in SubmitKinds /\ r.id = j /\ venue[j].st = "none"
  /\ venue' = [venue EXCEPT ![j] = Landed(r)]
  /\ wire' = IF online THEN Append(wire, LifeMsg(j, LifeEvent("OrderAccepted"))) ELSE wire
  /\ net' = net \ {r} /\ UNCHANGED <<shares, closing, online>>
Refuses(j, r) ==
  /\ r \in net /\ r.kind \in SubmitKinds /\ r.id = j
  /\ wire' = Append(wire, LifeMsg(j, LifeEvent("OrderRejected")))
  /\ net' = net \ {r} /\ UNCHANGED <<venue, shares, closing, online>>
\* Nothing is said.
Hushed == /\ UNCHANGED <<venue, shares, wire, online>> /\ net' \subseteq net
          /\ "flatten" \notin Commands /\ flatJob.st = "idle" => UNCHANGED closing
ClosesAll ==
  /\ closing /\ UNCHANGED <<venue, net, online>> /\ ~closing'
  /\ wire' = wire \/ wire' = Append(wire, PositionMsg(0))
\* The stream breaks, or comes back and reconciles.
Cuts ==
  /\ UNCHANGED <<venue, shares, closing, net>>
  /\ \/ ~online' /\ wire' = Append(wire, Msg("BrokerConnDown"))
     \/ ~online /\ online' /\ wire' = Append(wire, Msg("BrokerConnUp"))
Positions == [Msg("BrokerPositions") EXCEPT !.qty = shares]
OpenOrders(rows) == [Msg("BrokerOpenOrders") EXCEPT !.rows = rows]
Returned == Append(wire, Msg("BrokerConnUp"))
Recalled ==
  IF connected
  THEN Append(Append(Append(Returned, Msg("StreamGap")), LivesMsg(MissedFills)), LivesMsg(MissedEnds))
  ELSE Returned
Returns ==
  /\ ~online /\ online' /\ UNCHANGED <<venue, shares, closing, net>>
  /\ \E rows \in Readings :
       /\ misread' = misread \cup OddIn(rows)
       /\ wire' = Append(Append(Recalled, Positions), OpenOrders(rows))

LEMMA OutsideSteps ==
  ASSUME LInv, Outside
  PROVE  /\ UNCHANGED coreVars
         /\ \/ Hushed \/ ClosesAll \/ Cuts \/ Returns
            \/ \E j \in Orders : \/ Executes(j) \/ Ends(j)
                                 \/ \E r \in net : Gets(j, r) \/ Lands(j, r) \/ Refuses(j, r)
<1>0. VenueTypeOK /\ wire \in Seq(Msgs) /\ shares \in Int
  BY LInvFacts DEF VenueTypeOK
<1>1. UNCHANGED coreVars
  BY DEF Outside
<1>2. ASSUME NEW j \in Orders, Fill(j) PROVE Executes(j)
  <2> DEFINE v == [venue[j] EXCEPT
                     !.exec = @ + 1,
                     !.st = IF venue[j].exec + 1 = venue[j].qty THEN "filled" ELSE "open"]
             s == IF j \in Sells THEN shares - 1 ELSE shares + 1
             m == LifeMsg(j, FillEvent(v.exec, v.qty - v.exec))
             p == PositionMsg(s)
  <2>1. /\ OpenAt(j) /\ venue[j].exec < venue[j].qty /\ venue' = [venue EXCEPT ![j] = v]
        /\ shares' = s /\ Frame(j, v, <<m, p>>) /\ UNCHANGED <<closing, net, online>>
    BY <1>2 DEF Fill
  <2>2. v = Executed(venue[j])
    BY DEF Executed
  <2>3. venue[j] \in VenueOrder
    BY <1>0 DEF VenueTypeOK
  <2>4. v.exec = venue[j].exec + 1 /\ v.qty = venue[j].qty
        /\ venue[j].exec \in Nat /\ venue[j].qty \in Nat /\ venue[j].qty <= MaxQty
    BY <2>3, QtyAssumption DEF VenueOrder, Qtys
  <2>5. v.exec \in Qtys /\ v.qty - v.exec \in Qtys
    BY <2>1, <2>4, QtyAssumption DEF Qtys
  <2>6. s = shares + SideSign(j) /\ s \in Int
    BY <1>0 DEF SideSign
  <2>7. m \in Msgs /\ p \in Msgs
    BY <2>5, <2>6, LifeTypes, MsgTypes
  <2>8. m = LifeMsg(j, FillEvent(venue[j].exec + 1, venue[j].qty - (venue[j].exec + 1)))
    BY <2>4
  <2> HIDE DEF v, s, m
  <2>9. p = PositionMsg(shares')
    BY <2>1
  <2> HIDE DEF p
  <2>10. wire' = IF online THEN Append(Append(wire, m), p) ELSE wire
    <3>1. wire \o <<m, p>> = Append(Append(wire, m), p)
      BY <1>0, <2>7, PutTwo
    <3>2. wire' = IF online THEN wire \o <<m, p>> ELSE wire
      BY <2>1 DEF Frame
    <3> QED BY <3>1, <3>2
  <2>11. wire' = IF online
                 THEN Append(Append(wire, LifeMsg(j, FillEvent(venue[j].exec + 1,
                                                               venue[j].qty - (venue[j].exec + 1)))),
                             PositionMsg(shares'))
                 ELSE wire
    BY <2>8, <2>9, <2>10
  <2>12. venue' = [venue EXCEPT ![j] = Executed(venue[j])] /\ shares' = shares + SideSign(j)
    BY <2>1, <2>2, <2>6
  <2> QED BY <2>1, <2>11, <2>12 DEF Executes
<1>3. ASSUME NEW j \in Orders, VenueExpires(j) PROVE Ends(j)
  <2>1. LifeMsg(j, LifeEvent("OrderExpired")) \in Msgs
    BY LifeTypes, MsgTypes DEF LifeKinds
  <2>2. wire \o <<LifeMsg(j, LifeEvent("OrderExpired"))>> = Append(wire, LifeMsg(j, LifeEvent("OrderExpired")))
    BY <1>0, <2>1, PutOne
  <2> QED BY <1>3, <2>2 DEF VenueExpires, Ends, Frame
<1>4. CloseFills => ClosesAll
  BY DEF CloseFills, ClosesAll, adapterVars
<1>5. Drop => Cuts
  BY DEF Drop, Cuts
<1>6. Connect => Cuts \/ Returns
  <2>1. CASE ReconcileFails
    BY <2>1 DEF Connect, ReconcileFails, Cuts
  <2>2. ASSUME Connect, ReconcileSucceeds PROVE Returns
    <3>1. Msg("BrokerConnUp") \in Msgs
      BY MsgTypes DEF MsgKinds
    <3>2. Returned \in Seq(Msgs)
      BY <1>0, <3>1, AppendProperties DEF Returned
    <3>3. PICK rows \in Readings :
             misread' = misread \cup OddIn(rows) /\ wire' = Returned \o ReconcileMsgs(rows)
      BY <2>2 DEF ReconcileSucceeds, Returned, Read
    <3>4. wire' = Append(Append(Recalled, Positions), OpenOrders(rows))
      BY <1>0, <3>2, <3>3, ReconcilePuts DEF Recalled, Positions, OpenOrders
    <3> QED BY <2>2, <3>3, <3>4 DEF Connect, Returns
  <2> QED BY <2>1, <2>2 DEF Connect
<1>7. FlattenCloses \/ FlattenReads => Hushed
  BY DEF FlattenCloses, FlattenReads, Hushed, adapterVars
<1>8. ASSUME NEW r, SubmitLands(r) PROVE r \in net /\ Lands(r.id, r)
  BY <1>8 DEF SubmitLands, Lands, Finish, RestOfVenue
<1>9. ASSUME NEW r, SubmitFails(r) PROVE r \in net /\ (Hushed \/ Refuses(r.id, r))
  BY <1>9 DEF SubmitFails, Hushed, Refuses, Finish, RestOfVenue
<1>10. ASSUME NEW r, ActionFails(r) \/ SubmitReturns(r) PROVE Hushed
  BY <1>10 DEF ActionFails, SubmitReturns, Hushed, Finish, RestOfVenue, NoFrame
<1>11. ASSUME NEW r, ActionLands(r) PROVE r \in net /\ (Ends(r.id) \/ Gets(r.id, r))
  <2>0. r \in net
    BY <1>11 DEF ActionLands
  <2>1. r.id \in Orders /\ r.qty \in Qtys
    BY <1>0, <2>0 DEF VenueTypeOK, Requests
  <2>2. CASE r.kind = "CANCEL"
    <3> DEFINE m == LifeMsg(r.id, LifeEvent("OrderCanceled"))
    <3>1. m \in Msgs
      BY <2>1, LifeTypes, MsgTypes DEF LifeKinds
    <3>2. wire \o <<m>> = Append(wire, m)
      BY <1>0, <3>1, PutOne
    <3> QED BY <1>11, <2>2, <3>2 DEF ActionLands, Ends, Frame, Finish, RestOfVenue, CanDo
  <2>3. CASE r.kind = "REPLACE"
    <3> DEFINE m == LifeMsg(r.id, ReplaceEvent(r.qty))
    <3>1. m \in Msgs
      BY <2>1, LifeTypes, MsgTypes
    <3>2. wire \o <<m>> = Append(wire, m)
      BY <1>0, <3>1, PutOne
    <3> QED BY <1>11, <2>3, <3>2 DEF ActionLands, Gets, Frame, Finish, RestOfVenue, CanDo
  <2> QED BY <1>11, <2>0, <2>2, <2>3 DEF ActionLands
<1>12. \A r \in net : r.id \in Orders
  BY <1>0 DEF VenueTypeOK, Requests
<1> QED
  BY <1>1, <1>2, <1>3, <1>4, <1>5, <1>6, <1>7, <1>8, <1>9, <1>10, <1>11, <1>12
     DEF Outside, BrokerNext, Deliver

\* What befalls an order at the broker, and what such a step may put into the
\* inbox.
Befalls(j, e) ==
  \/ Executes(j) /\ e = FillEvent(venue[j].exec + 1, venue[j].qty - (venue[j].exec + 1))
  \/ Ends(j) /\ e.ev \in {"OrderCanceled", "OrderExpired"}
  \/ \E r \in net : \/ Gets(j, r) /\ e = ReplaceEvent(r.qty)
                    \/ Lands(j, r) /\ e = LifeEvent("OrderAccepted")
                    \/ Refuses(j, r) /\ e = LifeEvent("OrderRejected")
Uttered(m) ==
  /\ m \in Msgs
  /\ \/ \E k \in {"StreamGap", "BrokerConnUp", "BrokerConnDown"} : m = Msg(k)
     \/ \E q \in Int : m = PositionMsg(q)
     \/ m \in {Positions, LivesMsg(MissedFills), LivesMsg(MissedEnds)}
     \/ \E rows \in Readings : OddIn(rows) \subseteq misread' /\ m = OpenOrders(rows)
     \/ \E j \in Orders, e \in Life : m = LifeMsg(j, e) /\ Befalls(j, e)

\* What the inbox is, as long as each message put at its end keeps it so.
LEMMA OutsideGrows ==
  ASSUME LInv, Outside, NEW W, wire \in W, \A m, w : Uttered(m) /\ w \in W => Append(w, m) \in W
  PROVE  wire' \in W
<1>0. VenueTypeOK /\ wire \in Seq(Msgs) /\ shares \in Int
  BY LInvFacts DEF VenueTypeOK
<1>1. \A m, w : Uttered(m) /\ w \in W => Append(w, m) \in W
  OBVIOUS
<1>2. ASSUME NEW k \in {"StreamGap", "BrokerConnUp", "BrokerConnDown"} PROVE Uttered(Msg(k))
  <2>1. Msg(k) \in Msgs
    BY MsgTypes DEF MsgKinds
  <2> QED BY <2>1 DEF Uttered
<1>3. \A q \in Int : Uttered(PositionMsg(q))
  BY MsgTypes DEF Uttered
<1>4. ASSUME NEW j \in Orders, NEW e \in Life, Uttered(LifeMsg(j, e))
      PROVE  Append(wire, LifeMsg(j, e)) \in W
  BY <1>1, <1>4
<1>5. CASE Hushed \/ ClosesAll \/ Cuts
  <2>1. Append(wire, PositionMsg(0)) \in W
    BY <1>1, <1>3
  <2>2. Append(wire, Msg("BrokerConnDown")) \in W /\ Append(wire, Msg("BrokerConnUp")) \in W
    BY <1>1, <1>2
  <2> QED BY <1>5, <2>1, <2>2 DEF Hushed, ClosesAll, Cuts
<1>6. CASE Returns
  <2>1. MissedFills \in [Orders -> Life] /\ MissedEnds \in [Orders -> Life]
    BY <1>0, MissedTypes
  <2>2. Uttered(LivesMsg(MissedFills)) /\ Uttered(LivesMsg(MissedEnds))
    BY <2>1, MsgTypes DEF Uttered
  <2>7. PICK rows \in Readings :
           /\ misread' = misread \cup OddIn(rows)
           /\ wire' = Append(Append(Recalled, Positions), OpenOrders(rows))
    BY <1>6 DEF Returns
  <2>8. Positions \in Msgs /\ OpenOrders(rows) \in Msgs
    <3>1. wire \in Seq(Msgs)
      BY <1>0
    <3> QED BY <1>0, <3>1, ReconcilePuts DEF Positions, OpenOrders
  <2>3. Uttered(Positions) /\ Uttered(OpenOrders(rows))
    BY <2>7, <2>8 DEF Uttered
  <2>4. Returned \in W
    BY <1>1, <1>2 DEF Returned
  <2>5. Recalled \in W
    <3>1. Append(Returned, Msg("StreamGap")) \in W
      BY <1>1, <1>2, <2>4
    <3>2. Append(Append(Returned, Msg("StreamGap")), LivesMsg(MissedFills)) \in W
      BY <1>1, <2>2, <3>1
    <3>3. Append(Append(Append(Returned, Msg("StreamGap")), LivesMsg(MissedFills)), LivesMsg(MissedEnds)) \in W
      BY <1>1, <2>2, <3>2
    <3> QED BY <2>4, <3>3 DEF Recalled
  <2>6. Append(Recalled, Positions) \in W
    BY <1>1, <2>3, <2>5
  <2> QED BY <1>1, <2>3, <2>6, <2>7
<1>7. ASSUME NEW j \in Orders, Executes(j) PROVE wire' \in W
  <2> DEFINE e == FillEvent(venue[j].exec + 1, venue[j].qty - (venue[j].exec + 1))
  <2>1. venue[j].exec \in Nat /\ venue[j].qty \in Nat /\ venue[j].qty <= MaxQty
        /\ venue[j].exec < venue[j].qty
    BY <1>0, <1>7, QtyAssumption DEF VenueTypeOK, VenueOrder, Qtys, Executes
  <2>2. venue[j].exec + 1 \in Qtys /\ venue[j].qty - (venue[j].exec + 1) \in Qtys
    BY <2>1, QtyAssumption DEF Qtys
  <2>3. e \in Life
    BY <2>2, LifeTypes
  <2>4. Uttered(LifeMsg(j, e))
    BY <1>7, <2>3, MsgTypes DEF Uttered, Befalls
  <2>5. shares' \in Int
    BY <1>0, <1>7 DEF Executes, SideSign
  <2>6. Uttered(PositionMsg(shares'))
    BY <1>3, <2>5
  <2> HIDE DEF e
  <2>7. wire' = wire \/ wire' = Append(Append(wire, LifeMsg(j, e)), PositionMsg(shares'))
    BY <1>7 DEF Executes, e
  <2>8. Append(wire, LifeMsg(j, e)) \in W
    BY <1>1, <2>4
  <2> QED BY <1>1, <2>6, <2>7, <2>8
<1>8. ASSUME NEW j \in Orders, Ends(j) PROVE wire' \in W
  <2>1. \A k \in {"OrderCanceled", "OrderExpired"} :
          LifeEvent(k) \in Life /\ LifeEvent(k).ev = k
    BY LifeTypes DEF LifeKinds, LifeEvent
  <2>2. \A k \in {"OrderCanceled", "OrderExpired"} : Uttered(LifeMsg(j, LifeEvent(k)))
    BY <1>8, <2>1, MsgTypes DEF Uttered, Befalls
  <2> QED BY <1>1, <1>8, <2>2 DEF Ends
<1>9. ASSUME NEW j \in Orders, NEW r \in net, Gets(j, r) \/ Lands(j, r) \/ Refuses(j, r)
      PROVE  wire' \in W
  <2>1. r.qty \in Qtys
    BY <1>0 DEF VenueTypeOK, Requests
  <2>2. /\ ReplaceEvent(r.qty) \in Life
        /\ LifeEvent("OrderAccepted") \in Life /\ LifeEvent("OrderRejected") \in Life
    BY <2>1, LifeTypes DEF LifeKinds
  <2>3. /\ Gets(j, r) => Uttered(LifeMsg(j, ReplaceEvent(r.qty)))
        /\ Lands(j, r) => Uttered(LifeMsg(j, LifeEvent("OrderAccepted")))
        /\ Refuses(j, r) => Uttered(LifeMsg(j, LifeEvent("OrderRejected")))
    BY <2>2, MsgTypes DEF Uttered, Befalls
  <2>4. ASSUME NEW e, Uttered(LifeMsg(j, e)) PROVE Append(wire, LifeMsg(j, e)) \in W
    BY <1>1, <2>4
  <2>5. wire' = wire \/ \E e : Uttered(LifeMsg(j, e)) /\ wire' = Append(wire, LifeMsg(j, e))
    BY <1>9, <2>3 DEF Gets, Lands, Refuses
  <2> QED BY <2>4, <2>5
<1> QED
  BY <1>5, <1>6, <1>7, <1>8, <1>9, OutsideSteps

\* A property every message of the inbox keeps to.
LEMMA OutsidePuts ==
  ASSUME LInv, Outside, NEW S, wire \in Seq(S), \A m : Uttered(m) => m \in S
  PROVE  wire' \in Seq(S)
<1>1. ASSUME NEW m, NEW w, Uttered(m), w \in Seq(S) PROVE Append(w, m) \in Seq(S)
  <2>1. m \in S
    BY <1>1
  <2> QED BY <1>1, <2>1, AppendProperties
<1> QED BY <1>1, OutsideGrows

LEMMA EventParts ==
  /\ \A k : LifeEvent(k).ev = k
  /\ NoEvent.ev = "NoEvent"
  /\ \A c, l : /\ FillEvent(c, l).ev = "OrderFilled"
               /\ FillEvent(c, l).cum = c /\ FillEvent(c, l).leaves = l
  /\ \A q : ReplaceEvent(q).ev = "OrderReplaced" /\ ReplaceEvent(q).qty = q
BY DEF LifeEvent, NoEvent, FillEvent, ReplaceEvent

\* What such a message says of one order.
LEMMA UtteredParts ==
  ASSUME VenueTypeOK, NEW i \in Orders, NEW m, Uttered(m)
  PROVE  \/ m.lives[i] = NoEvent /\ m.rows[i] = NoRow
         \/ /\ m.ev = "BrokerOpenOrders" /\ m.lives[i] = NoEvent
            /\ ~OpenAt(i) => m.rows[i] = NoRow
            /\ OpenAt(i) => m.rows[i].qty = venue[i].qty /\ m.rows[i].exec = venue[i].exec
            /\ i \notin misread' => PlainRow(m.rows[i])
         \/ /\ m.ev = "Lives" /\ m.rows[i] = NoRow
            /\ \/ m.lives[i] \in {MissedFills[i], MissedEnds[i]}
               \/ m.lives[i] \in Life /\ Befalls(i, m.lives[i])
<1>0. NoLives[i] = NoEvent /\ NoRows[i] = NoRow
  BY DEF NoLives, NoRows
<1>1. \A k : Msg(k).lives[i] = NoEvent /\ Msg(k).rows[i] = NoRow
  BY <1>0 DEF Msg
<1>2. \A q : PositionMsg(q).lives[i] = NoEvent /\ PositionMsg(q).rows[i] = NoRow
  BY <1>0 DEF PositionMsg, Msg
<1>3. \A ls : LivesMsg(ls).lives[i] = ls[i] /\ LivesMsg(ls).rows[i] = NoRow /\ LivesMsg(ls).ev = "Lives"
  BY <1>0 DEF LivesMsg, Msg
<1>4. Positions.lives[i] = NoEvent /\ Positions.rows[i] = NoRow
  BY <1>0 DEF Positions, Msg
<1>5. ASSUME NEW rows \in Readings, OddIn(rows) \subseteq misread', m = OpenOrders(rows)
      PROVE  /\ m.ev = "BrokerOpenOrders" /\ m.lives[i] = NoEvent
             /\ ~OpenAt(i) => m.rows[i] = NoRow
             /\ OpenAt(i) => m.rows[i].qty = venue[i].qty /\ m.rows[i].exec = venue[i].exec
             /\ i \notin misread' => PlainRow(m.rows[i])
  <2>1. m.ev = "BrokerOpenOrders" /\ m.lives[i] = NoEvent /\ m.rows = rows
    BY <1>0, <1>5 DEF OpenOrders, Msg
  <2>2. i \notin misread' => rows[i].as = "open"
    BY <1>5 DEF OddIn
  <2> QED BY <2>1, <2>2, ReadingsTell DEF PlainRow
<1>6. ASSUME NEW j \in Orders, NEW e \in Life, m = LifeMsg(j, e), Befalls(j, e)
      PROVE  /\ m.ev = "Lives" /\ m.rows[i] = NoRow
             /\ m.lives[i] = NoEvent \/ (m.lives[i] \in Life /\ Befalls(i, m.lives[i]))
  <2>1. [NoLives EXCEPT ![j] = e][i] = IF i = j THEN e ELSE NoEvent
    BY <1>0 DEF NoLives
  <2>2. m.lives[i] = IF i = j THEN e ELSE NoEvent
    BY <1>3, <1>6, <2>1 DEF LifeMsg
  <2>3. m.ev = "Lives" /\ m.rows[i] = NoRow
    BY <1>3, <1>6 DEF LifeMsg
  <2>4. CASE i = j
    BY <1>6, <2>2, <2>3, <2>4
  <2> QED BY <2>2, <2>3, <2>4
<1> QED
  BY <1>1, <1>2, <1>3, <1>4, <1>5, <1>6 DEF Uttered

-----------------------------------------------------------------------------
(* An order at the broker stands in the books *)

\* Of a firm order that is at the broker, or may come to be, nothing says that
\* it was refused or replaced by another; the broker lists only what it ever had.
Refusal == {"REJECTED", "BLOCKED", "REPLACED"}
Unrefused(i) == {m \in Msgs : m.lives[i].ev # "OrderRejected"}
Unlisted(i) == {m \in Msgs : ~Listed(m.rows[i])}
Accepted(i) == orders[i].status \notin Refusal /\ logged[i].status \notin Refusal
Stands(i) == /\ wire \in Seq(PlainMsgs(i))
             /\ AtVenue(i) => Accepted(i) /\ wire \in Seq(Unrefused(i))
             /\ venue[i].st = "none" => wire \in Seq(Unlisted(i))
\* The live order and the replayed one agree on the action and on whether the
\* order works.
Alike(i) == /\ orders[i].action = logged[i].action
            /\ Working(orders[i]) <=> Working(logged[i])
\* Firm orders no list has shown under an odd status, and those of them whose
\* note the adapter has not wound back.
Legible == Firm \ misread
Known == Firm \ (misread \cup rewound)
\* A submit returns after it landed; what was over then stays over; what a list
\* has shown had landed.
Past == /\ \A r \in landed : r.id \in Orders => venue[r.id].st # "none"
        /\ \A i \in Orders : i \in rewound => venue[i].st \notin {"none", "open"}
        /\ \A i \in Orders : i \in misread => venue[i].st # "none"
SInv == TInv /\ Rest /\ Past /\ \A i \in Legible : Stands(i) /\ (i \in Known => Alike(i))

\* Every firm order is one of the orders, and has its conjuncts.
LEMMA KnownOrders ==
  ASSUME NEW i \in Known
  PROVE  i \in Legible /\ i \in Orders /\ i \in Firm /\ i \notin misread /\ i \notin rewound
BY IdsAssumption DEF Known, Legible, Firm
LEMMA LegibleOrders ==
  ASSUME NEW i \in Legible
  PROVE  /\ i \in Orders /\ i \in Firm /\ i \notin misread
         /\ i \notin rewound => i \in Known
BY IdsAssumption DEF Known, Legible, Firm
LEMMA LegibleBefore ==
  ASSUME [Next]_vars, NEW i \in Legible'
  PROVE  i \in Legible /\ i \notin misread'
BY MisreadGrows DEF Legible, Firm
LEMMA KnownBefore ==
  ASSUME [Next]_vars, NEW i \in Known'
  PROVE  i \in Known /\ i \notin misread' /\ i \notin rewound'
BY MisreadGrows DEF Known, Firm

\* What one fold does to both.
LEMMA ApplyAgrees ==
  ASSUME NEW o \in Order, NEW l \in Order, NEW c, c.life \in Life,
         o.status = "NONE" <=> l.status = "NONE",
         o.action = l.action, Working(o) <=> Working(l)
  PROVE  /\ Apply(o, c).action = Apply(l, c).action
         /\ Working(Apply(o, c)) <=> Working(Apply(l, c))
<1> DEFINE e == c.life
<1>1. CASE o.status = "NONE"
  BY <1>1 DEF Apply
<1>2. CASE o.status # "NONE"
  <2>1. FoldLife(o, e) \in Order /\ FoldLife(l, e) \in Order
    BY FoldLifeType
  <2>2. /\ Apply(o, c).action = SetAction(FoldLife(o, e).action, c.action)
        /\ Apply(l, c).action = SetAction(FoldLife(l, e).action, c.action)
        /\ Apply(o, c).status = FoldLife(o, e).status /\ Apply(l, c).status = FoldLife(l, e).status
    BY <1>2, <2>1 DEF Apply, Order
  <2>3. /\ FoldLife(o, e).action = FoldLife(l, e).action
        /\ Working(FoldLife(o, e)) <=> Working(FoldLife(l, e))
    <3>1. CASE e.ev = "NoEvent"
      BY <3>1 DEF FoldLife
    <3>2. CASE e.ev = "OrderAccepted"
      BY <3>2 DEF FoldLife, FoldAccepted, Order, Working
    <3>3. CASE e.ev = "OrderRejected"
      BY <3>3 DEF FoldLife, FoldRejected, Order, Working
    <3>4. CASE e.ev = "OrderFilled"
      BY <3>4 DEF FoldLife, FoldFilled, Order, Working
    <3>5. CASE e.ev = "OrderCanceled"
      BY <3>5 DEF FoldLife, FoldCanceled, Order, Working, Ended, WorkingStatus
    <3>6. CASE e.ev = "OrderExpired"
      BY <3>6 DEF FoldLife, FoldExpired, Order, Working, Ended, WorkingStatus
    <3>7. CASE e.ev = "OrderReplaced"
      BY <3>7 DEF FoldLife, FoldReplaced, Order, Working, WorkingStatus
    <3> QED BY <3>1, <3>2, <3>3, <3>4, <3>5, <3>6, <3>7 DEF Life, LifeKinds
  <2> QED BY <2>2, <2>3 DEF Working
<1> QED
  BY <1>1, <1>2

\* Only a rejection refuses an order.
LEMMA ApplyAccepts ==
  ASSUME NEW o \in Order, NEW c, c.life \in Life, c.life.ev # "OrderRejected",
         o.status \notin Refusal
  PROVE  Apply(o, c).status \notin Refusal
<1>1. FoldLife(o, c.life) \in Order
  BY FoldLifeType
<1>2. Apply(o, c).status \in {o.status, FoldLife(o, c.life).status}
  BY <1>1 DEF Apply, Order
<1>3. FoldLife(o, c.life).status \in {o.status, "ACCEPTED", "FILLED", "PARTIALLY_FILLED", "CANCELED", "EXPIRED"}
  <2> USE DEF FoldLife, Order
  <2>1. CASE c.life.ev = "NoEvent"
    BY <2>1
  <2>2. CASE c.life.ev = "OrderAccepted"
    BY <2>2 DEF FoldAccepted
  <2>3. CASE c.life.ev = "OrderFilled"
    BY <2>3 DEF FoldFilled
  <2>4. CASE c.life.ev = "OrderCanceled"
    BY <2>4 DEF FoldCanceled, Ended
  <2>5. CASE c.life.ev = "OrderExpired"
    BY <2>5 DEF FoldExpired, Ended
  <2>6. CASE c.life.ev = "OrderReplaced"
    BY <2>6 DEF FoldReplaced
  <2> QED BY <2>1, <2>2, <2>3, <2>4, <2>5, <2>6 DEF Life, LifeKinds
<1> QED
  BY <1>2, <1>3 DEF Refusal

\* One change folded into both.
LEMMA TookStands ==
  ASSUME LInv, NEW i \in Orders, NEW c \in Change, Took(i, c)
  PROVE  /\ Alike(i) => Alike(i)'
         /\ c.life.ev # "OrderRejected" /\ Accepted(i) => Accepted(i)'
<1>1. /\ orders[i] \in Order /\ logged[i] \in Order
      /\ orders[i].status = "NONE" <=> logged[i].status = "NONE"
  BY LInvFacts DEF Custody
<1>2. c.life \in Life
  BY DEF Change
<1>3. Alike(i) => Alike(i)'
  BY <1>1, <1>2, ApplyAgrees DEF Took, Alike
<1>4. c.life.ev # "OrderRejected" /\ Accepted(i) => Accepted(i)'
  BY <1>1, <1>2, ApplyAccepts DEF Took, Accepted
<1> QED
  BY <1>3, <1>4

\* An order whose books, and the broker's, are left alone.
LEMMA AtVenueIsSent ==
  ASSUME LInv, NEW i \in Orders, AtVenue(i)
  PROVE  /\ posts[i] # 0 /\ orders[i].held.phase \notin Pretrigger
         /\ orders[i].status # "NONE" /\ logged[i].status # "NONE"
<1>1. posts[i] # 0
  BY LInvFacts DEF AtVenue, Quiet, NoVenueOrder
<1> QED
  BY <1>1, SentNoLongerWaits, LInvFacts DEF Custody
LEMMA VenueStays ==
  ASSUME UNCHANGED venue, OnlyCancels, NEW i \in Orders, AtVenue(i)'
  PROVE  AtVenue(i)
BY DEF OnlyCancels, AtVenue, SubmitInFlight, SubmitKinds

LEMMA OwnStands ==
  ASSUME SInv, Does, NEW i \in Legible
  PROVE  Stands(i)' /\ (i \in Known => Alike(i)')
<1>k. i \in Orders /\ i \in Firm /\ (i \notin rewound => i \in Known)
  BY LegibleOrders
<1>0. LInv /\ Past /\ Stands(i) /\ (i \in Known => Alike(i)) /\ UNCHANGED <<venue, wire>>
  BY DEF SInv, TInv, Does, Quietly
<1>1. ASSUME Enters(i) PROVE posts[i] = 0 /\ Alike(i)' /\ orders'[i] = logged'[i]
  BY <1>1 DEF Enters, Alike
<1>2. ASSUME NEW c \in Change, Took(i, c), Restrained(i, c)
      PROVE  /\ i \in Known => Alike(i)'
             /\ AtVenue(i) => Accepted(i)'
  <2>1. orders[i].held.phase \notin Pretrigger => c.life.ev # "OrderRejected"
    BY <1>k, <1>0, <1>2 DEF Restrained, OwnLife, NoEvent, LifeEvent
  <2> QED BY <1>0, <1>k, <1>2, <2>1, TookStands, AtVenueIsSent DEF Stands
<1>3. i \in Known => Alike(i)'
  BY <1>k, <1>1, <1>2 DEF Does
<1>4. ASSUME AtVenue(i) PROVE Accepted(i)' /\ wire' \in Seq(Unrefused(i))
  <2>1. ~Enters(i)
    BY <1>0, <1>k, <1>4, AtVenueIsSent DEF Enters
  <2> QED BY <1>0, <1>k, <1>2, <1>4, <2>1 DEF Does, Stands
<1>5. ASSUME ~AtVenue(i), AtVenue(i)' PROVE Accepted(i)' /\ wire' \in Seq(Unrefused(i))
  <2>1. PICK r \in net' : r.kind \in SubmitKinds /\ r.id = i /\ r \notin net
    BY <1>0, <1>5 DEF AtVenue, SubmitInFlight
  <2>2. Submitted(r)
    <3>1. ~OnlyCancels
      BY <2>1 DEF OnlyCancels, SubmitKinds
    <3>2. PICK q \in Requests : net' = net \cup {q} /\ Asked(q)
      BY <3>1 DEF Does, Sent
    <3>3. q = r
      BY <2>1, <3>2
    <3> QED BY <2>1, <3>2, <3>3 DEF Asked, SubmitKinds
  <2>3. posts[i] = 0 /\ Working(orders'[i])
    BY <2>1, <2>2 DEF Submitted
  <2>4. Working(logged'[i])
    <3>1. i \in Known
      BY <1>0, <1>k, <1>5 DEF Past, AtVenue
    <3> QED BY <1>3, <2>3, <3>1 DEF Alike
  <2>5. wire \in Seq(QuietMsgs(i))
    BY <1>0, <1>k, <2>3, LInvFacts DEF Quiet
  <2>6. QuietMsgs(i) \subseteq Unrefused(i)
    BY DEF QuietMsgs, Unrefused, NoEvent, LifeEvent
  <2>7. wire \in Seq(Unrefused(i))
    BY <2>5, <2>6, SeqRises
  <2> QED BY <1>0, <2>3, <2>4, <2>7 DEF Accepted, Refusal, Working, WorkingStatus
<1> QED
  BY <1>0, <1>3, <1>4, <1>5 DEF Stands

\* What the broker lists of a firm order works in the book and in the log.
LEMMA StandsWorks ==
  ASSUME LInv, NEW i \in Orders, Accepted(i), Undone(i), posts[i] # 0
  PROVE  Working(orders[i]) /\ Working(logged[i])
<1>1. orders[i] \in Order /\ logged[i] \in Order /\ orders[i].status # "NONE" /\ logged[i].status # "NONE"
  BY LInvFacts, SentNoLongerWaits DEF Custody
<1> QED
  BY <1>1 DEF Accepted, Refusal, Undone, Done, Working, WorkingStatus, Order, Status

LEMMA EventStands ==
  ASSUME SInv, StreamEvent, NEW i \in Legible
  PROVE  Stands(i)' /\ (i \in Known => Alike(i)')
<1>k. i \in Orders /\ (i \in Known => i \notin misread \cup rewound)
  BY LegibleOrders, KnownOrders
<1>0. LInv /\ Stands(i) /\ (i \in Known => Alike(i) /\ Laid(i))
  BY <1>k DEF SInv, TInv, Rest
<1>1. /\ wire # <<>> /\ Head(wire) \in Msgs /\ wire' = Tail(wire) /\ UNCHANGED venue /\ OnlyCancels
      /\ Learns(i, Head(wire))
  BY <1>0, <1>k, EventSteps
<1>2. AtVenue(i)' => AtVenue(i)
  BY <1>k, <1>1, VenueStays
<1>3. \A S : wire \in Seq(S) => Head(wire) \in S /\ wire' \in Seq(S)
  BY <1>1, HeadTailProperties
<1> DEFINE m == Head(wire)
<1>4. PICK c \in Change :
        IF Lists(m) /\ Listed(m.rows[i])
        THEN /\ c.life = NoEvent
             /\ orders'[i] = Apply(Overlay(orders[i], m.rows[i]), c)
             /\ logged'[i] = Apply(logged[i], c)
        ELSE Took(i, c) /\ c.life = (IF m.ev = "Lives" THEN m.lives[i] ELSE NoEvent)
  BY <1>1 DEF Learns
<1> HIDE DEF m
<1>5. CASE Lists(m) /\ Listed(m.rows[i])
  <2>1. venue[i].st # "none"
    BY <1>0, <1>3, <1>5 DEF Stands, Unlisted, m
  <2>2. Accepted(i) /\ posts[i] # 0
    BY <1>0, <1>k, <2>1, AtVenueIsSent DEF Stands, AtVenue
  <2>3. i \in Known => Undone(i)
    BY <1>0, <1>3, <1>5 DEF Laid, Inert, Revives, m
  <2>4. i \in Known => Working(orders[i]) /\ Working(logged[i])
    BY <1>0, <1>k, <2>2, <2>3, StandsWorks
  <2>5. orders[i] \in Order /\ logged[i] \in Order /\ m \in Msgs
    BY <1>0, <1>k, <1>1, LInvFacts DEF m
  <2> DEFINE o == Overlay(orders[i], m.rows[i])
  <2>6. /\ o \in Order /\ o.action = orders[i].action /\ Working(o)
    <3>1. m.rows[i] \in Row
      BY <1>k, <2>5 DEF Msgs
    <3>2. PlainRow(m.rows[i])
      BY <1>0, <1>3 DEF Stands, PlainMsgs, m
    <3>3. ListedAs(m.rows[i]) \in WorkingStatus
      BY <1>5, <3>1, <3>2, RowStatus DEF PlainRow
    <3>4. o \in Order /\ o.action = orders[i].action /\ o.status = ListedAs(m.rows[i])
      BY <1>5, <2>5, <3>1, OverlayType, OverlayFacts
    <3> QED BY <3>3, <3>4 DEF Working
  <2> HIDE DEF o
  <2>7. orders'[i] = Apply(o, c) /\ logged'[i] = Apply(logged[i], c) /\ c.life = NoEvent
    BY <1>4, <1>5 DEF o
  <2>8. NoEvent \in Life /\ NoEvent.ev # "OrderRejected"
    BY LifeTypes DEF NoEvent, LifeEvent
  <2>9. /\ o.status # "NONE" /\ o.status \notin Refusal /\ logged[i].status \notin Refusal
        /\ logged[i].status # "NONE"
    <3>1. AtVenue(i)
      BY <2>1 DEF AtVenue
    <3> QED BY <1>0, <1>k, <2>2, <2>6, <3>1, AtVenueIsSent
            DEF Working, WorkingStatus, Refusal, Accepted
  <2>10. i \in Known => Alike(i)'
    BY <1>0, <2>4, <2>5, <2>6, <2>7, <2>8, <2>9, ApplyAgrees DEF Alike
  <2>11. Accepted(i)'
    BY <2>5, <2>6, <2>7, <2>8, <2>9, ApplyAccepts DEF Accepted
  <2> QED BY <1>0, <1>1, <1>2, <1>3, <2>10, <2>11 DEF Stands
<1>6. CASE ~(Lists(m) /\ Listed(m.rows[i]))
  <2>1. Took(i, c) /\ c.life = (IF m.ev = "Lives" THEN m.lives[i] ELSE NoEvent)
    BY <1>4, <1>6
  <2>2. AtVenue(i) => c.life.ev # "OrderRejected"
    BY <1>0, <1>3, <2>1 DEF Stands, Unrefused, m, NoEvent, LifeEvent
  <2> QED BY <1>0, <1>k, <1>1, <1>2, <1>3, <2>1, <2>2, TookStands DEF Stands
<1> QED
  BY <1>5, <1>6

LEMMA ProcessStands ==
  ASSUME SInv, Process, NEW i \in Legible, i \notin misread'
  PROVE  Stands(i)' /\ (i \in Known => Alike(i)')
<1>k. i \in Orders /\ i \notin misread
  BY LegibleOrders
<1>0. LInv /\ Truth /\ Stands(i) /\ (i \in Known => Alike(i))
  BY DEF SInv, TInv, Rest
<1>1. CASE Dies
  <2>1. UNCHANGED venue /\ wire' = <<>> /\ \A S : wire' \in Seq(S)
    BY <1>1 DEF Dies
  <2>2. AtVenue(i)' => AtVenue(i)
    BY <1>1 DEF Dies, AtVenue, SubmitInFlight, SubmitKinds
  <2>3. CASE orders'[i] = logged[i] /\ logged'[i] = logged[i]
    BY <1>0, <2>1, <2>2, <2>3 DEF Stands, Alike, Accepted
  <2>4. ASSUME NEW c \in Change, Took(i, c), c.life = NoEvent
        PROVE  Stands(i)' /\ (i \in Known => Alike(i)')
    <3>1. c.life.ev # "OrderRejected"
      BY <2>4 DEF NoEvent, LifeEvent
    <3> QED BY <1>0, <1>k, <2>1, <2>2, <2>4, <3>1, TookStands DEF Stands
  <2> QED BY <1>k, <1>1, <2>3, <2>4 DEF Dies
<1>2. CASE Restarts
  <2>1. UNCHANGED <<venue, wire>> /\ (AtVenue(i)' => AtVenue(i))
    BY <1>k, <1>2, VenueStays DEF Restarts
  <2>2. ASSUME NEW row \in Row, Restored(i, row), ~Listed(row) \/ OpenAt(i), PlainRow(row)
        PROVE  Stands(i)' /\ Alike(i)'
    <3>1. PICK a \in Action, h \in Held :
            /\ orders'[i] = [Overlay(logged[i], row) EXCEPT !.action = a, !.held = h]
            /\ logged'[i] = [logged[i] EXCEPT !.action = a, !.held = h]
      BY <2>2 DEF Restored
    <3>2. logged[i] \in Order /\ Overlay(logged[i], row) \in Order
      <4>1. logged[i] \in Order
        BY <1>0, <1>k, LInvFacts
      <4> QED BY <4>1, OverlayType
    <3>3. /\ orders'[i].action = a /\ logged'[i].action = a
          /\ logged'[i].status = logged[i].status
          /\ orders'[i].status = Overlay(logged[i], row).status
      BY <3>1, <3>2 DEF Order
    <3>4. CASE ~Listed(row)
      <4>1. orders'[i].status = logged'[i].status
        BY <3>3, <3>4 DEF Overlay
      <4> QED BY <1>0, <2>1, <3>3, <4>1 DEF Stands, Alike, Accepted, Working
    <3>5. CASE Listed(row) /\ OpenAt(i)
      <4>1. AtVenue(i) /\ AtBroker(i)
        BY <3>5 DEF AtVenue, AtBroker, OpenAt
      <4>2. Accepted(i) /\ Undone(i) /\ posts[i] # 0
        BY <1>0, <1>k, <4>1, AtVenueIsSent DEF Stands, Truth, Afoot, Undone
      <4>3. Working(logged[i])
        BY <1>0, <1>k, <4>2, StandsWorks
      <4>4. orders'[i].status \in WorkingStatus
        <5>1. ListedAs(row) \in WorkingStatus
          BY <2>2, <3>5, RowStatus DEF PlainRow
        <5> QED BY <3>2, <3>3, <3>5, <5>1, OverlayFacts
      <4> QED BY <1>0, <2>1, <3>3, <4>2, <4>3, <4>4
              DEF Stands, Alike, Accepted, Working, WorkingStatus, Refusal
    <3> QED BY <2>2, <3>4, <3>5
  <2>3. PICK rows \in Readings \cup {NoRows} :
           OddIn(rows) \subseteq misread' /\ Restored(i, rows[i])
    BY <1>k, <1>2 DEF Restarts
  <2>4. rows[i] \in Row /\ PlainRow(rows[i])
    <3>1. rows \in [Orders -> Row]
      BY <1>0, <2>3, RowsType, LInvFacts
    <3> QED BY <1>k, <2>3, <3>1 DEF OddIn, PlainRow
  <2>5. ~Listed(rows[i]) \/ OpenAt(i)
    <3>1. ~OpenAt(i) => rows[i] = NoRow
      BY <1>k, <2>3, ReadingsTell DEF NoRows
    <3> QED BY <3>1 DEF Listed, NoRow
  <2> QED BY <2>2, <2>3, <2>4, <2>5
<1> QED
  BY <1>0, <1>1, <1>2, ProcessSteps

LEMMA OutsideStands ==
  ASSUME SInv, Outside, NEW i \in Legible, i \notin misread'
  PROVE  Stands(i)' /\ (i \in Known => Alike(i)')
<1>k. i \in Orders
  BY LegibleOrders
<1>0. LInv /\ VenueTypeOK /\ Stands(i) /\ (i \in Known => Alike(i)) /\ Alone(i)
  BY <1>k, LInvFacts DEF SInv, TInv, Truth
<1>1. UNCHANGED <<orders, logged>>
  BY DEF Outside, coreVars, bookVars
<1>2. NoEvent.ev = "NoEvent" /\ ~Listed(NoRow)
  BY DEF NoEvent, LifeEvent, Listed, NoRow
<1>3. MissedFills[i].ev # "OrderRejected" /\ MissedEnds[i].ev # "OrderRejected"
  BY <1>k, <1>2 DEF MissedFills, MissedEnds, FillEvent, LifeEvent
<1>4. ASSUME AtVenue(i)'
      PROVE  AtVenue(i) /\ \A r \in net : ~Refuses(i, r)
  <2>1. CASE \E r \in net : Refuses(i, r)
    <3>1. PICK r \in net : Refuses(i, r)
      BY <2>1
    <3>2. venue[i].st = "none" /\ net' = net \ {r} /\ UNCHANGED venue
      BY <1>0, <3>1 DEF Refuses, Alone, SubmitInFlight
    <3>3. ~SubmitInFlight(i)'
      BY <1>0, <3>1, <3>2 DEF Alone, SubmitInFlight, Refuses
    <3> QED BY <1>4, <3>2, <3>3 DEF AtVenue
  <2>2. net' \subseteq net
    BY <1>0, OutsideSteps DEF Hushed, ClosesAll, Cuts, Returns, Executes, Ends, Gets, Lands, Refuses
  <2>3. venue'[i].st # "none" => AtVenue(i)
    <3>1. CASE Hushed \/ ClosesAll \/ Cuts \/ Returns
      BY <3>1 DEF Hushed, ClosesAll, Cuts, Returns, AtVenue
    <3>2. ASSUME NEW j \in Orders,
                 \/ Executes(j) \/ Ends(j)
                 \/ \E r \in net : Gets(j, r) \/ Lands(j, r) \/ Refuses(j, r)
          PROVE  venue'[i].st # "none" => AtVenue(i)
      <4>1. CASE i = j
        BY <3>2, <4>1 DEF Executes, Ends, Gets, Lands, Refuses, OpenAt, AtVenue, SubmitInFlight
      <4>2. CASE i # j
        <5>1. venue'[i] = venue[i]
          BY <1>0, <1>k, <3>2, <4>2 DEF Executes, Ends, Gets, Lands, Refuses, VenueTypeOK
        <5> QED BY <5>1 DEF AtVenue
      <4> QED BY <4>1, <4>2
    <3> QED BY <1>0, <3>1, <3>2, OutsideSteps
  <2>4. SubmitInFlight(i)' => AtVenue(i)
    BY <2>2 DEF SubmitInFlight, AtVenue
  <2> QED BY <1>4, <2>1, <2>3, <2>4 DEF AtVenue
<1>5. ASSUME AtVenue(i)' PROVE Accepted(i)' /\ wire' \in Seq(Unrefused(i))
  <2>1. AtVenue(i) /\ \A r \in net : ~Refuses(i, r)
    BY <1>4, <1>5
  <2>2. ASSUME NEW m, Uttered(m) PROVE m \in Unrefused(i)
    <3>1. \A e : Befalls(i, e) => e.ev # "OrderRejected"
      BY <2>1, EventParts DEF Befalls
    <3> QED BY <1>0, <1>k, <1>2, <1>3, <2>2, <3>1, UtteredParts DEF Unrefused, Uttered
  <2>3. wire' \in Seq(Unrefused(i))
    BY <1>0, <2>1, <2>2, OutsidePuts DEF Stands
  <2> QED BY <1>0, <1>1, <2>1, <2>3 DEF Stands, Accepted
<1>6. ASSUME venue'[i].st = "none" PROVE wire' \in Seq(Unlisted(i))
  <2>1. venue[i].st = "none"
    <3>1. CASE Hushed \/ ClosesAll \/ Cuts \/ Returns
      BY <1>6, <3>1 DEF Hushed, ClosesAll, Cuts, Returns
    <3>2. ASSUME NEW j \in Orders,
                 \/ Executes(j) \/ Ends(j)
                 \/ \E r \in net : Gets(j, r) \/ Lands(j, r) \/ Refuses(j, r)
          PROVE  venue[i].st = "none"
      <4>1. CASE i = j
        <5>1. venue \in [Orders -> VenueOrder] /\ venue[i] \in VenueOrder
          BY <1>0, <1>k DEF VenueTypeOK
        <5>2. CASE Executes(j)
          BY <1>6, <4>1, <5>1, <5>2 DEF Executes, Executed, VenueOrder
        <5>3. CASE Ends(j)
          <6>1. PICK s \in {"canceled", "expired"} : venue' = [venue EXCEPT ![j] = [@ EXCEPT !.st = s]]
            BY <5>3 DEF Ends
          <6>2. venue'[i].st = s
            BY <4>1, <5>1, <6>1 DEF VenueOrder
          <6> QED BY <1>6, <6>2
        <5>4. ASSUME NEW r \in net, Gets(j, r) PROVE venue[i].st = "none"
          BY <1>6, <4>1, <5>1, <5>4 DEF Gets, VenueOrder
        <5>5. ASSUME NEW r \in net, Lands(j, r) \/ Refuses(j, r) PROVE venue[i].st = "none"
          BY <1>6, <4>1, <5>5 DEF Lands, Refuses
        <5> QED BY <3>2, <5>2, <5>3, <5>4, <5>5
      <4>2. CASE i # j
        BY <1>0, <1>k, <1>6, <3>2, <4>2 DEF Executes, Ends, Gets, Lands, Refuses, VenueTypeOK
      <4> QED BY <4>1, <4>2
    <3> QED BY <1>0, <3>1, <3>2, OutsideSteps
  <2>2. ASSUME NEW m, Uttered(m) PROVE m \in Unlisted(i)
    BY <1>0, <1>k, <1>2, <1>3, <2>1, <2>2, UtteredParts DEF Unlisted, Uttered, OpenAt
  <2> QED BY <1>0, <2>1, <2>2, OutsidePuts DEF Stands
<1>7. wire' \in Seq(PlainMsgs(i))
  <2>1. ASSUME NEW m, Uttered(m) PROVE m \in PlainMsgs(i)
    <3>1. PlainRow(NoRow)
      BY <1>2 DEF PlainRow
    <3> QED BY <1>0, <1>k, <2>1, <3>1, UtteredParts DEF PlainMsgs, Uttered
  <2> QED BY <1>0, <2>1, OutsidePuts DEF Stands
<1> QED
  BY <1>0, <1>1, <1>5, <1>6, <1>7 DEF Stands, Alike

LEMMA NextStands ==
  ASSUME SInv, "flatten" \notin Commands, [Next]_vars, NEW i \in Legible'
  PROVE  Stands(i)' /\ (i \in Known' => Alike(i)')
<1>0. i \in Legible /\ i \notin misread' /\ (i \in Known' => i \in Known)
  BY LegibleBefore, KnownBefore
<1>1. CASE UNCHANGED vars
  <2>1. UNCHANGED <<venue, net, wire, orders, logged>>
    BY <1>1 DEF vars, venueVars, brokerVars, coreVars, bookVars
  <2>2. Stands(i) /\ (i \in Known => Alike(i))
    BY <1>0 DEF SInv
  <2> QED BY <1>0, <2>1, <2>2 DEF Stands, Alike, AtVenue, SubmitInFlight, Accepted
<1>2. CASE Next
  <2>1. LInv /\ NoLateWord
    BY DEF SInv, TInv, Rest
  <2> QED BY <1>0, <1>2, <2>1, StepKinds, OwnSteps, OwnStands, EventStands, ProcessStands, OutsideStands
<1> QED
  BY <1>1, <1>2

\* What landed stays landed, what is over stays over.
LEMMA NextPast ==
  ASSUME LInv, Past, [Next]_vars
  PROVE  Past'
<1>0. VenueTypeOK
  BY LInvFacts
<1>1. ASSUME UNCHANGED <<venue, landed, rewound, misread>> PROVE Past'
  BY <1>1 DEF Past
<1>2. ASSUME UNCHANGED <<venue, rewound, misread>>, landed' = {} PROVE Past'
  BY <1>2 DEF Past
<1>15. ASSUME NEW rows \in Readings \cup {NoRows}, misread' = misread \cup OddIn(rows),
              UNCHANGED <<venue, landed, rewound>>
       PROVE  Past'
  <2>1. ASSUME NEW i \in Orders, i \in OddIn(rows) PROVE venue[i].st # "none"
    <3>1. rows[i].as # "open"
      BY <2>1 DEF OddIn
    <3>2. rows[i] # NoRow
      BY <3>1 DEF NoRow
    <3>3. rows # NoRows
      BY <3>2 DEF NoRows
    <3>4. OpenAt(i)
      BY <1>15, <3>2, <3>3, ReadingsTell
    <3> QED BY <3>4 DEF OpenAt
  <2> QED BY <1>15, <2>1 DEF Past
<1>3. ASSUME NEW j \in Orders, NEW v \in VenueOrder, OpenAt(j), v.st # "none",
             venue' = [venue EXCEPT ![j] = v], UNCHANGED <<landed, rewound, misread>>
      PROVE  Past'
  <2>1. \A i \in Orders : venue'[i] = IF i = j THEN v ELSE venue[i]
    BY <1>0, <1>3 DEF VenueTypeOK
  <2> QED BY <1>3, <2>1 DEF Past, OpenAt
<1>4. ASSUME NEW r, SubmitLands(r) PROVE Past'
  <2>1. r.id \in Orders /\ venue[r.id].st = "none" /\ Landed(r).st = "open"
        /\ venue' = [venue EXCEPT ![r.id] = Landed(r)]
        /\ landed' \subseteq landed \cup {r} /\ UNCHANGED <<rewound, misread>>
    BY <1>0, <1>4 DEF SubmitLands, VenueTypeOK, Requests, Landed, RestOfVenue
  <2>2. \A i \in Orders : venue'[i] = IF i = r.id THEN Landed(r) ELSE venue[i]
    BY <1>0, <2>1 DEF VenueTypeOK
  <2> QED BY <2>1, <2>2 DEF Past
<1>5. ASSUME NEW r, SubmitReturns(r) PROVE Past'
  <2>1. /\ r \in landed /\ landed' \subseteq landed /\ UNCHANGED venue
        /\ rewound' \subseteq rewound \cup {r.id}
        /\ misread' = misread
        /\ OpenAt(r.id) => rewound' = rewound
    BY <1>5 DEF SubmitReturns, RestOfVenue
  <2> QED BY <2>1 DEF Past, OpenAt
<1>6. ASSUME NEW r, SubmitFails(r) \/ ActionFails(r) PROVE Past'
  BY <1>1, <1>6 DEF SubmitFails, ActionFails, RestOfVenue
<1>7. ASSUME NEW r, ActionLands(r) PROVE Past'
  <2>1. r.id \in Orders /\ r.qty \in Qtys /\ OpenAt(r.id) /\ venue[r.id] \in VenueOrder
        /\ UNCHANGED <<landed, rewound, misread>>
    BY <1>0, <1>7 DEF ActionLands, CanDo, VenueTypeOK, Requests, RestOfVenue
  <2> DEFINE v == IF r.kind = "CANCEL" THEN [venue[r.id] EXCEPT !.st = "canceled"]
                                       ELSE [venue[r.id] EXCEPT !.qty = r.qty]
  <2>2. venue' = [venue EXCEPT ![r.id] = v]
    BY <1>7 DEF ActionLands
  <2>3. v \in VenueOrder /\ v.st # "none"
    BY <2>1 DEF VenueOrder, VenueStates, OpenAt
  <2> HIDE DEF v
  <2> QED BY <1>3, <2>1, <2>2, <2>3
<1>8. ASSUME NEW j \in Orders, Fill(j) \/ VenueExpires(j) PROVE Past'
  <2>1. OpenAt(j) /\ venue[j] \in VenueOrder /\ UNCHANGED <<landed, rewound, misread>>
    BY <1>0, <1>8 DEF Fill, VenueExpires, NoneMisread, VenueTypeOK
  <2>2. CASE VenueExpires(j)
    <3> DEFINE v == [venue[j] EXCEPT !.st = "expired"]
    <3>1. venue' = [venue EXCEPT ![j] = v]
      BY <2>2 DEF VenueExpires
    <3>2. v \in VenueOrder /\ v.st # "none"
      BY <2>1 DEF VenueOrder, VenueStates
    <3> HIDE DEF v
    <3> QED BY <1>3, <2>1, <3>1, <3>2
  <2>3. CASE Fill(j)
    <3> DEFINE v == [venue[j] EXCEPT
                       !.exec = @ + 1,
                       !.st = IF venue[j].exec + 1 = venue[j].qty THEN "filled" ELSE "open"]
    <3>1. venue' = [venue EXCEPT ![j] = v] /\ venue[j].exec < venue[j].qty
      BY <2>3 DEF Fill
    <3>2. venue[j].exec + 1 \in Qtys
      BY <2>1, <3>1, QtyAssumption DEF VenueOrder, Qtys
    <3>3. v \in VenueOrder /\ v.st # "none"
      BY <2>1, <3>2 DEF VenueOrder, VenueStates
    <3> HIDE DEF v
    <3> QED BY <1>3, <2>1, <3>1, <3>3
  <2> QED BY <1>8, <2>2, <2>3
<1>9. CASE Outside
  <2>1. CASE CloseFills \/ Drop \/ FlattenCloses
    BY <1>1, <2>1 DEF CloseFills, Drop, FlattenCloses, NoneMisread, adapterVars
  <2>2. CASE Connect \/ FlattenReads
    <3>1. UNCHANGED <<venue, landed>>
      BY <2>2 DEF Connect, FlattenReads, adapterVars
    <3>2. \/ NoneMisread
          \/ \E rows \in Readings : Read(rows)
      BY <2>2 DEF Connect, ReconcileSucceeds, ReconcileFails, FlattenReads
    <3> QED BY <1>1, <1>15, <3>1, <3>2 DEF Read, NoneMisread
  <2> QED BY <1>4, <1>5, <1>6, <1>7, <1>8, <1>9, <2>1, <2>2 DEF Outside, BrokerNext, Deliver
<1>10. CASE Process
  <2>1. CASE Crash \/ ShutdownEngine
    BY <1>2, <2>1 DEF Crash, ShutdownEngine, ProcessDies, NoneMisread
  <2>2. ASSUME NEW ok \in BOOLEAN, Recover(ok) PROVE Past'
    <3>1. UNCHANGED <<venue, landed>>
      BY <2>2 DEF Recover, adapterVars
    <3>2. UNCHANGED rewound
      BY <2>2 DEF Recover, Read, NoneMisread
    <3>3. \E rows \in Readings \cup {NoRows} : misread' = misread \cup OddIn(rows)
      BY <2>2, RecoverReads
    <3> QED BY <1>15, <3>1, <3>2, <3>3
  <2> QED BY <1>10, <2>1, <2>2 DEF Process
<1>11. CASE OrderCommand \/ AccountCommand
  <2>1. UNCHANGED <<venue, landed, rewound, misread>>
    BY <1>11, ZenonT(40) DEF OrderCommand, SubmitNative, SubmitHeld, CancelOrder, ReplaceOrder,
       ReplaceHeld, ResumeHeld, AccountCommand, Arm, DisarmMaster, AutoDisarm, KillSwitch, Flatten,
       venueVars, brokerVars, adapterVars, outside, NoneMisread
  <2> QED BY <1>1, <2>1
<1>12. CASE StreamEvent \/ JobResult
  <2>1. UNCHANGED <<venue, landed, rewound, misread>>
    BY <1>12 DEF StreamEvent, OnLives, OnPosition, OnPositions, OnOpenOrders, OnStreamBreak,
       JobResult, OnSnapshot, OnOutcome, brokerVars, adapterVars, outside
  <2> QED BY <1>1, <2>1
<1>13. CASE HeldStep \/ \E j \in Orders : EvaluateHeld(j)
  <2>1. UNCHANGED <<venue, landed, rewound, misread>>
    BY <1>13 DEF HeldStep, EligiblePrint, PrintGap, ExpireHeldOrders, Tick, EvaluateHeld, venueVars,
       brokerVars, adapterVars, outside
  <2> QED BY <1>1, <2>1
<1>14. CASE UNCHANGED vars
  BY <1>1, <1>14 DEF vars, venueVars, brokerVars, adapterVars
<1> QED
  BY <1>9, <1>10, <1>11, <1>12, <1>13, <1>14 DEF Next

LEMMA StandInvariant ==
  ASSUME "flatten" \notin Commands
  PROVE  Spec => []SInv
<1> DEFINE All == Past /\ \A i \in Legible : Stands(i) /\ (i \in Known => Alike(i))
<1>1. Init => All
  <2> SUFFICES ASSUME Init PROVE All
    OBVIOUS
  <2>0. \A i \in Legible : i \in Orders
    BY LegibleOrders
  <2>1. /\ landed = {} /\ rewound = {} /\ misread = {}
        /\ wire = <<>> /\ net = {} /\ venue = [i \in Orders |-> NoVenueOrder]
        /\ orders = [i \in Orders |-> NoOrder] /\ logged = [i \in Orders |-> NoOrder]
    BY DEF Init, VenueInit
  <2>2. \A i \in Orders : ~AtVenue(i) /\ orders[i] = logged[i]
    BY <2>1 DEF AtVenue, SubmitInFlight, NoVenueOrder
  <2> QED BY <2>0, <2>1, <2>2 DEF Stands, Alike, Past
<1>2. (TInv /\ Rest) /\ (TInv /\ Rest)' /\ All /\ [Next]_vars => All'
  <2> SUFFICES ASSUME TInv, Rest, All, [Next]_vars PROVE All'
    OBVIOUS
  <2>1. SInv
    BY DEF SInv
  <2>2. LInv
    BY DEF TInv
  <2> QED BY <2>1, <2>2, NextStands, NextPast
<1>3. (TInv /\ Rest) /\ All => SInv
  BY DEF SInv
<1> QED
  BY <1>1, <1>2, <1>3, RestInvariant, PTL DEF Spec

\* A replay of the log gives the custody of every order and the action of every
\* SELL as the process had them: a broker list overlaid on the live orders
\* (ReconcileOpenOrders) never makes an event of the stream mean one thing live
\* and another replayed.  Of a SELL some list has read as done the action may
\* differ, as an OrderReplaced then settles only the one replayed.
THEOREM SellCustodyIsDurable ==
  ASSUME "flatten" \notin Commands
  PROVE  Spec => []( /\ \A i \in Orders : orders[i].held = logged[i].held
                     /\ \A i \in Sells \ (misread \cup rewound) :
                          orders[i].action = logged[i].action)
<1>1. SInv => /\ \A i \in Orders : orders[i].held = logged[i].held
              /\ \A i \in Sells \ (misread \cup rewound) : orders[i].action = logged[i].action
  <2> SUFFICES ASSUME SInv
               PROVE  /\ \A i \in Orders : orders[i].held = logged[i].held
                      /\ \A i \in Sells \ (misread \cup rewound) :
                           orders[i].action = logged[i].action
    OBVIOUS
  <2>1. Sells \ (misread \cup rewound) \subseteq Known \cap Legible
    BY IdsAssumption DEF Firm, Known, Legible
  <2> QED BY <2>1, LInvFacts DEF SInv, TInv, Alike, Custody
<1> QED
  BY <1>1, StandInvariant, PTL

\* The custody and the action of every order survive a crash, as long as no
\* answer to a submit is lost, which postSubmit takes for a rejection of an order
\* that is not guarded, or every order is a SELL; and as long as no order was over
\* by the time SubmitOrder returned, whose end the next reconnect tells again.
THEOREM CustodyIsDurable ==
  ASSUME "flatten" \notin Commands, "request" \notin Upsets \/ Orders \subseteq Sells
  PROVE  Spec => [](rewound = {} => CustodyDurable)
<1>1. SInv => (rewound = {} => CustodyDurable)
  <2> SUFFICES ASSUME SInv, rewound = {}, NEW i \in Orders
               PROVE  /\ orders[i].held = logged[i].held
                      /\ i \notin misread => orders[i].action = logged[i].action
    BY DEF CustodyDurable
  <2>1. i \notin misread => i \in Known /\ i \in Legible
    BY DEF Firm, Known, Legible
  <2> QED BY <2>1, LInvFacts DEF SInv, TInv, Alike, Custody
<1> QED
  BY <1>1, StandInvariant, PTL

-----------------------------------------------------------------------------
(***************************************************************************)
(* Once the stream is drained, an order that works at the broker works in  *)
(* the core, with the broker's size and the broker's fills, for every set  *)
(* of orders and every bound.                                              *)
(***************************************************************************)

\* The core trusts its books once it took the first k messages: nothing broke
\* the stream, or a list came after the last break.
Trusted(r, w, k) ==
  \/ r /\ \A l \in 1 .. k : ~Breaks(w[l])
  \/ \E l \in 1 .. k : Lists(w[l]) /\ \A n \in 1 .. k : n > l => ~Breaks(w[n])

LEMMA TrustPut ==
  ASSUME NEW r, NEW w \in Seq(Msgs), NEW m \in Msgs
  PROVE  /\ \A k \in 0 .. Len(w) : Trusted(r, Append(w, m), k) <=> Trusted(r, w, k)
         /\ Breaks(m) => ~Trusted(r, Append(w, m), Len(w) + 1)
         /\ ~Breaks(m) /\ ~Lists(m) =>
              (Trusted(r, Append(w, m), Len(w) + 1) => Trusted(r, w, Len(w)))
         /\ ~Breaks(m) => (Trusted(r, w, Len(w)) => Trusted(r, Append(w, m), Len(w) + 1))
<1> DEFINE n == Len(w)
           x == Append(w, m)
<1>1. n \in Nat /\ x[n + 1] = m /\ \A l \in 1 .. n : x[l] = w[l]
  BY SeqParts
<1>2. ~(Breaks(m) /\ Lists(m))
  BY DEF Breaks, Lists
<1> HIDE DEF n, x
<1>3. ASSUME NEW k \in 0 .. n PROVE Trusted(r, x, k) <=> Trusted(r, w, k)
  <2>1. \A l \in 1 .. k : x[l] = w[l]
    BY <1>1
  <2> QED BY <2>1 DEF Trusted
<1>4. ASSUME Breaks(m) PROVE ~Trusted(r, x, n + 1)
  <2>1. n + 1 \in 1 .. n + 1 /\ \A l \in 1 .. n + 1 : l = n + 1 \/ n + 1 > l
    BY <1>1
  <2> QED BY <1>1, <1>2, <1>4, <2>1 DEF Trusted
<1>5. ASSUME ~Breaks(m), ~Lists(m), Trusted(r, x, n + 1) PROVE Trusted(r, w, n)
  <2>1. \A l \in 1 .. n : l \in 1 .. n + 1
    BY <1>1
  <2>2. \A l \in 1 .. n + 1 : l = n + 1 \/ l \in 1 .. n
    BY <1>1
  <2> QED BY <1>1, <1>5, <2>1, <2>2 DEF Trusted
<1>6. ASSUME ~Breaks(m), Trusted(r, w, n) PROVE Trusted(r, x, n + 1)
  <2>1. \A l \in 1 .. n : l \in 1 .. n + 1
    BY <1>1
  <2>2. \A l \in 1 .. n + 1 : l = n + 1 \/ l \in 1 .. n
    BY <1>1
  <2> QED BY <1>1, <1>6, <2>1, <2>2 DEF Trusted
<1> QED
  BY <1>3, <1>4, <1>5, <1>6 DEF n, x

LEMMA TrustTake ==
  ASSUME NEW r \in BOOLEAN, NEW w \in Seq(Msgs), w # <<>>, NEW k \in 0 .. Len(w) - 1
  PROVE  Trusted(After(r, Head(w)), Tail(w), k) <=> Trusted(r, w, k + 1)
<1> DEFINE t == Tail(w)
<1>1. /\ Len(w) \in Nat /\ Len(t) = Len(w) - 1 /\ Head(w) = w[1]
      /\ \A l \in 1 .. Len(w) - 1 : t[l] = w[l + 1]
  BY SeqParts
<1>2. ~(Breaks(w[1]) /\ Lists(w[1]))
  BY DEF Breaks, Lists
<1> HIDE DEF t
<1>3. \A l \in 1 .. k : l + 1 \in 1 .. k + 1 /\ t[l] = w[l + 1]
  BY <1>1
<1>4. \A l \in 1 .. k + 1 : l = 1 \/ (l - 1 \in 1 .. k /\ w[l] = t[l - 1])
  <2> SUFFICES ASSUME NEW l \in 1 .. k + 1, l # 1 PROVE l - 1 \in 1 .. k /\ w[l] = t[l - 1]
    OBVIOUS
  <2>1. l - 1 \in 1 .. k /\ (l - 1) + 1 = l
    BY <1>1
  <2> QED BY <1>3, <2>1
<1>5. ASSUME Trusted(After(r, w[1]), t, k) PROVE Trusted(r, w, k + 1)
  <2>1. CASE After(r, w[1]) /\ \A l \in 1 .. k : ~Breaks(t[l])
    <3>1. \A l \in 1 .. k + 1 : l > 1 => ~Breaks(w[l])
      BY <1>4, <2>1
    <3>2. 1 \in 1 .. k + 1
      BY <1>1
    <3>3. CASE Lists(w[1])
      BY <3>1, <3>2, <3>3 DEF Trusted
    <3>4. CASE ~Lists(w[1])
      <4>1. r /\ ~Breaks(w[1])
        BY <2>1, <3>4 DEF After
      <4>2. \A l \in 1 .. k + 1 : l = 1 \/ l > 1
        OBVIOUS
      <4> QED BY <3>1, <4>1, <4>2 DEF Trusted
    <3> QED BY <3>3, <3>4
  <2>2. CASE \E l \in 1 .. k : Lists(t[l]) /\ \A n \in 1 .. k : n > l => ~Breaks(t[n])
    <3>1. PICK l \in 1 .. k : Lists(t[l]) /\ \A n \in 1 .. k : n > l => ~Breaks(t[n])
      BY <2>2
    <3>2. l + 1 \in 1 .. k + 1 /\ Lists(w[l + 1])
      BY <1>3, <3>1
    <3>3. ASSUME NEW n \in 1 .. k + 1, n > l + 1 PROVE ~Breaks(w[n])
      <4>1. n - 1 \in 1 .. k /\ w[n] = t[n - 1] /\ n - 1 > l
        BY <1>4, <3>3
      <4> QED BY <3>1, <4>1
    <3> QED BY <3>2, <3>3 DEF Trusted
  <2> QED BY <1>5, <2>1, <2>2 DEF Trusted
<1>6. ASSUME Trusted(r, w, k + 1) PROVE Trusted(After(r, w[1]), t, k)
  <2>1. 1 \in 1 .. k + 1
    BY <1>1
  <2>2. CASE r /\ \A l \in 1 .. k + 1 : ~Breaks(w[l])
    BY <1>3, <2>1, <2>2 DEF Trusted, After
  <2>3. CASE \E l \in 1 .. k + 1 : Lists(w[l]) /\ \A n \in 1 .. k + 1 : n > l => ~Breaks(w[n])
    <3>1. PICK l \in 1 .. k + 1 : Lists(w[l]) /\ \A n \in 1 .. k + 1 : n > l => ~Breaks(w[n])
      BY <2>3
    <3>2. CASE l = 1
      <4>1. \A n \in 1 .. k : ~Breaks(t[n])
        <5> SUFFICES ASSUME NEW n \in 1 .. k PROVE ~Breaks(t[n])
          OBVIOUS
        <5>1. n + 1 \in 1 .. k + 1 /\ t[n] = w[n + 1] /\ n + 1 > l
          BY <1>3, <3>2
        <5> QED BY <3>1, <5>1
      <4>2. After(r, w[1]) = TRUE
        BY <1>2, <3>1, <3>2 DEF After
      <4> QED BY <4>1, <4>2 DEF Trusted
    <3>3. CASE l # 1
      <4>1. l - 1 \in 1 .. k /\ Lists(t[l - 1])
        BY <1>4, <3>1, <3>3
      <4>2. ASSUME NEW n \in 1 .. k, n > l - 1 PROVE ~Breaks(t[n])
        <5>1. n + 1 \in 1 .. k + 1 /\ t[n] = w[n + 1] /\ n + 1 > l
          BY <1>3, <4>2
        <5> QED BY <3>1, <5>1
      <4> QED BY <4>1, <4>2 DEF Trusted
    <3> QED BY <3>2, <3>3
  <2> QED BY <1>6, <2>2, <2>3 DEF Trusted
<1> QED
  BY <1>1, <1>5, <1>6 DEF t

\* Where the stream broke, only a list brings the trust back.
LEMMA TrustWeak ==
  ASSUME NEW r, NEW w, NEW k
  PROVE  /\ Trusted(FALSE, w, k) => Trusted(r, w, k)
         /\ (\E l \in 1 .. k : Breaks(w[l])) => (Trusted(r, w, k) => Trusted(FALSE, w, k))
BY DEF Trusted

\* The last word of the inbox on a question is right, or there is none and the
\* core has the answer already.
Current(w, S, V, b) ==
  \/ b /\ \A k \in 1 .. Len(w) : w[k] \notin S
  \/ \E k \in 1 .. Len(w) : w[k] \in V /\ \A l \in 1 .. Len(w) : l > k => w[l] \notin S

LEMMA CurrentPut ==
  ASSUME NEW S, NEW V, NEW b, NEW w \in Seq(Msgs), NEW m \in Msgs
  PROVE  /\ m \in V => Current(Append(w, m), S, V, b)
         /\ m \notin S /\ Current(w, S, V, b) => Current(Append(w, m), S, V, b)
<1> DEFINE n == Len(w)
           x == Append(w, m)
<1>1. n \in Nat /\ Len(x) = n + 1 /\ x[n + 1] = m /\ \A l \in 1 .. n : x[l] = w[l]
  BY SeqParts
<1> HIDE DEF n, x
<1>2. /\ \A l \in 1 .. n + 1 : l = n + 1 \/ l \in 1 .. n
      /\ \A l \in 1 .. n : l \in 1 .. n + 1
      /\ n + 1 \in 1 .. n + 1 /\ \A l \in 1 .. n + 1 : ~(l > n + 1)
  BY <1>1
<1>3. ASSUME m \in V PROVE Current(x, S, V, b)
  BY <1>1, <1>2, <1>3 DEF Current
<1>4. ASSUME m \notin S, Current(w, S, V, b) PROVE Current(x, S, V, b)
  <2>1. CASE b /\ \A k \in 1 .. n : w[k] \notin S
    BY <1>1, <1>2, <1>4, <2>1 DEF Current
  <2>2. CASE \E k \in 1 .. n : w[k] \in V /\ \A l \in 1 .. n : l > k => w[l] \notin S
    BY <1>1, <1>2, <1>4, <2>2 DEF Current
  <2> QED BY <1>4, <2>1, <2>2 DEF Current, n
<1> QED
  BY <1>3, <1>4 DEF x

LEMMA CurrentTake ==
  ASSUME NEW S, NEW V, NEW b, NEW w \in Seq(Msgs), w # <<>>, Current(w, S, V, b), V \subseteq S,
         NEW c, IF Head(w) \in S THEN Head(w) \in V => c ELSE b => c
  PROVE  Current(Tail(w), S, V, c)
<1> DEFINE t == Tail(w)
           n == Len(t)
<1>1. /\ Len(w) \in Nat /\ n \in Nat /\ Len(w) = n + 1 /\ Head(w) = w[1]
      /\ \A l \in 1 .. n : t[l] = w[l + 1]
  BY SeqParts
<1> HIDE DEF t, n
<1>2. \A l \in 1 .. n : l + 1 \in 1 .. n + 1 /\ t[l] = w[l + 1]
  BY <1>1
<1>3. 1 \in 1 .. n + 1
  BY <1>1
<1>4. CASE b /\ \A k \in 1 .. n + 1 : w[k] \notin S
  BY <1>1, <1>2, <1>3, <1>4 DEF Current, n
<1>5. ASSUME NEW k \in 1 .. n + 1, w[k] \in V, \A l \in 1 .. n + 1 : l > k => w[l] \notin S
      PROVE  Current(t, S, V, c)
  <2>1. CASE k = 1
    <3>1. \A l \in 1 .. n : t[l] \notin S
      <4> SUFFICES ASSUME NEW l \in 1 .. n PROVE t[l] \notin S
        OBVIOUS
      <4>1. l + 1 \in 1 .. n + 1 /\ l + 1 > k
        BY <1>1, <2>1
      <4> QED BY <1>2, <1>5, <4>1
    <3>2. c
      BY <1>1, <1>5, <2>1
    <3> QED BY <3>1, <3>2 DEF Current, n
  <2>2. CASE k # 1
    <3>1. k - 1 \in 1 .. n /\ (k - 1) + 1 = k
      BY <1>1, <2>2
    <3>2. t[k - 1] \in V
      BY <1>2, <1>5, <3>1
    <3>3. ASSUME NEW l \in 1 .. n, l > k - 1 PROVE t[l] \notin S
      <4>1. l + 1 \in 1 .. n + 1 /\ l + 1 > k
        BY <1>1, <3>3
      <4> QED BY <1>2, <1>5, <4>1
    <3> QED BY <3>1, <3>2, <3>3 DEF Current, n
  <2> QED BY <2>1, <2>2
<1>6. \/ b /\ \A k \in 1 .. n + 1 : w[k] \notin S
      \/ \E k \in 1 .. n + 1 : w[k] \in V /\ \A l \in 1 .. n + 1 : l > k => w[l] \notin S
  BY <1>1 DEF Current
<1> QED
  BY <1>4, <1>5, <1>6 DEF t

-----------------------------------------------------------------------------
(* What the events say of the fills and of the size of one order *)

Filled(m, i) == m.ev = "Lives" /\ m.lives[i].ev = "OrderFilled"
Resized(m, i) == m.ev = "Lives" /\ m.lives[i].ev = "OrderReplaced"
Listing(m, i) == Lists(m) /\ Listed(m.rows[i])
SaysExec(m, i) == Filled(m, i) \/ Listing(m, i)
SaidExec(m, i) == IF Filled(m, i) THEN m.lives[i].cum ELSE m.rows[i].exec
SaysSize(m, i) == Resized(m, i) \/ Listing(m, i)
SaidSize(m, i) == IF Resized(m, i) THEN m.lives[i].qty ELSE m.rows[i].qty

\* What folding one event does to the quantities.
LEMMA ApplyMeans ==
  ASSUME NEW o \in Order, NEW c, c.life \in Life
  PROVE  /\ o.status = "NONE" => Apply(o, c) = o
         /\ c.life.ev # "OrderFilled" => Apply(o, c).exec = o.exec
         /\ c.life.ev # "OrderReplaced" => Apply(o, c).qty = o.qty
         /\ c.life.ev \notin {"OrderFilled", "OrderReplaced"} => Apply(o, c).leaves = o.leaves
         /\ o.status # "NONE" /\ c.life.ev = "OrderFilled" =>
              Apply(o, c).exec = c.life.cum /\ Apply(o, c).leaves = c.life.leaves
         /\ c.life.ev = "OrderReplaced" =>
              IF Working(o)
              THEN /\ Apply(o, c).qty = c.life.qty
                   /\ Apply(o, c).leaves = Minus(c.life.qty, o.exec)
              ELSE Apply(o, c).qty = o.qty /\ Apply(o, c).leaves = o.leaves
         /\ c.life.ev \in OwnEvents /\ Working(Apply(o, c)) => Working(o)
<1>1. CASE o.status = "NONE"
  BY <1>1 DEF Apply, Working, WorkingStatus
<1>2. CASE o.status # "NONE"
  <2> DEFINE f == FoldLife(o, c.life)
             a == Apply(o, c)
  <2>1. f \in Order
    BY FoldLifeType
  <2>2. a.status = f.status /\ a.exec = f.exec /\ a.qty = f.qty /\ a.leaves = f.leaves
    BY <1>2, <2>1 DEF Apply, Order
  <2> HIDE DEF f, a
  <2>3. CASE c.life.ev = "NoEvent"
    BY <1>2, <2>2, <2>3 DEF FoldLife, a, f, Working
  <2>4. CASE c.life.ev = "OrderAccepted"
    BY <1>2, <2>2, <2>4 DEF FoldLife, FoldAccepted, a, f, Working, OwnEvents, Order
  <2>5. CASE c.life.ev = "OrderRejected"
    BY <1>2, <2>2, <2>5 DEF FoldLife, FoldRejected, a, f, Working, WorkingStatus, Order
  <2>6. CASE c.life.ev = "OrderFilled"
    BY <1>2, <2>2, <2>6 DEF FoldLife, FoldFilled, a, f, Working, OwnEvents, Order
  <2>7. CASE c.life.ev = "OrderCanceled"
    BY <1>2, <2>2, <2>7 DEF FoldLife, FoldCanceled, Ended, a, f, Working, WorkingStatus, Order
  <2>8. CASE c.life.ev = "OrderExpired"
    BY <1>2, <2>2, <2>8 DEF FoldLife, FoldExpired, Ended, a, f, Working, WorkingStatus, Order
  <2>9. CASE c.life.ev = "OrderReplaced"
    BY <1>2, <2>2, <2>9 DEF FoldLife, FoldReplaced, a, f, Working, WorkingStatus, Order
  <2> QED BY <2>3, <2>4, <2>5, <2>6, <2>7, <2>8, <2>9 DEF Life, LifeKinds
<1> QED
  BY <1>1, <1>2

\* Nothing is said of the fills, or of the size, of an order the broker does not
\* have; nothing said of the fills exceeds them.
Unsaid(i) == {m \in Msgs : ~SaysExec(m, i) /\ ~SaysSize(m, i)}
Within(i, v) == {m \in Msgs : SaysExec(m, i) => SaidExec(m, i) <= v}
Bounded(i) == /\ orders[i].exec <= venue[i].exec /\ logged[i].exec <= venue[i].exec
              /\ wire \in Seq(Within(i, venue[i].exec))
\* A submission asks for the size of its order.
Whole(o) == Working(o) => o.leaves = o.qty /\ o.qty > 0
Fits(i) ==
  /\ posts[i] = 0 => orders[i].qty = logged[i].qty /\ Whole(orders[i]) /\ Whole(logged[i])
  /\ \A r \in net : r.kind \in SubmitKinds /\ r.id = i =>
       r.qty > 0 /\ orders[i].qty = r.qty /\ logged[i].qty = r.qty
  /\ venue[i].st # "none" => venue[i].qty > 0
  /\ venue[i].st = "none" => wire \in Seq(Unsaid(i))
\* A process that is not up trusts nothing, and the stream it left broke.
Broken(w) == \E k \in 1 .. Len(w) : Breaks(w[k])
Down == ~up => ~ready /\ (online => Broken(wire))
\* Of an open order the last word of the inbox is right once the core trusts it.
OnExec(i) == {m \in Msgs : SaysExec(m, i)}
OnSize(i) == {m \in Msgs : SaysSize(m, i)}
ExecIs(i, v) == {m \in Msgs : SaysExec(m, i) /\ SaidExec(m, i) = v}
SizeIs(i, q) == {m \in Msgs : SaysSize(m, i) /\ SaidSize(m, i) = q}
Sure(i) == online /\ OpenAt(i) /\ Trusted(ready, wire, Len(wire))
HasExec(i) == IF up THEN orders[i].exec = venue[i].exec ELSE venue[i].exec = 0
HasSize(i) == (IF up THEN orders[i].qty ELSE logged[i].qty) = venue[i].qty
KnowsExec(i) == Sure(i) => Current(wire, OnExec(i), ExecIs(i, venue[i].exec), HasExec(i))
KnowsSize(i) == Sure(i) => Current(wire, OnSize(i), SizeIs(i, venue[i].qty), HasSize(i))
Knows(i) == KnowsExec(i) /\ (i \in Known => KnowsSize(i))
QInv == SInv /\ Down /\ \A i \in Orders : Bounded(i) /\ Fits(i) /\ Knows(i)

\* One change folded into both.
LEMMA TookMeans ==
  ASSUME LInv, NEW i \in Orders, NEW c \in Change, Took(i, c)
  PROVE  /\ c.life.ev # "OrderFilled" =>
              orders'[i].exec = orders[i].exec /\ logged'[i].exec = logged[i].exec
         /\ c.life.ev # "OrderReplaced" =>
              orders'[i].qty = orders[i].qty /\ logged'[i].qty = logged[i].qty
         /\ posts[i] # 0 /\ c.life.ev = "OrderFilled" =>
              orders'[i].exec = c.life.cum /\ logged'[i].exec = c.life.cum
         /\ c.life.ev = "OrderFilled" =>
              /\ orders'[i].exec \in {orders[i].exec, c.life.cum}
              /\ logged'[i].exec \in {logged[i].exec, c.life.cum}
         /\ c.life.ev = "OrderReplaced" /\ Working(orders[i]) => orders'[i].qty = c.life.qty
<1>1. /\ orders[i] \in Order /\ logged[i] \in Order
      /\ posts[i] # 0 => orders[i].status # "NONE" /\ logged[i].status # "NONE"
  BY LInvFacts, SentNoLongerWaits DEF Custody
<1>2. c.life \in Life
  BY DEF Change
<1> QED
  BY <1>1, <1>2, ApplyMeans DEF Took

\* The numbers there are.
LEMMA Numbers ==
  ASSUME LInv, NEW i \in Orders
  PROVE  /\ orders[i].exec \in Nat /\ orders[i].qty \in Nat /\ orders[i].leaves \in Nat
         /\ logged[i].exec \in Nat /\ logged[i].qty \in Nat /\ logged[i].leaves \in Nat
         /\ venue[i].exec \in Nat /\ venue[i].qty \in Nat /\ venue[i].exec <= MaxQty
         /\ venue[i].qty <= MaxQty
         /\ posts[i] = 0 => venue[i].st = "none" /\ venue[i].exec = 0 /\ ~AtVenue(i)
BY SMTT(40), LInvFacts, QtyAssumption DEF VenueTypeOK, VenueOrder, Order, Qtys, Quiet, NoVenueOrder, AtVenue

\* What a step of the core's own does to the quantities of an order.
LEMMA OwnQuantities ==
  ASSUME LInv, Does, NEW i \in Orders, Bounded(i), Fits(i)
  PROVE  /\ posts[i] # 0 => /\ orders'[i].exec = orders[i].exec /\ logged'[i].exec = logged[i].exec
                            /\ orders'[i].qty = orders[i].qty /\ logged'[i].qty = logged[i].qty
         /\ posts[i] = 0 => /\ orders'[i].exec = 0 /\ logged'[i].exec = 0
                            /\ orders'[i].qty = logged'[i].qty
                            /\ Whole(orders'[i]) /\ Whole(logged'[i])
<1>0. /\ orders[i] \in Order /\ logged[i] \in Order /\ i \in Orders
      /\ posts[i] = 0 => orders[i].status = logged[i].status
  BY LInvFacts
<1>1. CASE Enters(i)
  <2>1. PICK q \in 1 .. MaxQty :
          \/ orders'[i] = BlockedOrder(q)
          \/ \E a \in {NoAction, Requested("SUBMIT", 0)}, h \in Held : orders'[i] = NewOrder(q, a, h)
    BY <1>1 DEF Enters, Opened
  <2>2. /\ \A a, h : NewOrder(q, a, h).exec = 0 /\ NewOrder(q, a, h).qty = q /\ NewOrder(q, a, h).leaves = q
        /\ BlockedOrder(q).exec = 0 /\ BlockedOrder(q).status = "BLOCKED"
    BY DEF NewOrder, BlockedOrder, NoOrder
  <2>3. q > 0
    BY QtyAssumption
  <2> QED BY <1>1, <2>1, <2>2, <2>3 DEF Enters, Whole, Working, WorkingStatus
<1>2. ASSUME NEW c \in Change, Took(i, c), Restrained(i, c), posts[i] # 0
      PROVE  /\ orders'[i].exec = orders[i].exec /\ logged'[i].exec = logged[i].exec
             /\ orders'[i].qty = orders[i].qty /\ logged'[i].qty = logged[i].qty
  <2>1. orders[i].held.phase \notin Pretrigger
    BY <1>2, SentNoLongerWaits
  <2>2. c.life.ev \in {"NoEvent", "OrderRejected"}
    BY <1>2, <2>1, EventParts DEF Restrained, OwnLife
  <2> QED BY <1>2, <2>2, TookMeans
<1>3. ASSUME NEW c \in Change, Took(i, c), Restrained(i, c), posts[i] = 0
      PROVE  /\ orders'[i].exec = 0 /\ logged'[i].exec = 0
             /\ orders'[i].qty = logged'[i].qty
             /\ Whole(orders'[i]) /\ Whole(logged'[i])
  <2>1. /\ c.life.ev \in OwnEvents /\ (c.life.ev = "OrderReplaced" => c.life.qty > 0)
        /\ c.life \in Life /\ c.life.qty \in Nat
    <3>1. c.life \in Life /\ c.life.qty \in Nat
      BY QtyAssumption DEF Change, Life, Qtys
    <3> QED BY <1>3, <3>1, EventParts DEF Restrained, OwnLife, OwnEvents
  <2>2. orders[i].exec = 0 /\ logged[i].exec = 0
    BY <1>3, Numbers DEF Bounded
  <2>3. Working(orders[i]) <=> Working(logged[i])
    BY <1>0, <1>3 DEF Working
  <2>4. orders[i].qty = logged[i].qty /\ Whole(orders[i]) /\ Whole(logged[i])
    BY <1>3 DEF Fits
  <2>5. \A q \in Nat : Minus(q, 0) = q
    BY DEF Minus
  <2>6. orders'[i].exec = 0 /\ logged'[i].exec = 0
    <3>1. c.life.ev # "OrderFilled"
      BY <2>1 DEF OwnEvents
    <3> QED BY <1>3, <2>2, <3>1, TookMeans
  <2> DEFINE o == orders[i]
             l == logged[i]
             p == Apply(o, c)
             t == Apply(l, c)
  <2>7. orders'[i] = p /\ logged'[i] = t
    BY <1>3 DEF Took
  <2>8. /\ c.life.ev # "OrderReplaced" => p.qty = o.qty /\ p.leaves = o.leaves
        /\ c.life.ev = "OrderReplaced" => IF Working(o) THEN p.qty = c.life.qty /\ p.leaves = Minus(c.life.qty, o.exec)
                                                        ELSE p.qty = o.qty /\ p.leaves = o.leaves
        /\ Working(p) => Working(o)
    BY <1>0, <2>1, ApplyMeans DEF OwnEvents
  <2>9. /\ c.life.ev # "OrderReplaced" => t.qty = l.qty /\ t.leaves = l.leaves
        /\ c.life.ev = "OrderReplaced" => IF Working(l) THEN t.qty = c.life.qty /\ t.leaves = Minus(c.life.qty, l.exec)
                                                        ELSE t.qty = l.qty /\ t.leaves = l.leaves
        /\ Working(t) => Working(l)
    BY <1>0, <2>1, ApplyMeans DEF OwnEvents
  <2> HIDE DEF p, t
  <2>10. p.qty = t.qty
    BY <2>3, <2>4, <2>8, <2>9
  <2>11. Whole(p) /\ Whole(t)
    BY <2>1, <2>2, <2>4, <2>5, <2>8, <2>9 DEF Whole
  <2> QED BY <2>6, <2>7, <2>10, <2>11
<1>4. posts[i] # 0 => ~Enters(i)
  BY DEF Enters
<1> QED
  BY <1>1, <1>2, <1>3, <1>4 DEF Does, Enters

LEMMA OwnKnows ==
  ASSUME LInv, Does, Moves, NEW i \in Orders, Bounded(i), Fits(i), Knows(i),
         i \in Known' => i \in Known
  PROVE  Bounded(i)' /\ Fits(i)' /\ Knows(i)'
<1>0. UNCHANGED <<venue, wire, online, up, ready>> /\ i \in Orders
  BY DEF Does, Quietly
<1>1. posts'[i] = 0 => posts[i] = 0
  BY <1>0 DEF Moves, Local, Begins, Sends
<1>2. /\ AtVenue(i) => posts[i] # 0
      /\ OpenAt(i) => posts[i] # 0
  BY Numbers DEF OpenAt
<1>3. Bounded(i)'
  BY <1>0, OwnQuantities, Numbers DEF Bounded
<1>4. Knows(i)'
  <2>1. (Sure(i)' <=> Sure(i)) /\ (Sure(i) => posts[i] # 0)
    BY <1>0, <1>2 DEF Sure, OpenAt
  <2>2. ASSUME posts[i] # 0 PROVE (HasExec(i)' <=> HasExec(i)) /\ (HasSize(i)' <=> HasSize(i))
    BY <1>0, <2>2, OwnQuantities DEF HasExec, HasSize
  <2>3. KnowsExec(i)'
    <3> SUFFICES ASSUME Sure(i)'
                 PROVE  Current(wire, OnExec(i), ExecIs(i, venue[i].exec), HasExec(i))'
      BY DEF KnowsExec
    <3>1. Current(wire, OnExec(i), ExecIs(i, venue[i].exec), HasExec(i)) /\ (HasExec(i)' <=> HasExec(i))
      BY <2>1, <2>2 DEF Knows, KnowsExec
    <3> QED BY <1>0, <3>1 DEF Current
  <2>4. ASSUME i \in Known' PROVE KnowsSize(i)'
    <3> SUFFICES ASSUME Sure(i)'
                 PROVE  Current(wire, OnSize(i), SizeIs(i, venue[i].qty), HasSize(i))'
      BY DEF KnowsSize
    <3>1. Current(wire, OnSize(i), SizeIs(i, venue[i].qty), HasSize(i)) /\ (HasSize(i)' <=> HasSize(i))
      BY <2>1, <2>2, <2>4 DEF Knows, KnowsSize
    <3> QED BY <1>0, <3>1 DEF Current
  <2> QED BY <2>3, <2>4 DEF Knows
<1>5. ASSUME NEW r \in net', r.kind \in SubmitKinds, r.id = i
      PROVE  r.qty > 0 /\ orders'[i].qty = r.qty /\ logged'[i].qty = r.qty
  <2>1. CASE r \in net
    <3>1. posts[i] # 0
      BY <1>2, <1>5, <2>1 DEF AtVenue, SubmitInFlight
    <3> QED BY <1>5, <2>1, <3>1, OwnQuantities DEF Fits
  <2>2. CASE r \notin net
    <3>1. Submitted(r)
      <4>1. ~OnlyCancels
        BY <1>5, <2>2 DEF OnlyCancels, SubmitKinds
      <4>2. PICK q \in Requests : net' = net \cup {q} /\ Asked(q)
        BY <4>1 DEF Does, Sent
      <4>3. q = r
        BY <1>5, <2>2, <4>2
      <4> QED BY <1>5, <4>2, <4>3 DEF Asked, SubmitKinds
    <3>2. posts[i] = 0 /\ Working(orders'[i]) /\ orders'[i].leaves = r.qty
      BY <1>5, <3>1 DEF Submitted
    <3> QED BY <3>2, OwnQuantities DEF Whole
  <2> QED BY <2>1, <2>2
<1>6. Fits(i)'
  BY <1>0, <1>1, <1>5, OwnQuantities DEF Fits
<1> QED
  BY <1>3, <1>4, <1>6

\* A change that says nothing leaves the quantities.
LEMMA TookIdle ==
  ASSUME LInv, NEW i \in Orders, NEW c \in Change, Took(i, c), c.life = NoEvent
  PROVE  /\ orders'[i].exec = orders[i].exec /\ logged'[i].exec = logged[i].exec
         /\ orders'[i].qty = orders[i].qty /\ logged'[i].qty = logged[i].qty
         /\ Whole(orders[i]) => Whole(orders'[i])
         /\ Whole(logged[i]) => Whole(logged'[i])
<1>1. orders[i] \in Order /\ logged[i] \in Order /\ c.life \in Life /\ c.life.ev = "NoEvent"
  BY LInvFacts, EventParts DEF Change
<1>2. \A o \in {orders[i], logged[i]} :
        /\ Apply(o, c).exec = o.exec /\ Apply(o, c).qty = o.qty /\ Apply(o, c).leaves = o.leaves
        /\ Working(Apply(o, c)) => Working(o)
  BY <1>1, ApplyMeans DEF OwnEvents
<1> QED
  BY <1>2 DEF Took, Whole

\* A listed row gives the order its quantities.
LEMMA OverlaySays ==
  ASSUME NEW o \in Order, NEW r \in Row, Listed(r)
  PROVE  Overlay(o, r) \in Order /\ Overlay(o, r).exec = r.exec /\ Overlay(o, r).qty = r.qty
<1>1. Overlay(o, r) \in Order
  BY OverlayType
<1>2. Overlay(o, r).exec = r.exec /\ Overlay(o, r).qty = r.qty
  BY DEF Overlay, Order
<1> QED BY <1>1, <1>2

\* What the core does to one order with the head of the inbox.
LEMMA LearnsMeans ==
  ASSUME LInv, NEW i \in Orders, NEW m \in Msgs, Learns(i, m), posts[i] # 0
  PROVE  /\ Filled(m, i) => orders'[i].exec = m.lives[i].cum /\ logged'[i].exec = m.lives[i].cum
         /\ ~Filled(m, i) => logged'[i].exec = logged[i].exec
         /\ Listing(m, i) => orders'[i].exec = m.rows[i].exec /\ orders'[i].qty = m.rows[i].qty
         /\ ~SaysExec(m, i) => orders'[i].exec = orders[i].exec
         /\ ~Resized(m, i) => logged'[i].qty = logged[i].qty
         /\ ~SaysSize(m, i) => orders'[i].qty = orders[i].qty
         /\ Resized(m, i) /\ Working(orders[i]) => orders'[i].qty = m.lives[i].qty
<1>0. /\ orders[i] \in Order /\ logged[i] \in Order /\ m.rows[i] \in Row /\ m.lives[i] \in Life
      /\ NoEvent \in Life /\ NoEvent.ev = "NoEvent"
  BY LInvFacts, LifeTypes, EventParts DEF Msgs
<1>1. ~(m.ev = "Lives" /\ Lists(m))
  BY DEF Lists
<1>2. PICK c \in Change :
        IF Lists(m) /\ Listed(m.rows[i])
        THEN /\ c.life = NoEvent
             /\ orders'[i] = Apply(Overlay(orders[i], m.rows[i]), c)
             /\ logged'[i] = Apply(logged[i], c)
        ELSE Took(i, c) /\ c.life = (IF m.ev = "Lives" THEN m.lives[i] ELSE NoEvent)
  BY DEF Learns
<1>3. CASE Listing(m, i)
  <2> DEFINE o == Overlay(orders[i], m.rows[i])
  <2>1. o \in Order /\ o.exec = m.rows[i].exec /\ o.qty = m.rows[i].qty
    <3>1. orders[i] \in Order /\ m.rows[i] \in Row /\ Listed(m.rows[i])
      BY <1>0, <1>3 DEF Listing
    <3> QED BY <3>1, OverlaySays
  <2> HIDE DEF o
  <2>2. c.life = NoEvent /\ orders'[i] = Apply(o, c) /\ logged'[i] = Apply(logged[i], c)
    BY <1>2, <1>3 DEF Listing, o
  <2>3. Apply(o, c).exec = o.exec /\ Apply(o, c).qty = o.qty
    BY <1>0, <2>1, <2>2, ApplyMeans
  <2>4. Apply(logged[i], c).exec = logged[i].exec /\ Apply(logged[i], c).qty = logged[i].qty
    BY <1>0, <2>2, ApplyMeans
  <2> QED BY <1>1, <1>3, <2>1, <2>2, <2>3, <2>4 DEF Listing, Filled, Resized, SaysExec, SaysSize
<1>4. CASE ~Listing(m, i)
  <2>1. Took(i, c) /\ c.life = (IF m.ev = "Lives" THEN m.lives[i] ELSE NoEvent)
    BY <1>2, <1>4 DEF Listing
  <2>2. (c.life.ev = "OrderFilled" <=> Filled(m, i)) /\ (c.life.ev = "OrderReplaced" <=> Resized(m, i))
        /\ (m.ev = "Lives" => c.life = m.lives[i])
    BY <1>0, <2>1 DEF Filled, Resized
  <2> QED BY <1>4, <2>1, <2>2, TookMeans DEF SaysExec, SaysSize, Filled, Resized
<1> QED
  BY <1>3, <1>4

LEMMA EventKnows ==
  ASSUME QInv, StreamEvent, NEW i \in Orders, i \in Known' => i \in Known
  PROVE  Bounded(i)' /\ Fits(i)' /\ Knows(i)'
<1>0. LInv /\ SInv /\ Bounded(i) /\ Fits(i) /\ Knows(i) /\ Alone(i) /\ wire \in Seq(Msgs)
      /\ ready \in BOOLEAN
  BY LInvFacts DEF QInv, SInv, TInv, Truth, VenueTypeOK, CoreTypeOK
<1> DEFINE m == Head(wire)
<1>1. /\ wire # <<>> /\ m \in Msgs /\ wire' = Tail(wire) /\ up /\ up'
      /\ UNCHANGED <<venue, online, posts>> /\ OnlyCancels
      /\ ready' = After(ready, m) /\ Learns(i, m)
  BY <1>0, EventSteps
<1>2. \A S : wire \in Seq(S) => m \in S /\ wire' \in Seq(S)
  BY <1>1, HeadTailProperties
<1> HIDE DEF m
<1>3. ASSUME posts[i] = 0
      PROVE  \E c \in Change : Took(i, c) /\ c.life = NoEvent
  <2>1. m \in QuietMsgs(i)
    BY <1>0, <1>2, <1>3, LInvFacts DEF Quiet
  <2> QED BY <1>1, <2>1 DEF Learns, QuietMsgs, Lists
<1>4. posts[i] = 0 =>
        /\ orders'[i].exec = orders[i].exec /\ logged'[i].exec = logged[i].exec
        /\ orders'[i].qty = orders[i].qty /\ logged'[i].qty = logged[i].qty
        /\ (Whole(orders[i]) => Whole(orders'[i])) /\ (Whole(logged[i]) => Whole(logged'[i]))
  <2> SUFFICES ASSUME posts[i] = 0
               PROVE  /\ orders'[i].exec = orders[i].exec /\ logged'[i].exec = logged[i].exec
                      /\ orders'[i].qty = orders[i].qty /\ logged'[i].qty = logged[i].qty
                      /\ Whole(orders[i]) => Whole(orders'[i])
                      /\ Whole(logged[i]) => Whole(logged'[i])
    OBVIOUS
  <2>1. PICK c \in Change : Took(i, c) /\ c.life = NoEvent
    BY <1>3
  <2> QED BY <1>0, <2>1, TookIdle
<1>5. Bounded(i)'
  <2>1. m \in Within(i, venue[i].exec) /\ wire' \in Seq(Within(i, venue[i].exec))
    BY <1>0, <1>2 DEF Bounded
  <2>2. /\ Filled(m, i) => m.lives[i].cum <= venue[i].exec
        /\ Listing(m, i) => m.rows[i].exec <= venue[i].exec
    BY <2>1 DEF Within, SaysExec, SaidExec, Filled, Listing, Lists
  <2>3. orders'[i].exec <= venue[i].exec /\ logged'[i].exec <= venue[i].exec
    <3>1. CASE posts[i] = 0
      BY <1>0, <1>4, <3>1 DEF Bounded
    <3>2. CASE posts[i] # 0
      BY <1>0, <1>1, <2>2, <3>2, LearnsMeans DEF Bounded, SaysExec
    <3> QED BY <3>1, <3>2
  <2> QED BY <1>1, <2>1, <2>3 DEF Bounded
<1>6. Fits(i)'
  <2>1. posts'[i] = 0 => /\ orders'[i].qty = logged'[i].qty
                         /\ Whole(orders'[i]) /\ Whole(logged'[i])
    BY <1>0, <1>1, <1>4 DEF Fits
  <2>2. ASSUME NEW r \in net', r.kind \in SubmitKinds, r.id = i
        PROVE  r.qty > 0 /\ orders'[i].qty = r.qty /\ logged'[i].qty = r.qty
    <3>1. r \in net
      BY <1>1, <2>2 DEF OnlyCancels, SubmitKinds
    <3>2. posts[i] # 0 /\ venue[i].st = "none"
      BY <1>0, <2>2, <3>1, AtVenueIsSent DEF AtVenue, SubmitInFlight, Alone
    <3>3. ~Resized(m, i) /\ ~SaysSize(m, i)
      BY <1>0, <1>2, <3>2 DEF Fits, Unsaid, SaysSize
    <3>4. orders'[i].qty = orders[i].qty /\ logged'[i].qty = logged[i].qty
      BY <1>0, <1>1, <3>2, <3>3, LearnsMeans
    <3> QED BY <1>0, <2>2, <3>1, <3>4 DEF Fits
  <2> QED BY <1>0, <1>1, <1>2, <2>1, <2>2 DEF Fits
<1>7. ASSUME Sure(i)' PROVE Sure(i) /\ posts[i] # 0
  <2>1. Len(wire') = Len(wire) - 1 /\ Len(wire) \in Nat /\ Len(wire) > 0
    BY <1>0, <1>1, SeqParts
  <2>2. Len(wire') \in 0 .. Len(wire) - 1 /\ Len(wire') + 1 = Len(wire)
    BY <2>1
  <2>3. Trusted(After(ready, m), wire', Len(wire'))
    BY <1>1, <1>7 DEF Sure
  <2>4. Trusted(ready, wire, Len(wire))
    BY <1>0, <1>1, <2>2, <2>3, TrustTake DEF m
  <2>5. online /\ OpenAt(i)
    BY <1>1, <1>7 DEF Sure, OpenAt
  <2> QED BY <1>0, <2>4, <2>5, Numbers DEF Sure, OpenAt
<1>8. KnowsExec(i)'
  <2> SUFFICES ASSUME Sure(i)'
               PROVE  Current(wire', OnExec(i), ExecIs(i, venue[i].exec), HasExec(i)')
    BY <1>1 DEF KnowsExec
  <2> DEFINE S == OnExec(i)
             V == ExecIs(i, venue[i].exec)
  <2>1. Current(wire, S, V, HasExec(i)) /\ V \subseteq S
    BY <1>0, <1>7 DEF Knows, KnowsExec, OnExec, ExecIs
  <2>2. ASSUME m \in S, m \in V PROVE HasExec(i)'
    <3>1. orders'[i].exec = SaidExec(m, i)
      BY <1>0, <1>1, <1>7, <2>2, LearnsMeans DEF ExecIs, SaysExec, SaidExec, Filled, Listing, Lists
    <3> QED BY <1>1, <2>2, <3>1 DEF ExecIs, HasExec
  <2>3. ASSUME m \notin S, HasExec(i) PROVE HasExec(i)'
    <3>1. orders'[i].exec = orders[i].exec
      BY <1>0, <1>1, <1>7, <2>3, LearnsMeans DEF OnExec
    <3> QED BY <1>1, <2>3, <3>1 DEF HasExec
  <2> HIDE DEF S, V
  <2>4. Current(Tail(wire), S, V, HasExec(i)')
    BY <1>0, <1>1, <2>1, <2>2, <2>3, CurrentTake DEF m
  <2> QED BY <1>1, <2>4 DEF S, V
<1>9. ASSUME i \in Known' PROVE KnowsSize(i)'
  <2> SUFFICES ASSUME Sure(i)'
               PROVE  Current(wire', OnSize(i), SizeIs(i, venue[i].qty), HasSize(i)')
    BY <1>1 DEF KnowsSize
  <2> DEFINE S == OnSize(i)
             V == SizeIs(i, venue[i].qty)
  <2>1. Current(wire, S, V, HasSize(i)) /\ V \subseteq S
    BY <1>0, <1>7, <1>9 DEF Knows, KnowsSize, OnSize, SizeIs
  <2>2. ASSUME m \in S, m \in V PROVE HasSize(i)'
    <3>1. Working(orders[i])
      <4>1. AtVenue(i) /\ AtBroker(i)
        BY <1>7 DEF Sure, AtVenue, AtBroker, OpenAt
      <4>2. Accepted(i) /\ Undone(i)
        BY <1>0, <1>9, <4>1, KnownOrders DEF SInv, TInv, Truth, Stands, Afoot, Undone
      <4> QED BY <1>0, <1>7, <4>2, StandsWorks
    <3>2. orders'[i].qty = SaidSize(m, i)
      BY <1>0, <1>1, <1>7, <2>2, <3>1, LearnsMeans
         DEF SizeIs, SaysSize, SaidSize, Resized, Listing, Lists
    <3> QED BY <1>1, <2>2, <3>2 DEF SizeIs, HasSize
  <2>3. ASSUME m \notin S, HasSize(i) PROVE HasSize(i)'
    <3>1. orders'[i].qty = orders[i].qty
      BY <1>0, <1>1, <1>7, <2>3, LearnsMeans DEF OnSize
    <3> QED BY <1>1, <2>3, <3>1 DEF HasSize
  <2> HIDE DEF S, V
  <2>4. Current(Tail(wire), S, V, HasSize(i)')
    BY <1>0, <1>1, <2>1, <2>2, <2>3, CurrentTake DEF m
  <2> QED BY <1>1, <2>4 DEF S, V
<1> QED
  BY <1>5, <1>6, <1>8, <1>9 DEF Knows


\* What a restart makes of the log and of a row of the broker's list.
LEMMA RestoredMeans ==
  ASSUME LInv, NEW i \in Orders, NEW row \in Row, Restored(i, row)
  PROVE  /\ logged'[i].exec = logged[i].exec /\ logged'[i].qty = logged[i].qty
         /\ Whole(logged[i]) => Whole(logged'[i])
         /\ ~Listed(row) => /\ orders'[i].exec = logged[i].exec /\ orders'[i].qty = logged[i].qty
                            /\ Whole(logged[i]) => Whole(orders'[i])
         /\ Listed(row) => orders'[i].exec = row.exec /\ orders'[i].qty = row.qty
<1>1. PICK a \in Action, h \in Held :
        /\ orders'[i] = [Overlay(logged[i], row) EXCEPT !.action = a, !.held = h]
        /\ logged'[i] = [logged[i] EXCEPT !.action = a, !.held = h]
  BY DEF Restored
<1>2. logged[i] \in Order /\ Overlay(logged[i], row) \in Order
  BY LInvFacts, OverlayType
<1>3. /\ logged'[i].status = logged[i].status /\ logged'[i].exec = logged[i].exec
      /\ logged'[i].qty = logged[i].qty /\ logged'[i].leaves = logged[i].leaves
  BY <1>1, <1>2 DEF Order
<1>4. ASSUME ~Listed(row)
      PROVE  /\ orders'[i].status = logged[i].status /\ orders'[i].exec = logged[i].exec
             /\ orders'[i].qty = logged[i].qty /\ orders'[i].leaves = logged[i].leaves
  BY <1>1, <1>2, <1>4 DEF Order, Overlay
<1>5. ASSUME Listed(row) PROVE orders'[i].exec = row.exec /\ orders'[i].qty = row.qty
  <2>1. Overlay(logged[i], row).exec = row.exec /\ Overlay(logged[i], row).qty = row.qty
    BY <1>2, <1>5, OverlayFacts
  <2> QED BY <1>1, <1>2, <2>1 DEF Order
<1> QED
  BY <1>3, <1>4, <1>5 DEF Whole, Working

\* A process that ends trusts nothing, and the stream is off.
LEMMA ProcessDown ==
  ASSUME Process
  PROVE  ~up' => ~ready' /\ ~online'
<1>1. CASE Crash
  BY <1>1 DEF Crash, MemoryLost, ProcessDies
<1>2. CASE ShutdownEngine
  BY <1>2 DEF ShutdownEngine, MemoryLost, ProcessDies
<1>3. ASSUME NEW ok \in BOOLEAN, Recover(ok) PROVE up'
  BY <1>3 DEF Recover
<1> QED
  BY <1>1, <1>2, <1>3 DEF Process

LEMMA ProcessKnows ==
  ASSUME QInv, Process, NEW i \in Orders, i \in Known' => i \in Known
  PROVE  Bounded(i)' /\ Fits(i)' /\ Knows(i)'
<1>0. /\ LInv /\ VenueTypeOK /\ Alone(i) /\ Down /\ Bounded(i) /\ Fits(i) /\ Knows(i)
  BY LInvFacts DEF QInv, SInv, TInv, Truth
<1>1. CASE Dies
  <2>1. /\ UNCHANGED <<venue, posts>> /\ wire' = <<>> /\ ~up' /\ ~online'
        /\ \A S : wire' \in Seq(S)
    BY <1>1 DEF Dies
  <2>2. /\ orders'[i].exec \in {orders[i].exec, logged[i].exec} /\ logged'[i].exec = logged[i].exec
        /\ orders'[i].qty \in {orders[i].qty, logged[i].qty} /\ logged'[i].qty = logged[i].qty
        /\ posts[i] = 0 => Whole(orders'[i]) /\ Whole(logged'[i])
    BY <1>0, <1>1, TookIdle DEF Dies, Fits
  <2>3. ASSUME NEW r \in net', r.kind \in SubmitKinds, r.id = i
        PROVE  r.qty > 0 /\ orders[i].qty = r.qty /\ logged[i].qty = r.qty
    <3>1. PICK s \in net : r.kind = s.kind /\ r.id = s.id /\ r.qty = s.qty
      BY <1>1, <2>3 DEF Dies, SubmitKinds
    <3> QED BY <1>0, <2>3, <3>1 DEF Fits
  <2>4. Bounded(i)'
    BY <1>0, <2>1, <2>2 DEF Bounded
  <2>5. Fits(i)'
    BY <1>0, <2>1, <2>2, <2>3 DEF Fits
  <2>6. Knows(i)'
    BY <2>1 DEF Knows, KnowsExec, KnowsSize, Sure
  <2> QED BY <2>4, <2>5, <2>6
<1>2. CASE Restarts
  <2>1. UNCHANGED <<venue, posts, wire, online>> /\ ~up /\ up' /\ OnlyCancels
    BY <1>2 DEF Restarts
  <2>2. PICK row \in Row : /\ Restored(i, row)
                           /\ Listed(row) => /\ OpenAt(i) /\ row.exec = venue[i].exec
                                             /\ row.qty = venue[i].qty
    <3>1. PICK rows \in Readings \cup {NoRows} : Restored(i, rows[i])
      BY <1>2 DEF Restarts
    <3>2. rows \in [Orders -> Row]
      BY <1>0, <3>1, RowsType
    <3>3. rows[i] \in Row
      BY <3>2
    <3>4. ~Listed(NoRow) /\ NoRows[i] = NoRow
      BY DEF Listed, NoRow, NoRows
    <3>5. Listed(rows[i]) => /\ OpenAt(i) /\ rows[i].exec = venue[i].exec
                             /\ rows[i].qty = venue[i].qty
      BY <3>1, <3>4, ReadingsTell
    <3> QED BY <3>1, <3>3, <3>5
  <2>4. OpenAt(i) => posts[i] # 0 /\ ~SubmitInFlight(i)
    BY <1>0, Numbers DEF OpenAt, Alone
  <2>5. Bounded(i)'
    <3>1. logged[i].exec <= venue[i].exec /\ venue[i].exec \in Nat
      BY <1>0, Numbers DEF Bounded
    <3>2. orders'[i].exec <= venue[i].exec /\ logged'[i].exec <= venue[i].exec
      BY <1>0, <2>2, <3>1, RestoredMeans
    <3> QED BY <1>0, <2>1, <3>2 DEF Bounded
  <2>6. Fits(i)'
    <3>1. ASSUME posts[i] = 0
          PROVE  orders'[i].qty = logged'[i].qty /\ Whole(orders'[i]) /\ Whole(logged'[i])
      BY <1>0, <2>2, <2>4, <3>1, RestoredMeans DEF Fits
    <3>2. ASSUME NEW r \in net', r.kind \in SubmitKinds, r.id = i
          PROVE  r.qty > 0 /\ orders'[i].qty = r.qty /\ logged'[i].qty = r.qty
      <4>1. r \in net /\ SubmitInFlight(i)
        BY <2>1, <3>2 DEF OnlyCancels, SubmitInFlight, SubmitKinds
      <4> QED BY <1>0, <2>2, <2>4, <3>2, <4>1, RestoredMeans DEF Fits
    <3> QED BY <1>0, <2>1, <3>1, <3>2 DEF Fits
  <2>7. ASSUME Sure(i)' PROVE Sure(i) /\ OpenAt(i)
    <3>1. online /\ OpenAt(i) /\ Trusted(ready', wire, Len(wire))
      BY <2>1, <2>7 DEF Sure, OpenAt
    <3>2. ~ready /\ Broken(wire)
      BY <1>0, <2>1, <3>1 DEF Down
    <3>3. Trusted(FALSE, wire, Len(wire))
      BY <3>1, <3>2, TrustWeak DEF Broken
    <3> QED BY <3>1, <3>3, TrustWeak DEF Sure
  <2>8. KnowsExec(i)'
    <3> SUFFICES ASSUME Sure(i)'
                 PROVE  Current(wire, OnExec(i), ExecIs(i, venue[i].exec), HasExec(i))'
      BY DEF KnowsExec
    <3>1. Current(wire, OnExec(i), ExecIs(i, venue[i].exec), HasExec(i)) /\ OpenAt(i)
      BY <1>0, <2>7 DEF Knows, KnowsExec
    <3>2. HasExec(i) => HasExec(i)'
      <4>1. /\ logged[i].exec \in Nat /\ venue[i].exec \in Nat /\ logged[i].exec <= venue[i].exec
        BY <1>0, Numbers DEF Bounded
      <4>2. orders'[i].exec \in {logged[i].exec, venue[i].exec}
        BY <1>0, <2>2, RestoredMeans
      <4> QED BY <2>1, <4>1, <4>2 DEF HasExec
    <3> QED BY <2>1, <3>1, <3>2 DEF Current
  <2>9. ASSUME i \in Known' PROVE KnowsSize(i)'
    <3> SUFFICES ASSUME Sure(i)'
                 PROVE  Current(wire, OnSize(i), SizeIs(i, venue[i].qty), HasSize(i))'
      BY DEF KnowsSize
    <3>1. Current(wire, OnSize(i), SizeIs(i, venue[i].qty), HasSize(i)) /\ OpenAt(i)
      BY <1>0, <2>7, <2>9 DEF Knows, KnowsSize
    <3>2. HasSize(i) => HasSize(i)'
      <4>1. orders'[i].qty \in {logged[i].qty, venue[i].qty}
        BY <1>0, <2>2, RestoredMeans
      <4> QED BY <2>1, <4>1 DEF HasSize
    <3> QED BY <2>1, <3>1, <3>2 DEF Current
  <2> QED BY <2>5, <2>6, <2>8, <2>9 DEF Knows
<1> QED
  BY <1>0, <1>1, <1>2, ProcessSteps

\* What becomes of an order's row in the books of the broker.
LEMMA OutsideVenue ==
  ASSUME LInv, Outside, NEW i \in Orders
  PROVE  /\ net' \subseteq net
         /\ \/ venue'[i] = venue[i]
            \/ /\ Executes(i) /\ venue'[i].qty = venue[i].qty
               /\ venue'[i].exec = venue[i].exec + 1 /\ venue'[i].st # "none"
            \/ /\ Ends(i) /\ venue'[i].qty = venue[i].qty /\ venue'[i].exec = venue[i].exec
               /\ venue'[i].st \in {"canceled", "expired"}
            \/ \E r \in net : /\ Gets(i, r) /\ venue'[i].qty = r.qty
                              /\ venue'[i].exec = venue[i].exec /\ venue'[i].st = "open"
            \/ \E r \in net : /\ Lands(i, r) /\ venue'[i].qty = r.qty
                              /\ venue'[i].exec = 0 /\ venue'[i].st = "open"
<1>0. venue \in [Orders -> VenueOrder] /\ venue[i] \in VenueOrder
  BY LInvFacts DEF VenueTypeOK
<1>1. net' \subseteq net
  BY OutsideSteps DEF Hushed, ClosesAll, Cuts, Returns, Executes, Ends, Gets, Lands, Refuses
<1>2. CASE Hushed \/ ClosesAll \/ Cuts \/ Returns
  BY <1>1, <1>2 DEF Hushed, ClosesAll, Cuts, Returns
<1>3. ASSUME NEW j \in Orders, i # j,
             \/ Executes(j) \/ Ends(j)
             \/ \E r \in net : Gets(j, r) \/ Lands(j, r) \/ Refuses(j, r)
      PROVE  venue'[i] = venue[i]
  BY <1>0, <1>3 DEF Executes, Ends, Gets, Lands, Refuses
<1>4. ASSUME Executes(i)
      PROVE  /\ venue'[i].qty = venue[i].qty /\ venue'[i].exec = venue[i].exec + 1
             /\ venue'[i].st # "none"
  BY <1>0, <1>4 DEF Executes, Executed, VenueOrder
<1>5. ASSUME Ends(i)
      PROVE  /\ venue'[i].qty = venue[i].qty /\ venue'[i].exec = venue[i].exec
             /\ venue'[i].st \in {"canceled", "expired"}
  <2>1. PICK s \in {"canceled", "expired"} : venue' = [venue EXCEPT ![i] = [@ EXCEPT !.st = s]]
    BY <1>5 DEF Ends
  <2> QED BY <1>0, <2>1 DEF VenueOrder
<1>6. ASSUME NEW r \in net, Gets(i, r)
      PROVE  venue'[i].qty = r.qty /\ venue'[i].exec = venue[i].exec /\ venue'[i].st = "open"
  <2>1. venue'[i] = [venue[i] EXCEPT !.qty = r.qty] /\ venue[i].st = "open"
    BY <1>0, <1>6 DEF Gets, OpenAt
  <2> QED BY <1>0, <2>1 DEF VenueOrder
<1>7. ASSUME NEW r \in net, Lands(i, r)
      PROVE  venue'[i].qty = r.qty /\ venue'[i].exec = 0 /\ venue'[i].st = "open"
  BY <1>0, <1>7 DEF Lands, Landed
<1>8. ASSUME NEW r \in net, Refuses(i, r) PROVE venue'[i] = venue[i]
  BY <1>8 DEF Refuses
<1> QED
  BY <1>1, <1>2, <1>3, <1>4, <1>5, <1>6, <1>7, <1>8, OutsideSteps

\* What the messages put into the inbox say of an order's fills and size.
LEMMA UtteredSays ==
  ASSUME LInv, NEW i \in Orders, Alone(i), NEW m, Uttered(m)
  PROVE  /\ SaysExec(m, i) => /\ venue[i].st # "none"
                              /\ \/ SaidExec(m, i) = venue[i].exec
                                 \/ Executes(i) /\ SaidExec(m, i) = venue[i].exec + 1
         /\ SaysSize(m, i) => venue[i].st # "none"
<1>0. VenueTypeOK /\ venue[i].exec \in Nat /\ seenQty[i] \in Nat
  BY LInvFacts, Numbers, QtyAssumption DEF VenueTypeOK, Qtys
<1>1. ~Listed(NoRow)
  BY DEF Listed, NoRow
<1>2. CASE m.lives[i] = NoEvent /\ m.rows[i] = NoRow
  BY <1>1, <1>2, EventParts DEF SaysExec, SaysSize, Filled, Resized, Listing
<1>3. CASE /\ m.ev = "BrokerOpenOrders" /\ m.lives[i] = NoEvent
           /\ ~OpenAt(i) => m.rows[i] = NoRow
           /\ OpenAt(i) => m.rows[i].exec = venue[i].exec
  BY <1>1, <1>3, EventParts DEF SaysExec, SaysSize, SaidExec, Filled, Resized, Listing, OpenAt
<1>4. ASSUME m.rows[i] = NoRow, m.lives[i] \in {MissedFills[i], MissedEnds[i]}
      PROVE  /\ SaysExec(m, i) => venue[i].st # "none" /\ SaidExec(m, i) = venue[i].exec
             /\ ~SaysSize(m, i)
  <2>1. /\ MissedEnds[i].ev \notin {"OrderFilled", "OrderReplaced"}
        /\ MissedFills[i].ev # "OrderReplaced"
        /\ MissedFills[i].ev = "OrderFilled" =>
             MissedFills[i].cum = venue[i].exec /\ venue[i].exec > seenQty[i]
    BY EventParts DEF MissedFills, MissedEnds
  <2>2. venue[i].exec > seenQty[i] => venue[i].st # "none"
    BY <1>0 DEF Alone
  <2> QED BY <1>1, <1>4, <2>1, <2>2 DEF SaysExec, SaysSize, SaidExec, Filled, Resized, Listing
<1>5. ASSUME m.rows[i] = NoRow, Befalls(i, m.lives[i])
      PROVE  /\ SaysExec(m, i) => Executes(i) /\ SaidExec(m, i) = venue[i].exec + 1
             /\ SaysExec(m, i) \/ SaysSize(m, i) => venue[i].st # "none"
  <2>1. \/ /\ Executes(i) /\ m.lives[i].ev = "OrderFilled" /\ m.lives[i].cum = venue[i].exec + 1
        \/ m.lives[i].ev \in {"OrderCanceled", "OrderExpired", "OrderAccepted", "OrderRejected"}
        \/ m.lives[i].ev = "OrderReplaced" /\ \E r \in net : Gets(i, r)
    BY <1>5, EventParts DEF Befalls
  <2>2. Executes(i) \/ (\E r \in net : Gets(i, r)) => venue[i].st # "none"
    BY DEF Executes, Gets, OpenAt
  <2> QED BY <1>1, <1>5, <2>1, <2>2 DEF SaysExec, SaysSize, SaidExec, Filled, Resized, Listing
<1> QED
  BY <1>0, <1>2, <1>3, <1>4, <1>5, UtteredParts

\* A step outside the core keeps the bounds and the sizes.
LEMMA OutsideFits ==
  ASSUME LInv, Outside, NEW i \in Orders, Alone(i), Bounded(i), Fits(i)
  PROVE  Bounded(i)' /\ Fits(i)'
<1>0. UNCHANGED <<orders, logged, posts>>
  BY DEF Outside, coreVars, bookVars
<1>1. net' \subseteq net /\ venue[i].exec \in Nat
  BY OutsideVenue, Numbers
<1>2. venue'[i].exec \in Nat /\ venue[i].exec <= venue'[i].exec
      /\ (Executes(i) => venue'[i].exec = venue[i].exec + 1)
  <2>1. ASSUME Executes(i) PROVE venue'[i].exec = venue[i].exec + 1
    <3>1. venue \in [Orders -> VenueOrder] /\ venue[i] \in VenueOrder
      BY LInvFacts DEF VenueTypeOK
    <3> QED BY <2>1, <3>1 DEF Executes, Executed, VenueOrder
  <2>2. (\E r \in net : Lands(i, r)) => venue[i].exec = 0
    BY DEF Lands, Alone
  <2> QED BY <1>1, <2>1, <2>2, OutsideVenue
<1>3. Bounded(i)'
  <2>1. orders[i].exec \in Nat /\ logged[i].exec \in Nat
    BY Numbers
  <2>2. wire \in Seq(Within(i, venue'[i].exec))
    <3> DEFINE S == Within(i, venue[i].exec)
               T == Within(i, venue'[i].exec)
    <3>1. wire \in Seq(S)
      BY DEF Bounded
    <3>2. \A l \in 1 .. Len(wire) : wire[l] \in T
      <4>1. ASSUME NEW l \in 1 .. Len(wire) PROVE wire[l] \in T
        <5>1. wire[l] \in S
          BY <3>1, <4>1
        <5>2. SaysExec(wire[l], i) => SaidExec(wire[l], i) \in Nat
          <6>1. wire[l] \in Msgs
            BY <5>1 DEF Within
          <6>2. wire[l].lives[i] \in Life /\ wire[l].rows[i] \in Row
            BY <6>1 DEF Msgs
          <6> QED BY <6>2, QtyAssumption DEF SaidExec, Life, Row, Qtys
        <5>3. SaysExec(wire[l], i) => SaidExec(wire[l], i) <= venue[i].exec
          BY <5>1 DEF Within
        <5>4. SaysExec(wire[l], i) => SaidExec(wire[l], i) <= venue'[i].exec
          BY <1>1, <1>2, <5>2, <5>3
        <5> QED BY <5>1, <5>4 DEF Within
      <4> QED BY <4>1
    <3> HIDE DEF S, T
    <3>3. wire \in Seq(T)
      BY <3>1, <3>2, SeqOfParts
    <3> QED BY <3>3 DEF T
  <2>3. ASSUME NEW m, Uttered(m) PROVE m \in Within(i, venue'[i].exec)
    <3>1. m \in Msgs
      BY <2>3 DEF Uttered
    <3> QED BY <1>1, <1>2, <2>3, <3>1, UtteredSays DEF Within
  <2>4. wire' \in Seq(Within(i, venue'[i].exec))
    BY <2>2, <2>3, OutsidePuts
  <2> QED BY <1>0, <1>1, <1>2, <2>1, <2>4 DEF Bounded
<1>4. venue'[i].st # "none" => venue'[i].qty > 0
  <2>1. ASSUME NEW r \in net, Gets(i, r) PROVE r.qty > 0
    <3>1. r.qty > venue[i].exec /\ r.qty \in Nat
      BY <2>1, LInvFacts, QtyAssumption DEF Gets, VenueTypeOK, Requests, Qtys
    <3> QED BY <1>1, <3>1
  <2>2. ASSUME NEW r \in net, Lands(i, r) PROVE r.qty > 0
    BY <2>2 DEF Lands, Fits
  <2>3. Executes(i) \/ Ends(i) => venue[i].st # "none"
    BY DEF Executes, Ends, OpenAt
  <2> QED BY <2>1, <2>2, <2>3, OutsideVenue DEF Fits
<1>5. ASSUME venue'[i].st = "none" PROVE wire' \in Seq(Unsaid(i))
  <2>1. venue[i].st = "none"
    BY <1>5, OutsideVenue
  <2>2. ASSUME NEW m, Uttered(m) PROVE m \in Unsaid(i)
    BY <2>1, <2>2, UtteredSays DEF Unsaid, Uttered
  <2> QED BY <2>1, <2>2, OutsidePuts DEF Fits
<1> QED
  BY <1>0, <1>1, <1>3, <1>4, <1>5 DEF Fits

\* What the inbox w still says of an order's fills and size, if it is trusted:
\* v and q, where b and c tell whether the core has them already.
Tellings(w, i, v, b, q, c) ==
  Trusted(ready, w, Len(w)) =>
    /\ Current(w, OnExec(i), ExecIs(i, v), b)
    /\ i \in Known' => Current(w, OnSize(i), SizeIs(i, q), c)

LEMMA KnowsTelling ==
  ASSUME NEW i \in Orders, i \in Known' => i \in Known
  PROVE  /\ Knows(i) /\ online /\ OpenAt(i) =>
              Tellings(wire, i, venue[i].exec, HasExec(i), venue[i].qty, HasSize(i))
         /\ UNCHANGED ready /\ (online' /\ OpenAt(i)' =>
              Tellings(wire', i, venue'[i].exec, HasExec(i)', venue'[i].qty, HasSize(i)')) => Knows(i)'
<1>1. Knows(i) /\ online /\ OpenAt(i) =>
        Tellings(wire, i, venue[i].exec, HasExec(i), venue[i].qty, HasSize(i))
  BY DEF Knows, KnowsExec, KnowsSize, Sure, Tellings
<1>2. ASSUME UNCHANGED ready,
             online' /\ OpenAt(i)' =>
               Tellings(wire', i, venue'[i].exec, HasExec(i)', venue'[i].qty, HasSize(i)')
      PROVE  Knows(i)'
  <2>1. ASSUME Sure(i)'
        PROVE  /\ Current(wire, OnExec(i), ExecIs(i, venue[i].exec), HasExec(i))'
               /\ i \in Known' => Current(wire, OnSize(i), SizeIs(i, venue[i].qty), HasSize(i))'
    <3>1. online' /\ OpenAt(i)' /\ Trusted(ready, wire', Len(wire'))
      BY <1>2, <2>1 DEF Sure, Trusted
    <3>2. /\ Current(wire', OnExec(i), ExecIs(i, venue'[i].exec), HasExec(i)')
          /\ i \in Known' => Current(wire', OnSize(i), SizeIs(i, venue'[i].qty), HasSize(i)')
      BY <1>2, <3>1 DEF Tellings
    <3> QED BY <3>2 DEF Current
  <2> QED BY <2>1 DEF Knows, KnowsExec, KnowsSize
<1> QED
  BY <1>1, <1>2

\* A message that neither breaks the stream nor lists keeps what was said, or
\* says it anew.
LEMMA TellingPut ==
  ASSUME NEW i \in Orders, NEW w \in Seq(Msgs), NEW m \in Msgs, ~Breaks(m), ~Lists(m),
         NEW v, NEW b, NEW q, NEW c, Tellings(w, i, v, b, q, c),
         NEW v2, NEW b2, NEW q2, NEW c2,
         \/ m \in ExecIs(i, v2)
         \/ ~SaysExec(m, i) /\ v2 = v /\ (b => b2),
         \/ m \in SizeIs(i, q2)
         \/ ~SaysSize(m, i) /\ q2 = q /\ (c => c2)
  PROVE  Tellings(Append(w, m), i, v2, b2, q2, c2)
<1>1. Len(Append(w, m)) = Len(w) + 1
  BY AppendProperties
<1>2. Trusted(ready, Append(w, m), Len(w) + 1) => Trusted(ready, w, Len(w))
  BY TrustPut
<1>3. Current(w, OnExec(i), ExecIs(i, v), b) => Current(Append(w, m), OnExec(i), ExecIs(i, v2), b2)
  <2>1. CASE m \in ExecIs(i, v2)
    BY <2>1, CurrentPut
  <2>2. CASE ~SaysExec(m, i) /\ v2 = v /\ (b => b2)
    <3>1. m \notin OnExec(i)
      BY <2>2 DEF OnExec
    <3> QED BY <2>2, <3>1, CurrentPut DEF Current
  <2> QED BY <2>1, <2>2
<1>4. Current(w, OnSize(i), SizeIs(i, q), c) => Current(Append(w, m), OnSize(i), SizeIs(i, q2), c2)
  <2>1. CASE m \in SizeIs(i, q2)
    BY <2>1, CurrentPut
  <2>2. CASE ~SaysSize(m, i) /\ q2 = q /\ (c => c2)
    <3>1. m \notin OnSize(i)
      BY <2>2 DEF OnSize
    <3> QED BY <2>2, <3>1, CurrentPut DEF Current
  <2> QED BY <2>1, <2>2
<1> QED
  BY <1>1, <1>2, <1>3, <1>4 DEF Tellings

\* What the messages of one order, and of the position, say.
LEMMA FrameSays ==
  ASSUME NEW i \in Orders
  PROVE  /\ \A q \in Int : /\ PositionMsg(q) \in Msgs /\ ~Breaks(PositionMsg(q)) /\ ~Lists(PositionMsg(q))
                           /\ ~SaysExec(PositionMsg(q), i) /\ ~SaysSize(PositionMsg(q), i)
         /\ \A j \in Orders, e \in Life :
              /\ LifeMsg(j, e) \in Msgs /\ ~Breaks(LifeMsg(j, e)) /\ ~Lists(LifeMsg(j, e))
              /\ SaysExec(LifeMsg(j, e), i) <=> i = j /\ e.ev = "OrderFilled"
              /\ SaysSize(LifeMsg(j, e), i) <=> i = j /\ e.ev = "OrderReplaced"
              /\ i = j /\ e.ev = "OrderFilled" => SaidExec(LifeMsg(j, e), i) = e.cum
              /\ i = j /\ e.ev = "OrderReplaced" => SaidSize(LifeMsg(j, e), i) = e.qty
<1>1. ASSUME NEW q \in Int
      PROVE  /\ PositionMsg(q) \in Msgs /\ ~Breaks(PositionMsg(q)) /\ ~Lists(PositionMsg(q))
             /\ ~SaysExec(PositionMsg(q), i) /\ ~SaysSize(PositionMsg(q), i)
  <2>1. PositionMsg(q).ev = "BrokerPosition"
    BY DEF PositionMsg, Msg
  <2> QED BY <2>1, MsgParts DEF Breaks, Lists, SaysExec, SaysSize, Filled, Resized, Listing
<1>2. ASSUME NEW j \in Orders, NEW e \in Life
      PROVE  /\ LifeMsg(j, e) \in Msgs /\ ~Breaks(LifeMsg(j, e)) /\ ~Lists(LifeMsg(j, e))
             /\ SaysExec(LifeMsg(j, e), i) <=> i = j /\ e.ev = "OrderFilled"
             /\ SaysSize(LifeMsg(j, e), i) <=> i = j /\ e.ev = "OrderReplaced"
             /\ i = j /\ e.ev = "OrderFilled" => SaidExec(LifeMsg(j, e), i) = e.cum
             /\ i = j /\ e.ev = "OrderReplaced" => SaidSize(LifeMsg(j, e), i) = e.qty
  <2>1. /\ LifeMsg(j, e).ev = "Lives"
        /\ LifeMsg(j, e).lives[i] = IF i = j THEN e ELSE NoEvent
    BY DEF LifeMsg, LivesMsg, Msg, NoLives
  <2>2. LifeMsg(j, e) \in Msgs
    BY MsgParts
  <2> QED BY <2>1, <2>2, EventParts
          DEF Breaks, Lists, SaysExec, SaysSize, SaidExec, SaidSize, Filled, Resized, Listing
<1> QED
  BY <1>1, <1>2

LEMMA OutsideKnows ==
  ASSUME LInv, Outside, NEW i \in Orders, Alone(i), Bounded(i), Fits(i), Knows(i),
         i \in Known' => i \in Known
  PROVE  Knows(i)'
<1>0. /\ VenueTypeOK /\ wire \in Seq(Msgs) /\ shares \in Int
      /\ orders[i].exec \in Nat /\ orders[i].qty \in Nat /\ logged[i].qty \in Nat
      /\ venue[i].exec \in Nat /\ venue[i].qty \in Nat
      /\ venue[i].qty <= MaxQty
  BY LInvFacts, Numbers DEF VenueTypeOK
<1>1. UNCHANGED <<orders, logged, posts, ready, up>>
  BY DEF Outside, coreVars, bookVars
<1>2. /\ venue'[i].exec = venue[i].exec => (HasExec(i)' <=> HasExec(i))
      /\ venue'[i].qty = venue[i].qty => (HasSize(i)' <=> HasSize(i))
  BY <1>1 DEF HasExec, HasSize
<1> DEFINE T(w) == Tellings(w, i, venue[i].exec, HasExec(i), venue[i].qty, HasSize(i))
           N(w) == Tellings(w, i, venue'[i].exec, HasExec(i)', venue'[i].qty, HasSize(i)')
<1>3. online /\ OpenAt(i) => T(wire)
  BY KnowsTelling
<1>4. SUFFICES ASSUME online', OpenAt(i)' PROVE N(wire')
  BY <1>1, KnowsTelling
<1>5. venue'[i] = venue[i] => (OpenAt(i)' <=> OpenAt(i)) /\ \A w : T(w) => N(w)
  <2>1. ASSUME venue'[i] = venue[i], NEW w, T(w) PROVE N(w)
    BY <1>1, <2>1 DEF Tellings, HasExec, HasSize, Current
  <2> QED BY <2>1 DEF OpenAt
<1> HIDE DEF T, N
<1>6. ASSUME NEW m \in Msgs, ~Breaks(m), ~Lists(m), ~SaysExec(m, i), ~SaysSize(m, i),
             NEW w \in Seq(Msgs), N(w)
      PROVE  N(Append(w, m))
  BY <1>6, TellingPut DEF N
<1>7. CASE Hushed
  BY <1>3, <1>4, <1>5, <1>7 DEF Hushed
<1>8. CASE ClosesAll
  <2>1. N(wire)
    BY <1>3, <1>4, <1>5, <1>8 DEF ClosesAll
  <2>2. N(Append(wire, PositionMsg(0)))
    <3>1. 0 \in Int
      OBVIOUS
    <3> QED BY <1>0, <1>6, <2>1, <3>1, FrameSays
  <2> QED BY <1>8, <2>1, <2>2 DEF ClosesAll
<1>9. CASE Cuts
  <2>1. wire' = Append(wire, Msg("BrokerConnUp"))
    BY <1>4, <1>9 DEF Cuts
  <2>2. Msg("BrokerConnUp") \in Msgs /\ Breaks(Msg("BrokerConnUp"))
    BY MsgParts
  <2> DEFINE m == Msg("BrokerConnUp")
  <2> HIDE DEF m
  <2>3. ~Trusted(ready, Append(wire, m), Len(wire) + 1) /\ Len(Append(wire, m)) = Len(wire) + 1
    BY <1>0, <2>2, TrustPut, AppendProperties DEF m
  <2>4. ~Trusted(ready, wire', Len(wire'))
    BY <2>1, <2>3 DEF m
  <2> QED BY <2>4 DEF Tellings, N
<1>10. CASE Returns
  <2>1. PICK rows \in Readings : wire' = Append(Append(Recalled, Positions), OpenOrders(rows))
    BY <1>10 DEF Returns
  <2>6. UNCHANGED venue
    BY <1>10 DEF Returns
  <2>2. OpenAt(i) /\ venue[i].qty > 0
    BY <1>4, <2>6 DEF OpenAt, Fits
  <2>3. Append(Recalled, Positions) \in Seq(Msgs) /\ OpenOrders(rows) \in Msgs
    <3>1. LivesMsg(MissedFills) \in Msgs /\ LivesMsg(MissedEnds) \in Msgs
      BY <1>0, MissedTypes, MsgParts
    <3>2. Positions \in Msgs /\ OpenOrders(rows) \in Msgs
      BY <1>0, ReconcilePuts DEF Positions, OpenOrders
    <3>3. \A k \in {"StreamGap", "BrokerConnUp"} : Msg(k) \in Msgs
      BY MsgParts
    <3>4. \A w \in Seq(Msgs), m \in Msgs : Append(w, m) \in Seq(Msgs)
      BY AppendProperties
    <3>5. Returned \in Seq(Msgs)
      BY <1>0, <3>3, <3>4 DEF Returned
    <3>6. Append(Returned, Msg("StreamGap")) \in Seq(Msgs)
      BY <3>3, <3>4, <3>5
    <3>7. Append(Append(Returned, Msg("StreamGap")), LivesMsg(MissedFills)) \in Seq(Msgs)
      BY <3>1, <3>4, <3>6
    <3>8. Recalled \in Seq(Msgs)
      BY <3>1, <3>4, <3>5, <3>7 DEF Recalled
    <3> QED BY <3>2, <3>4, <3>8
  <2>4. OpenOrders(rows) \in ExecIs(i, venue[i].exec) /\ OpenOrders(rows) \in SizeIs(i, venue[i].qty)
    <3>1. OpenOrders(rows).ev = "BrokerOpenOrders" /\ OpenOrders(rows).rows = rows
      BY DEF OpenOrders, Msg
    <3>2. rows[i].qty = venue[i].qty /\ rows[i].exec = venue[i].exec
      BY <2>2, ReadingsTell
    <3> QED BY <2>2, <2>3, <3>1, <3>2
            DEF ExecIs, SizeIs, SaysExec, SaysSize, SaidExec, SaidSize, Filled, Resized, Listing,
                Lists, Listed
  <2>5. /\ Current(wire', OnExec(i), ExecIs(i, venue[i].exec), HasExec(i)')
        /\ Current(wire', OnSize(i), SizeIs(i, venue[i].qty), HasSize(i)')
    BY <2>1, <2>3, <2>4, CurrentPut
  <2> QED BY <2>5, <2>6 DEF Tellings, N
<1>11. ASSUME NEW j \in Orders, i # j,
              \/ Executes(j) \/ Ends(j)
              \/ \E r \in net : Gets(j, r) \/ Lands(j, r) \/ Refuses(j, r)
       PROVE  N(wire')
  <2>1. venue'[i] = venue[i] /\ online
    BY <1>0, <1>4, <1>11 DEF Executes, Ends, Gets, Lands, Refuses, VenueTypeOK
  <2>2. N(wire)
    BY <1>3, <1>4, <1>5, <2>1
  <2>3. \A e \in Life : N(Append(wire, LifeMsg(j, e))) /\ Append(wire, LifeMsg(j, e)) \in Seq(Msgs)
    <3>1. ASSUME NEW e \in Life
          PROVE  N(Append(wire, LifeMsg(j, e))) /\ Append(wire, LifeMsg(j, e)) \in Seq(Msgs)
      <4>1. /\ LifeMsg(j, e) \in Msgs /\ ~Breaks(LifeMsg(j, e)) /\ ~Lists(LifeMsg(j, e))
            /\ ~SaysExec(LifeMsg(j, e), i) /\ ~SaysSize(LifeMsg(j, e), i)
        BY <1>11, FrameSays
      <4> QED BY <1>0, <1>6, <2>2, <4>1, AppendProperties
    <3> QED BY <3>1
  <2>4. CASE Executes(j)
    <3> DEFINE e == FillEvent(venue[j].exec + 1, venue[j].qty - (venue[j].exec + 1))
    <3>1. venue[j].exec \in Nat /\ venue[j].qty \in Nat /\ venue[j].qty <= MaxQty
          /\ venue[j].exec < venue[j].qty
      BY <1>0, <2>4, QtyAssumption DEF VenueTypeOK, VenueOrder, Qtys, Executes
    <3>2. venue[j].exec + 1 \in Qtys /\ venue[j].qty - (venue[j].exec + 1) \in Qtys
      BY <3>1, QtyAssumption DEF Qtys
    <3>3. e \in Life
      BY <3>2, LifeTypes
    <3>4. shares' \in Int
      BY <1>0, <2>4 DEF Executes, SideSign
    <3> HIDE DEF e
    <3>5. wire' = Append(Append(wire, LifeMsg(j, e)), PositionMsg(shares'))
      BY <2>1, <2>4 DEF Executes, e
    <3> QED BY <1>6, <2>3, <3>3, <3>4, <3>5, FrameSays
  <2>5. CASE Ends(j)
    <3>1. \A k \in {"OrderCanceled", "OrderExpired"} : LifeEvent(k) \in Life
      BY LifeTypes DEF LifeKinds
    <3> QED BY <2>1, <2>3, <2>5, <3>1 DEF Ends
  <2>6. ASSUME NEW r \in net, Gets(j, r) \/ Lands(j, r) \/ Refuses(j, r) PROVE N(wire')
    <3>1. r.qty \in Qtys
      BY <1>0 DEF VenueTypeOK, Requests
    <3>2. /\ ReplaceEvent(r.qty) \in Life
          /\ LifeEvent("OrderAccepted") \in Life /\ LifeEvent("OrderRejected") \in Life
      BY <3>1, LifeTypes DEF LifeKinds
    <3> QED BY <2>1, <2>3, <2>6, <3>2 DEF Gets, Lands, Refuses
  <2> QED BY <1>11, <2>4, <2>5, <2>6
<1>12. CASE Executes(i)
  <2> DEFINE e == FillEvent(venue[i].exec + 1, venue[i].qty - (venue[i].exec + 1))
  <2>1. venue[i].exec + 1 \in Qtys /\ venue[i].qty - (venue[i].exec + 1) \in Qtys
    <3>1. venue[i].exec < venue[i].qty
      BY <1>12 DEF Executes
    <3>2. venue[i] \in VenueOrder
      BY <1>0 DEF VenueTypeOK
    <3>3. venue[i].exec \in 0 .. MaxQty /\ venue[i].qty \in 0 .. MaxQty
      BY <3>2, QtyAssumption DEF VenueOrder, Qtys
    <3>4. \A x, y \in 0 .. MaxQty : x < y => x + 1 \in 0 .. MaxQty /\ y - (x + 1) \in 0 .. MaxQty
      BY QtyAssumption
    <3> QED BY <3>1, <3>3, <3>4 DEF Qtys
  <2>2. e \in Life /\ e.ev = "OrderFilled" /\ e.cum = venue[i].exec + 1
    BY <2>1, LifeTypes, EventParts
  <2>3. venue'[i].exec = venue[i].exec + 1 /\ venue'[i].qty = venue[i].qty
    <3>1. venue[i] \in VenueOrder
      BY <1>0 DEF VenueTypeOK
    <3> QED BY <1>0, <1>12, <3>1 DEF Executes, Executed, VenueTypeOK, VenueOrder
  <2>4. shares' \in Int /\ online /\ OpenAt(i)
    BY <1>0, <1>4, <1>12 DEF Executes, SideSign
  <2> HIDE DEF e
  <2>5. wire' = Append(Append(wire, LifeMsg(i, e)), PositionMsg(shares'))
    BY <1>12, <2>4 DEF Executes, e
  <2>6. /\ LifeMsg(i, e) \in Msgs /\ ~Breaks(LifeMsg(i, e)) /\ ~Lists(LifeMsg(i, e))
        /\ LifeMsg(i, e) \in ExecIs(i, venue'[i].exec) /\ ~SaysSize(LifeMsg(i, e), i)
    BY <2>2, <2>3, FrameSays DEF ExecIs
  <2>7. N(Append(wire, LifeMsg(i, e)))
    BY <1>0, <1>2, <1>3, <2>3, <2>4, <2>6, TellingPut DEF T, N
  <2> QED BY <1>0, <1>6, <2>4, <2>5, <2>6, <2>7, FrameSays, AppendProperties
<1>13. CASE Ends(i)
  <2>1. PICK s \in {"canceled", "expired"} : venue' = [venue EXCEPT ![i] = [@ EXCEPT !.st = s]]
    BY <1>13 DEF Ends
  <2>2. venue'[i].st = s
    BY <1>0, <2>1 DEF VenueTypeOK, VenueOrder
  <2> QED BY <1>4, <2>2 DEF OpenAt
<1>14. ASSUME NEW r \in net, Gets(i, r) PROVE N(wire')
  <2>1. r.qty \in Qtys
    BY <1>0 DEF VenueTypeOK, Requests
  <2>2. ReplaceEvent(r.qty) \in Life
    BY <2>1, LifeTypes
  <2>3. venue'[i].exec = venue[i].exec /\ venue'[i].qty = r.qty
    <3>1. venue[i] \in VenueOrder
      BY <1>0 DEF VenueTypeOK
    <3>2. venue'[i] = [venue[i] EXCEPT !.qty = r.qty]
      BY <1>0, <1>14 DEF Gets, VenueTypeOK
    <3> QED BY <3>1, <3>2 DEF VenueOrder
  <2>4. online /\ OpenAt(i) /\ wire' = Append(wire, LifeMsg(i, ReplaceEvent(r.qty)))
    BY <1>4, <1>14 DEF Gets
  <2> DEFINE m == LifeMsg(i, ReplaceEvent(r.qty))
  <2>5. /\ m \in Msgs /\ ~Breaks(m) /\ ~Lists(m)
        /\ m \in SizeIs(i, venue'[i].qty) /\ ~SaysExec(m, i)
    BY <2>2, <2>3, FrameSays, EventParts DEF SizeIs
  <2> HIDE DEF m
  <2>6. T(wire)
    BY <1>3, <2>4
  <2>7. N(Append(wire, m))
    BY <1>0, <1>2, <2>3, <2>5, <2>6, TellingPut DEF T, N
  <2> QED BY <2>4, <2>7 DEF m
<1>15. ASSUME NEW r \in net, Lands(i, r) PROVE N(wire')
  <2>1. /\ venue[i].st = "none" /\ venue[i].exec = 0 /\ wire \in Seq(Unsaid(i)) /\ online
        /\ wire' = Append(wire, LifeMsg(i, LifeEvent("OrderAccepted")))
    BY <1>4, <1>15 DEF Lands, Fits, Alone
  <2>2. venue'[i].exec = 0 /\ venue'[i].qty = r.qty
    BY <1>0, <1>15 DEF Lands, Landed, VenueTypeOK
  <2>3. HasExec(i)' /\ HasSize(i)'
    <3>1. orders[i].exec <= 0
      BY <2>1 DEF Bounded
    <3>2. orders[i].qty = r.qty /\ logged[i].qty = r.qty
      BY <1>15 DEF Fits, Lands
    <3>3. orders[i].exec = 0
      BY <1>0, <3>1
    <3> QED BY <1>1, <2>2, <3>2, <3>3 DEF HasExec, HasSize
  <2>4. \A l \in 1 .. Len(wire) : wire[l] \notin OnExec(i) /\ wire[l] \notin OnSize(i)
    BY <2>1 DEF Unsaid, OnExec, OnSize
  <2>5. N(wire)
    BY <2>3, <2>4 DEF N, Tellings, Current
  <2>6. LifeEvent("OrderAccepted") \in Life
    BY LifeTypes DEF LifeKinds
  <2> DEFINE m == LifeMsg(i, LifeEvent("OrderAccepted"))
  <2>7. m \in Msgs /\ ~Breaks(m) /\ ~Lists(m) /\ ~SaysExec(m, i) /\ ~SaysSize(m, i)
    BY <2>6, FrameSays, EventParts
  <2> HIDE DEF m
  <2>8. N(Append(wire, m))
    BY <1>0, <1>6, <2>5, <2>7
  <2> QED BY <2>1, <2>8 DEF m
<1>16. ASSUME NEW r \in net, Refuses(i, r) PROVE N(wire')
  <2>1. N(wire)
    BY <1>3, <1>4, <1>5, <1>16 DEF Refuses
  <2>2. LifeEvent("OrderRejected") \in Life
    BY LifeTypes DEF LifeKinds
  <2> DEFINE m == LifeMsg(i, LifeEvent("OrderRejected"))
  <2>3. m \in Msgs /\ ~Breaks(m) /\ ~Lists(m) /\ ~SaysExec(m, i) /\ ~SaysSize(m, i)
    BY <2>2, FrameSays, EventParts
  <2> HIDE DEF m
  <2>4. N(Append(wire, m))
    BY <1>0, <1>6, <2>1, <2>3
  <2> QED BY <1>16, <2>4 DEF m, Refuses
<1> QED
  BY <1>7, <1>8, <1>9, <1>10, <1>11, <1>12, <1>13, <1>14, <1>15, <1>16, OutsideSteps

LEMMA BrokenPut ==
  ASSUME NEW w \in Seq(Msgs), NEW m \in Msgs
  PROVE  Broken(w) \/ Breaks(m) => Broken(Append(w, m))
<1>1. /\ Len(Append(w, m)) = Len(w) + 1 /\ Len(w) \in Nat
      /\ Append(w, m)[Len(w) + 1] = m
      /\ \A k \in 1 .. Len(w) : Append(w, m)[k] = w[k]
  BY AppendProperties
<1>2. ASSUME NEW k \in 1 .. Len(w), Breaks(w[k]) PROVE Broken(Append(w, m))
  <2>1. k \in 1 .. Len(Append(w, m)) /\ Append(w, m)[k] = w[k]
    BY <1>1
  <2> QED BY <1>2, <2>1 DEF Broken
<1>3. ASSUME Breaks(m) PROVE Broken(Append(w, m))
  <2>1. Len(w) + 1 \in 1 .. Len(Append(w, m))
    BY <1>1
  <2> QED BY <1>1, <1>3, <2>1 DEF Broken
<1> QED
  BY <1>2, <1>3 DEF Broken

\* While no process runs the stream comes back with a break.
LEMMA OutsideDown ==
  ASSUME LInv, Outside, Down
  PROVE  Down'
<1>0. /\ UNCHANGED <<up, ready>> /\ VenueTypeOK /\ wire \in Seq(Msgs) /\ shares \in Int
  BY LInvFacts DEF Outside, coreVars, VenueTypeOK
<1>1. \A w \in Seq(Msgs), m \in Msgs :
        Append(w, m) \in Seq(Msgs) /\ (Broken(w) \/ Breaks(m) => Broken(Append(w, m)))
  BY BrokenPut, AppendProperties
<1>2. ASSUME online, Broken(wire) PROVE Broken(wire') \/ ~online'
  <2> DEFINE S == Msgs
  <2>1. CASE Hushed
    BY <1>2, <2>1 DEF Hushed
  <2>2. CASE ClosesAll
    <3>1. PositionMsg(0) \in Msgs
      BY MsgParts
    <3> QED BY <1>0, <1>1, <1>2, <2>2, <3>1 DEF ClosesAll
  <2>3. CASE Cuts \/ Returns
    BY <1>2, <2>3 DEF Cuts, Returns
  <2>4. ASSUME NEW j \in Orders, Executes(j) PROVE Broken(wire')
    <3> DEFINE e == FillEvent(venue[j].exec + 1, venue[j].qty - (venue[j].exec + 1))
    <3>1. venue[j].exec \in Nat /\ venue[j].qty \in Nat /\ venue[j].qty <= MaxQty
          /\ venue[j].exec < venue[j].qty
      BY <1>0, <2>4, QtyAssumption DEF VenueTypeOK, VenueOrder, Qtys, Executes
    <3>2. venue[j].exec + 1 \in Qtys /\ venue[j].qty - (venue[j].exec + 1) \in Qtys
      BY <3>1, QtyAssumption DEF Qtys
    <3>3. e \in Life
      BY <3>2, LifeTypes
    <3>4. shares' \in Int
      BY <1>0, <2>4 DEF Executes, SideSign
    <3> HIDE DEF e
    <3>5. wire' = Append(Append(wire, LifeMsg(j, e)), PositionMsg(shares'))
      BY <1>2, <2>4 DEF Executes, e
    <3>6. LifeMsg(j, e) \in Msgs /\ PositionMsg(shares') \in Msgs
      BY <3>3, <3>4, MsgParts
    <3> QED BY <1>0, <1>1, <1>2, <3>5, <3>6
  <2>5. ASSUME NEW j \in Orders, Ends(j) PROVE Broken(wire')
    <3>1. \A k \in {"OrderCanceled", "OrderExpired"} : LifeMsg(j, LifeEvent(k)) \in Msgs
      BY LifeTypes, MsgParts DEF LifeKinds
    <3> QED BY <1>0, <1>1, <1>2, <2>5, <3>1 DEF Ends
  <2>6. ASSUME NEW j \in Orders, NEW r \in net, Gets(j, r) \/ Lands(j, r) \/ Refuses(j, r)
        PROVE  Broken(wire')
    <3>1. r.qty \in Qtys
      BY <1>0 DEF VenueTypeOK, Requests
    <3>2. /\ ReplaceEvent(r.qty) \in Life
          /\ LifeEvent("OrderAccepted") \in Life /\ LifeEvent("OrderRejected") \in Life
      BY <3>1, LifeTypes DEF LifeKinds
    <3> QED BY <1>0, <1>1, <1>2, <2>6, <3>2, MsgParts DEF Gets, Lands, Refuses
  <2> QED BY <2>1, <2>2, <2>3, <2>4, <2>5, <2>6, OutsideSteps
<1>3. ASSUME ~online, online' PROVE Broken(wire')
  <2>1. Cuts \/ Returns
    BY <1>3, OutsideSteps DEF Hushed, ClosesAll, Executes, Ends, Gets, Lands, Refuses
  <2>2. Msg("BrokerConnUp") \in Msgs /\ Breaks(Msg("BrokerConnUp")) /\ Msg("StreamGap") \in Msgs
    BY MsgParts
  <2>3. Returned \in Seq(Msgs) /\ Broken(Returned)
    BY <1>0, <1>1, <2>2 DEF Returned
  <2>4. CASE Cuts
    BY <1>3, <2>3, <2>4 DEF Cuts, Returned
  <2>5. CASE Returns
    <3>1. LivesMsg(MissedFills) \in Msgs /\ LivesMsg(MissedEnds) \in Msgs
      BY <1>0, MissedTypes, MsgParts
    <3>0. PICK rows \in Readings : wire' = Append(Append(Recalled, Positions), OpenOrders(rows))
      BY <2>5 DEF Returns
    <3>2. Positions \in Msgs /\ OpenOrders(rows) \in Msgs
      BY <1>0, ReconcilePuts DEF Positions, OpenOrders
    <3>3. Append(Returned, Msg("StreamGap")) \in Seq(Msgs) /\ Broken(Append(Returned, Msg("StreamGap")))
      BY <1>1, <2>2, <2>3
    <3>4. /\ Append(Append(Returned, Msg("StreamGap")), LivesMsg(MissedFills)) \in Seq(Msgs)
          /\ Broken(Append(Append(Returned, Msg("StreamGap")), LivesMsg(MissedFills)))
      BY <1>1, <3>1, <3>3
    <3>5. Recalled \in Seq(Msgs) /\ Broken(Recalled)
      BY <1>1, <2>3, <3>1, <3>4 DEF Recalled
    <3>6. Append(Recalled, Positions) \in Seq(Msgs) /\ Broken(Append(Recalled, Positions))
      BY <1>1, <3>2, <3>5
    <3> QED BY <1>1, <3>0, <3>2, <3>6
  <2> QED BY <2>1, <2>4, <2>5
<1> QED
  BY <1>0, <1>2, <1>3 DEF Down

\* Every step keeps what the core knows of each order, the idle step included.
LEMMA NextKnows ==
  ASSUME QInv, "flatten" \notin Commands, [Next]_vars
  PROVE  Down' /\ \A i \in Orders : Bounded(i)' /\ Fits(i)' /\ Knows(i)'
<1>0. LInv /\ NoLateWord /\ Truth /\ Down /\ Moves
      /\ \A i \in Orders : Alone(i) /\ Bounded(i) /\ Fits(i) /\ Knows(i)
  BY NextMoves DEF QInv, SInv, TInv, Rest, Truth
<1>k. \A i : i \in Known' => i \in Known
  BY KnownBefore
<1>1. CASE UNCHANGED vars
  <2>1. UNCHANGED <<venue, net, wire, online, orders, logged, up, ready, posts>>
    BY <1>1 DEF vars, venueVars, brokerVars, adapterVars, coreVars, bookVars
  <2>2. Down'
    BY <1>0, <2>1 DEF Down, Broken
  <2>3. ASSUME NEW i \in Orders PROVE Bounded(i)' /\ Fits(i)' /\ Knows(i)'
    <3>1. Bounded(i)' /\ Fits(i)'
      BY <1>0, <2>1 DEF Bounded, Fits, Whole
    <3>2. KnowsExec(i)'
      BY <1>0, <2>1 DEF Knows, KnowsExec, Sure, Trusted, Current, HasExec, OpenAt
    <3>3. i \in Known' => KnowsSize(i)'
      BY <1>0, <1>k, <2>1 DEF Knows, KnowsSize, Sure, Trusted, Current, HasSize, OpenAt
    <3> QED BY <3>1, <3>2, <3>3 DEF Knows
  <2> QED BY <2>2, <2>3
<1>2. CASE OwnStep
  <2>1. Does
    BY <1>0, <1>2, OwnSteps
  <2>2. UNCHANGED <<up, ready, online, wire>>
    BY <2>1 DEF Does, Quietly
  <2>3. Down'
    BY <1>0, <2>2 DEF Down, Broken
  <2> QED BY <1>0, <1>k, <2>1, <2>3, OwnKnows
<1>3. CASE StreamEvent
  <2>1. up'
    BY <1>0, <1>3, EventSteps
  <2> QED BY <1>3, <1>k, <2>1, EventKnows DEF Down
<1>4. CASE Process
  BY <1>4, <1>k, ProcessDown, ProcessKnows DEF Down
<1>5. CASE Outside
  BY <1>0, <1>k, <1>5, OutsideDown, OutsideFits, OutsideKnows
<1> QED
  BY <1>0, <1>1, <1>2, <1>3, <1>4, <1>5, StepKinds

LEMMA KnowInvariant ==
  ASSUME "flatten" \notin Commands
  PROVE  Spec => []QInv
<1> DEFINE All == Down /\ \A i \in Orders : Bounded(i) /\ Fits(i) /\ Knows(i)
<1>1. Init => All
  <2> SUFFICES ASSUME Init PROVE All
    OBVIOUS
  <2>1. /\ up /\ wire = <<>> /\ net = {} /\ venue = [i \in Orders |-> NoVenueOrder]
        /\ orders = [i \in Orders |-> NoOrder] /\ logged = [i \in Orders |-> NoOrder]
    BY DEF Init, VenueInit
  <2>2. ASSUME NEW i \in Orders PROVE Bounded(i) /\ Fits(i) /\ Knows(i)
    <3>1. /\ venue[i].st = "none" /\ venue[i].exec = 0
          /\ orders[i].exec = 0 /\ logged[i].exec = 0 /\ orders[i].qty = 0 /\ logged[i].qty = 0
          /\ orders[i].status = "NONE" /\ logged[i].status = "NONE"
      BY <2>1, <2>2 DEF NoVenueOrder, NoOrder
    <3>2. \A S : wire \in Seq(S)
      BY <2>1
    <3>3. Bounded(i) /\ Fits(i)
      BY <2>1, <3>1, <3>2 DEF Bounded, Fits, Whole, Working, WorkingStatus
    <3>4. ~OpenAt(i)
      BY <3>1 DEF OpenAt
    <3> QED BY <3>3, <3>4 DEF Knows, KnowsExec, KnowsSize, Sure
  <2> QED BY <2>1, <2>2 DEF Down
<1>2. SInv /\ SInv' /\ All /\ [Next]_vars => All'
  <2> SUFFICES ASSUME SInv, All, [Next]_vars PROVE All'
    OBVIOUS
  <2>1. QInv
    BY DEF QInv
  <2> QED BY <2>1, NextKnows
<1>3. SInv /\ All => QInv
  BY DEF QInv
<1> QED
  BY <1>1, <1>2, <1>3, StandInvariant, PTL DEF Spec

\* Once the stream is drained, an order that works at the broker, and that no
\* list has shown under an odd status, works in the core with the broker's size
\* and the broker's fills, over every drop, reconcile, crash and restart, and
\* although a submit that returns late winds the adapter's note back: the
\* messages of a reconcile, and the fills and replaces that race it, leave no
\* order behind (reconcile, ReconcileOpenOrders, foldBrokerEvent).
THEOREM OrdersSettle ==
  ASSUME "flatten" \notin Commands, "request" \notin Upsets \/ Orders \subseteq Sells
  PROVE  Spec => []SettledOrders
<1>1. QInv => SettledOrders
  <2> SUFFICES ASSUME QInv, Settled, NEW i \in Orders, i \notin misread, OpenAt(i)
               PROVE  /\ Working(orders[i])
                      /\ orders[i].qty = venue[i].qty /\ orders[i].exec = venue[i].exec
    BY DEF SettledOrders
  <2>0. i \in Known /\ i \in Legible
    BY DEF Firm, Known, Legible, QInv, SInv, Past, OpenAt
  <2>1. LInv /\ Truth /\ Stands(i) /\ Knows(i)
    BY <2>0 DEF QInv, SInv, TInv
  <2>2. up /\ ready /\ online /\ wire = <<>> /\ Len(wire) = 0
    BY DEF Settled
  <2>3. Sure(i)
    BY <2>2 DEF Sure, Trusted
  <2>4. HasExec(i) /\ HasSize(i)
    BY <2>0, <2>1, <2>2, <2>3 DEF Knows, KnowsExec, KnowsSize, Current
  <2>5. AtVenue(i) /\ AtBroker(i)
    BY DEF AtVenue, AtBroker, OpenAt
  <2>6. Accepted(i) /\ Undone(i) /\ posts[i] # 0
    BY <2>1, <2>5, AtVenueIsSent DEF Stands, Truth, Afoot, Undone
  <2> QED BY <2>1, <2>2, <2>4, <2>6, StandsWorks DEF HasExec, HasSize
<1> QED
  BY <1>1, KnowInvariant, PTL
=============================================================================
