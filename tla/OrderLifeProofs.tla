-------------------------- MODULE OrderLifeProofs --------------------------
(***************************************************************************)
(* The engine implements OrderLife, for every set of orders and every      *)
(* bound: each step moves the stage of each order as OrderLife allows.     *)
(* The second part is about when a held order may wait for a print, the    *)
(* third about the orders the core calls done, the fourth about the        *)
(* position, the last about orders that stay done.                         *)
(***************************************************************************)
EXTENDS ExecCoreProofs, SumProofs

\* Of an order never POSTed nothing outside the core can tell, so the live
\* status is the one a replay of the log gives.
Twins == \A i \in Orders : posts[i] = 0 => orders[i].status = logged[i].status
LInv == IInv /\ Twins

\* What one step may do to an order: leave it to the books (Local), take it
\* into them without a POST (Begins), or POST it (Sends).
Goes(s, t) ==
  \/ t = s
  \/ s \in WorkingStatus /\ t \in WorkingStatus \cup Over
  \/ s \in Over /\ t \in Over
Local(i) ==
  /\ posts'[i] = posts[i]
  /\ posts[i] # 0 => (AtBroker(i)' => AtBroker(i))
  /\ posts[i] = 0 => /\ orders'[i].status = logged'[i].status
                     /\ Goes(logged[i].status, logged'[i].status)
Begins(i) ==
  /\ posts[i] = 0 /\ posts'[i] = 0
  /\ logged[i].status = "NONE" /\ orders'[i].status = logged'[i].status
  /\ logged'[i].status \in Over \/ (i \in HeldIds /\ logged'[i].status \in WorkingStatus)
Sends(i) ==
  /\ posts[i] = 0 /\ posts'[i] = 1
  /\ venue'[i].st = "none" /\ SubmitInFlight(i)'
  /\ IF i \in HeldIds THEN Working(logged[i]) ELSE logged[i].status = "NONE"
Moves == \A i \in Orders : Local(i) \/ Begins(i) \/ Sends(i)

-----------------------------------------------------------------------------
(* Handlers and the status of an order never POSTed *)

\* The changes a handler makes on its own: it ends a parent or resizes it,
\* and neither accepts nor fills one.  A tame one does not even reject it.
TameEvents == {"NoEvent", "OrderCanceled", "OrderExpired", "OrderReplaced"}
Tame(c) == c.life \in Life /\ c.life.ev \in TameEvents
OwnEvents == {"NoEvent", "OrderRejected", "OrderCanceled", "OrderExpired", "OrderReplaced"}
Own(c) == c.life \in Life /\ c.life.ev \in OwnEvents

\* Folding such a change moves the status, live and replayed, alike.
LEMMA ApplyOwn ==
  ASSUME NEW o \in Order, NEW l \in Order, NEW c, Own(c), o.status = l.status
  PROVE  /\ Apply(o, c).status = Apply(l, c).status
         /\ Goes(l.status, Apply(l, c).status)
<1> USE DEF Order
<1>1. CASE o.status = "NONE"
  BY <1>1 DEF Apply, Goes
<1>2. CASE o.status # "NONE"
  <2>1. FoldLife(o, c.life) \in Order /\ FoldLife(l, c.life) \in Order
    BY FoldLifeType DEF Own
  <2>2. /\ Apply(o, c).status = FoldLife(o, c.life).status
        /\ Apply(l, c).status = FoldLife(l, c.life).status
    BY <1>2, <2>1 DEF Apply
  <2>3. /\ FoldLife(o, c.life).status = FoldLife(l, c.life).status
        /\ Goes(l.status, FoldLife(l, c.life).status)
    <3> USE DEF Goes, Over, WorkingStatus
    <3>1. CASE c.life.ev = "NoEvent"
      BY <3>1 DEF FoldLife
    <3>2. CASE c.life.ev = "OrderRejected"
      BY <1>2, <3>2 DEF FoldLife, FoldRejected, Status
    <3>3. CASE c.life.ev = "OrderCanceled"
      BY <3>3 DEF FoldLife, FoldCanceled, Ended, Working
    <3>4. CASE c.life.ev = "OrderExpired"
      BY <3>4 DEF FoldLife, FoldExpired, Ended, Working
    <3>5. CASE c.life.ev = "OrderReplaced"
      BY <3>5 DEF FoldLife, FoldReplaced, Working
    <3> QED BY <3>1, <3>2, <3>3, <3>4, <3>5 DEF Own, OwnEvents, TameEvents
  <2> QED BY <2>2, <2>3
<1> QED
  BY <1>1, <1>2

\* Every command and timer is a tame change,
LEMMA HandlersTame ==
  /\ Tame(NoChange)
  /\ \A e \in Life : e.ev \in TameEvents => Tame(LifeChange(e))
  /\ \A k \in {"OrderCanceled", "OrderExpired"} : Tame(LifeChange(LifeEvent(k)))
  /\ \A a : Tame(ActionChange(a))
  /\ \A h : Tame(HeldChange(h))
  /\ \A o : /\ Tame(Pause(o)) /\ Tame(Cancel(o)) /\ Tame(Kill(o)) /\ Tame(Expire(o))
            /\ Tame(Shutdown(o)) /\ Tame(ConfirmSell(o))
            /\ \A k \in BOOLEAN : Tame(Disarm(o, k))
            /\ \A p : Tame(HeldTo(o, p))
            /\ \A e \in Life : e.ev \in TameEvents => Tame(OnLife(o, e))
<1> USE DEF Tame
<1>1. NoEvent \in Life /\ NoEvent.ev = "NoEvent"
  BY LifeTypes DEF NoEvent, LifeEvent
<1>2. \A k \in {"OrderCanceled", "OrderExpired"} :
        LifeEvent(k) \in Life /\ LifeEvent(k).ev = k
  BY LifeTypes DEF LifeEvent, LifeKinds
<1>3. NoChange.life = NoEvent
  BY DEF NoChange
<1>4. \A e : LifeChange(e).life = e
  BY DEF LifeChange, NoChange
<1>5. \A a : ActionChange(a).life = NoEvent
  BY DEF ActionChange, NoChange
<1>6. \A h : HeldChange(h).life = NoEvent
  BY DEF HeldChange, NoChange
<1>7. /\ Tame(NoChange)
      /\ \A e \in Life : e.ev \in TameEvents => Tame(LifeChange(e))
      /\ \A k \in {"OrderCanceled", "OrderExpired"} : Tame(LifeChange(LifeEvent(k)))
      /\ \A a : Tame(ActionChange(a))
      /\ \A h : Tame(HeldChange(h))
  BY <1>1, <1>2, <1>3, <1>4, <1>5, <1>6 DEF TameEvents
<1> HIDE DEF Tame
<1>8. ASSUME NEW o
      PROVE  /\ Tame(Pause(o)) /\ Tame(Cancel(o)) /\ Tame(Kill(o)) /\ Tame(Expire(o))
             /\ Tame(Shutdown(o)) /\ Tame(ConfirmSell(o))
             /\ \A k \in BOOLEAN : Tame(Disarm(o, k))
             /\ \A p : Tame(HeldTo(o, p))
             /\ \A e \in Life : e.ev \in TameEvents => Tame(OnLife(o, e))
  <2>1. \A p : Tame(HeldTo(o, p))
    BY <1>7 DEF HeldTo
  <2>2. Tame(AskCancel(o))
    <3>1. CASE Unresolved(o, "CANCEL")
      BY <1>7, <3>1 DEF AskCancel
    <3>2. CASE ~Unresolved(o, "CANCEL")
      <4>1. AskCancel(o).life = NoEvent
        BY <3>2 DEF AskCancel, NoChange
      <4> QED BY <1>1, <4>1 DEF Tame, TameEvents
    <3> QED BY <3>1, <3>2
  <2>3. Tame(Pause(o)) /\ Tame(ConfirmSell(o))
    BY <1>7, <2>1 DEF Pause, ConfirmSell
  <2>4. Tame(Cancel(o))
    BY <1>7, <2>2 DEF Cancel
  <2>5. \A k \in BOOLEAN : Tame(Disarm(o, k))
    BY <1>7, <2>1, <2>2 DEF Disarm
  <2>6. Tame(Kill(o))
    BY <1>7, <2>4, <2>5 DEF Kill
  <2>7. Tame(Expire(o))
    BY <1>7, <2>2 DEF Expire
  <2>8. Tame(Shutdown(o))
    <3> DEFINE d == [NoChange EXCEPT
                       !.action = Requested("CANCEL", 0),
                       !.held = [o.held EXCEPT !.phase = "CANCEL_REQUESTED",
                                   !.cancelRequested = TRUE, !.cancelSent = TRUE]]
    <3>1. d.life = NoEvent
      BY DEF NoChange
    <3>2. Tame(d)
      BY <1>1, <3>1 DEF Tame, TameEvents
    <3> HIDE DEF d
    <3> QED BY <1>7, <2>1, <2>2, <3>2 DEF Shutdown, d
  <2>9. ASSUME NEW e \in Life, e.ev \in TameEvents PROVE Tame(OnLife(o, e))
    <3>1. OnLife(o, e).life = e
      BY DEF OnLife
    <3> QED BY <2>9, <3>1 DEF Tame
  <2> QED BY <2>1, <2>3, <2>4, <2>5, <2>6, <2>7, <2>8, <2>9
<1> QED
  BY <1>7, <1>8

\* and every result is one of the handler's own.
LEMMA HandlersOwn ==
  /\ Own(NoChange)
  /\ \A e \in Life : e.ev \in OwnEvents => Own(LifeChange(e))
  /\ \A k \in {"OrderRejected", "OrderCanceled", "OrderExpired"} : Own(LifeChange(LifeEvent(k)))
  /\ \A a : Own(ActionChange(a))
  /\ \A h : Own(HeldChange(h))
  /\ \A o : /\ Own(Pause(o)) /\ Own(Cancel(o)) /\ Own(Kill(o)) /\ Own(Expire(o))
            /\ Own(Shutdown(o)) /\ Own(ConfirmSell(o))
            /\ \A k \in BOOLEAN : Own(Disarm(o, k))
            /\ \A p : Own(HeldTo(o, p))
            /\ \A e \in Life : e.ev \in OwnEvents => Own(OnLife(o, e))
<1>1. \A c : Tame(c) => Own(c)
  BY DEF Tame, TameEvents, Own, OwnEvents
<1>2. \A e \in Life : e.ev \in OwnEvents => Own(LifeChange(e)) /\ \A o : Own(OnLife(o, e))
  BY DEF LifeChange, NoChange, OnLife, Own
<1>3. \A k \in {"OrderRejected", "OrderCanceled", "OrderExpired"} :
        LifeEvent(k) \in Life /\ LifeEvent(k).ev \in OwnEvents
  BY LifeTypes DEF LifeEvent, LifeKinds, OwnEvents
<1> QED BY <1>1, <1>2, <1>3, HandlersTame

-----------------------------------------------------------------------------
(* Steps that leave every order to the books *)

\* What every step may rely on.
LEMMA LInvFacts ==
  ASSUME LInv
  PROVE  /\ IInv /\ TypeInv /\ VenueTypeOK /\ CoreTypeOK /\ BookTypeOK
         /\ posts \in [Orders -> Nat]
         /\ \A i \in Orders : /\ Custody(i)
                              /\ orders[i] \in Order /\ logged[i] \in Order
                              /\ posts[i] = 0 => Quiet(i) /\ orders[i].status = logged[i].status
BY DEF LInv, IInv, Twins, TypeInv, TypeOK, CoreTypeOK, BookTypeOK, CustodyInv

\* A step that sends no submission leaves what is not at the broker away from it.
LEMMA StaysAway ==
  ASSUME UNCHANGED venue, NEW i \in Orders,
         \A r \in net' : r \in net \/ r.kind \notin SubmitKinds \/ r.id # i
  PROVE  AtBroker(i)' => AtBroker(i)
BY DEF AtBroker, OpenAt, SubmitInFlight

\* Changes a handler makes on its own, appended and folded.
LEMMA AppendMoves ==
  ASSUME LInv, UNCHANGED <<venue, posts>>, NEW chg, AppendAndFold(chg), NoNewSubmit,
         \A i \in Orders : posts[i] = 0 => Own(chg[i])
  PROVE  Moves
<1>1. ASSUME NEW i \in Orders PROVE Local(i)
  <2>1. AtBroker(i)' => AtBroker(i)
    BY StaysAway DEF NoNewSubmit
  <2>2. orders'[i] = Apply(orders[i], chg[i]) /\ logged'[i] = Apply(logged[i], chg[i])
    BY DEF AppendAndFold
  <2> QED BY <2>1, <2>2, LInvFacts, ApplyOwn DEF Local
<1> QED
  BY <1>1 DEF Moves

\* The same for a change of one order.
LEMMA OnlyMoves ==
  ASSUME LInv, UNCHANGED <<venue, posts>>, NEW i, NEW c,
         AppendAndFold(Only(i, c)), NoNewSubmit, Own(c)
  PROVE  Moves
<1>1. \A j \in Orders : Own(Only(i, c)[j])
  BY HandlersOwn DEF Only
<1> QED
  BY <1>1, AppendMoves

\* A step that leaves the books alone.
LEMMA IdleMoves ==
  ASSUME LInv, UNCHANGED <<orders, logged, posts>>,
         \A i \in Orders : AtBroker(i)' => posts[i] = 0 \/ AtBroker(i)
  PROVE  Moves
BY LInvFacts DEF Moves, Local, Goes

\* A broker list: it names no order that was never POSTed.
LEMMA ReconcileMoves ==
  ASSUME LInv, UNCHANGED <<venue, posts>>, NEW rows,
         \A i \in Orders : posts[i] = 0 => ~Listed(rows[i]),
         NEW adopt, Reconcile(rows, ConfirmListed(rows), adopt), NoNewSubmit
  PROVE  Moves
<1>1. ASSUME NEW i \in Orders PROVE Local(i)
  <2>1. AtBroker(i)' => AtBroker(i)
    BY StaysAway DEF NoNewSubmit
  <2>2. ASSUME posts[i] = 0
        PROVE  orders'[i].status = logged'[i].status /\ Goes(logged[i].status, logged'[i].status)
    <3>1. ConfirmListed(rows)[i] = NoChange
      BY <2>2 DEF ConfirmListed
    <3>2. \A o : Overlay(o, rows[i]) = o
      BY <2>2 DEF Overlay
    <3>3. orders'[i] = Apply(orders[i], NoChange) /\ logged'[i] = Apply(logged[i], NoChange)
      BY <3>1, <3>2 DEF Reconcile
    <3> QED BY <2>2, <3>3, LInvFacts, HandlersOwn, ApplyOwn
  <2> QED BY <2>1, <2>2 DEF Local
<1> QED
  BY <1>1 DEF Moves

-----------------------------------------------------------------------------
(* The steps of the core *)

\* The first submission of an order (handleSubmit).
LEMMA SubmitMoves ==
  ASSUME LInv, NEW i \in Orders, SubmitNative(i) \/ SubmitHeld(i)
  PROVE  Moves
<1>1. /\ orders[i].status = "NONE" /\ logged[i].status = "NONE" /\ posts[i] = 0
      /\ venue[i].st = "none" /\ posts \in [Orders -> Nat] /\ BookTypeOK
  <2>1. orders[i].status = "NONE"
    BY DEF SubmitNative, SubmitHeld
  <2>2. Custody(i) /\ posts \in [Orders -> Nat] /\ BookTypeOK /\ (posts[i] = 0 => Quiet(i))
    BY LInvFacts
  <2>3. logged[i].status = "NONE" /\ posts[i] = 0
    BY <2>1, <2>2 DEF Custody
  <2>4. venue[i].st = "none"
    BY <2>2, <2>3 DEF Quiet, NoVenueOrder
  <2> QED BY <2>1, <2>2, <2>3, <2>4
<1>2. ASSUME NEW j \in Orders \ {i}, NEW o, AppendSubmitted(i, o), UNCHANGED venue,
             posts'[j] = posts[j],
             \A r \in net' : r \in net \/ r.id = i
      PROVE  Local(j)
  <2>1. orders'[j] = orders[j] /\ logged'[j] = logged[j]
    BY <1>1, <1>2 DEF AppendSubmitted, BookTypeOK
  <2>2. AtBroker(j)' => AtBroker(j)
    BY <1>2, StaysAway
  <2> QED BY <1>2, <2>1, <2>2, LInvFacts DEF Local, Goes
<1>3. ASSUME NEW o, AppendSubmitted(i, o) PROVE orders'[i] = o /\ logged'[i] = o
  BY <1>1, <1>3 DEF AppendSubmitted, BookTypeOK
<1>4. \A q : BlockedOrder(q).status = "BLOCKED"
  BY DEF BlockedOrder, NoOrder
<1>5. \A q, a, h : NewOrder(q, a, h).status = "SUBMITTED"
  BY DEF NewOrder, NoOrder
<1>6. ASSUME NEW q, AppendSubmitted(i, BlockedOrder(q)), UNCHANGED <<venue, net, posts>>
      PROVE  Moves
  <2>1. Begins(i)
    BY <1>1, <1>3, <1>4, <1>6 DEF Begins, Over
  <2> QED BY <1>2, <1>6, <2>1 DEF Moves
<1>7. CASE SubmitNative(i)
  <2> DEFINE a == IF Guarded(i) THEN Requested("SUBMIT", 0) ELSE NoAction
  <2>1. PICK q \in 1 .. MaxQty :
          /\ i \notin HeldIds /\ UNCHANGED venue
          /\ \/ /\ AppendSubmitted(i, NewOrder(q, a, NoHeld))
                /\ Send({Request(IF Guarded(i) THEN "GUARDED" ELSE "SUBMIT", i, q)})
                /\ posts' = [posts EXCEPT ![i] = @ + 1]
             \/ AppendSubmitted(i, BlockedOrder(q)) /\ UNCHANGED <<net, posts>>
    BY <1>7 DEF SubmitNative, outside, brokerVars
  <2> DEFINE r == Request(IF Guarded(i) THEN "GUARDED" ELSE "SUBMIT", i, q)
  <2>2. CASE /\ AppendSubmitted(i, NewOrder(q, a, NoHeld)) /\ Send({r})
             /\ posts' = [posts EXCEPT ![i] = @ + 1]
    <3>1. net' = net \cup {r} /\ r.id = i /\ r.kind \in SubmitKinds
      BY <2>2 DEF Send, Request, SubmitKinds
    <3>2. posts'[i] = 1 /\ \A j \in Orders \ {i} : posts'[j] = posts[j]
      BY <1>1, <2>2
    <3>3. SubmitInFlight(i)'
      BY <3>1 DEF SubmitInFlight
    <3>4. Sends(i)
      BY <1>1, <2>1, <3>2, <3>3 DEF Sends
    <3>5. \A s \in net' : s \in net \/ s.id = i
      BY <3>1
    <3> HIDE DEF r, a
    <3>6. \A j \in Orders \ {i} : Local(j)
      BY <1>2, <2>1, <2>2, <3>2, <3>5
    <3> QED BY <3>4, <3>6 DEF Moves
  <2> QED BY <1>6, <2>1, <2>2
<1>8. CASE SubmitHeld(i)
  <2> DEFINE h == [NoHeld EXCEPT !.phase = "WAITING", !.after = now]
  <2>1. PICK q \in 1 .. MaxQty :
          /\ i \in HeldIds /\ UNCHANGED <<venue, net, posts>>
          /\ AppendSubmitted(i, NewOrder(q, NoAction, h)) \/ AppendSubmitted(i, BlockedOrder(q))
    BY <1>8 DEF SubmitHeld, venueVars, brokerVars
  <2> HIDE DEF h
  <2>2. CASE AppendSubmitted(i, NewOrder(q, NoAction, h))
    <3>1. Begins(i)
      BY <1>1, <1>3, <1>5, <2>1, <2>2 DEF Begins, WorkingStatus
    <3> QED BY <1>2, <2>1, <2>2, <3>1 DEF Moves
  <2> QED BY <1>6, <2>1, <2>2
<1> QED
  BY <1>7, <1>8

\* The commands about one order.
LEMMA OrderCommandMoves ==
  ASSUME LInv, OrderCommand
  PROVE  Moves
<1>1. ASSUME NEW i \in Orders, CancelOrder(i) PROVE Moves
  <2>1. AppendAndFold(Only(i, Cancel(orders[i]))) /\ UNCHANGED <<venue, posts>> /\ NoNewSubmit
    BY <1>1, SendsNoSubmit DEF CancelOrder, outside, brokerVars
  <2> QED BY <2>1, HandlersOwn, OnlyMoves
<1>2. ASSUME NEW i \in Orders, ReplaceOrder(i) PROVE Moves
  <2>1. PICK q \in 1 .. MaxQty : /\ AppendAndFold(Only(i, ActionChange(Requested("REPLACE", q))))
                                 /\ UNCHANGED <<venue, posts>> /\ NoNewSubmit
    BY <1>2, SendsNoSubmit DEF ReplaceOrder, outside, brokerVars
  <2> QED BY <2>1, HandlersOwn, OnlyMoves
<1>3. ASSUME NEW i \in Orders, ReplaceHeld(i) PROVE Moves
  <2>1. PICK q \in 1 .. MaxQty : /\ AppendAndFold(Only(i, LifeChange(ReplaceEvent(q))))
                                 /\ UNCHANGED <<venue, posts>> /\ NoNewSubmit
    BY <1>3, SendsNoSubmit DEF ReplaceHeld, venueVars, brokerVars
  <2>2. ReplaceEvent(q) \in Life /\ ReplaceEvent(q).ev \in OwnEvents
    <3>1. q \in Qtys
      BY QtyAssumption DEF Qtys
    <3>2. ReplaceEvent(q) \in Life
      BY <3>1, LifeTypes
    <3> QED BY <3>2 DEF ReplaceEvent, LifeEvent, OwnEvents
  <2> QED BY <2>1, <2>2, HandlersOwn, OnlyMoves
<1>4. ASSUME NEW i \in Orders, ResumeHeld(i) PROVE Moves
  <2> DEFINE h == [orders[i].held EXCEPT !.phase = "WAITING", !.cancelRequested = FALSE,
                                         !.after = now]
             c == IF now >= Deadline THEN LifeChange(LifeEvent("OrderExpired"))
                                     ELSE HeldChange(h)
  <2>1. AppendAndFold(Only(i, c)) /\ UNCHANGED <<venue, posts>> /\ NoNewSubmit
    BY <1>4, SendsNoSubmit DEF ResumeHeld, venueVars, brokerVars
  <2>2. Own(c)
    BY HandlersOwn
  <2> HIDE DEF c
  <2> QED BY <2>1, <2>2, OnlyMoves
<1> QED
  BY <1>1, <1>2, <1>3, <1>4, SubmitMoves DEF OrderCommand

\* The commands about the account, a gap of the print feed and the held timer.
LEMMA AccountCommandMoves ==
  ASSUME LInv, AccountCommand \/ HeldStep
  PROVE  Moves
<1>1. CASE Arm \/ AutoDisarm \/ EligiblePrint \/ Tick
  <2>1. UNCHANGED <<venue, net, orders, logged, posts>>
    BY <1>1 DEF Arm, AutoDisarm, EligiblePrint, Tick, venueVars, brokerVars, bookVars
  <2>2. \A i \in Orders : AtBroker(i)' => AtBroker(i)
    BY <2>1, StaysAway
  <2> QED BY <2>1, <2>2, IdleMoves
<1>2. CASE DisarmMaster
  <2> DEFINE chg == [i \in Orders |-> Disarm(orders[i], FALSE)]
  <2>1. AppendAndFold(chg) /\ UNCHANGED <<venue, posts>> /\ NoNewSubmit
    BY <1>2, SendsNoSubmit DEF DisarmMaster, venueVars, brokerVars
  <2>2. \A i \in Orders : Own(chg[i])
    BY HandlersOwn
  <2> HIDE DEF chg
  <2> QED BY <2>1, <2>2, AppendMoves
<1>3. CASE KillSwitch
  <2> DEFINE chg == [i \in Orders |-> Kill(orders[i])]
  <2>1. AppendAndFold(chg) /\ UNCHANGED <<venue, posts>> /\ NoNewSubmit
    BY <1>3, SendsNoSubmit DEF KillSwitch, outside, brokerVars
  <2>2. \A i \in Orders : Own(chg[i])
    BY HandlersOwn
  <2> HIDE DEF chg
  <2> QED BY <2>1, <2>2, AppendMoves
<1>4. CASE Flatten
  <2> DEFINE chg == [i \in Orders |-> IF Guarded(i) THEN Pause(orders[i]) ELSE NoChange]
  <2>1. AppendAndFold(chg) /\ UNCHANGED <<venue, posts>> /\ NoNewSubmit
    BY <1>4, SendsNoSubmit DEF Flatten, outside, brokerVars
  <2>2. \A i \in Orders : Own(chg[i])
    BY HandlersOwn
  <2> HIDE DEF chg
  <2> QED BY <2>1, <2>2, AppendMoves
<1>5. CASE PrintGap
  <2> DEFINE chg == [i \in Orders |-> Pause(orders[i])]
  <2>1. AppendAndFold(chg) /\ UNCHANGED <<venue, posts>> /\ NoNewSubmit
    BY <1>5, SendsNoSubmit DEF PrintGap, venueVars, brokerVars
  <2>2. \A i \in Orders : Own(chg[i])
    BY HandlersOwn
  <2> HIDE DEF chg
  <2> QED BY <2>1, <2>2, AppendMoves
<1>6. CASE ExpireHeldOrders
  <2> DEFINE chg == [i \in Orders |-> Expire(orders[i])]
  <2>1. AppendAndFold(chg) /\ UNCHANGED <<venue, posts>> /\ NoNewSubmit
    BY <1>6, SendsNoSubmit DEF ExpireHeldOrders, outside, brokerVars
  <2>2. \A i \in Orders : Own(chg[i])
    BY HandlersOwn
  <2> HIDE DEF chg
  <2> QED BY <2>1, <2>2, AppendMoves
<1> QED
  BY <1>1, <1>2, <1>3, <1>4, <1>5, <1>6 DEF AccountCommand, HeldStep

\* The broker events and the results of the goroutines.
LEMMA EventMoves ==
  ASSUME LInv, StreamEvent \/ JobResult
  PROVE  Moves
<1>1. CASE OnLives
  <2> DEFINE ls == Head(wire).lives
             chg == [i \in Orders |-> OnLife(orders[i], ls[i])]
  <2>1. AppendAndFold(chg) /\ UNCHANGED <<venue, posts>> /\ NoNewSubmit
    BY <1>1, SendsNoSubmit DEF OnLives, FoldLives, outside, brokerVars
  <2>2. ASSUME NEW i \in Orders, posts[i] = 0 PROVE Own(chg[i])
    <3>1. wire \in Seq(QuietMsgs(i)) /\ wire # <<>>
      BY <1>1, <2>2, LInvFacts DEF Quiet, OnLives, Receive
    <3>2. Head(wire) \in QuietMsgs(i)
      BY <3>1, HeadTailProperties
    <3>3. ls[i] = NoEvent
      BY <3>2 DEF QuietMsgs
    <3>4. Own(OnLife(orders[i], NoEvent))
      BY LifeTypes, HandlersOwn DEF NoEvent, LifeEvent, OwnEvents
    <3> QED BY <3>3, <3>4
  <2> HIDE DEF chg
  <2> QED BY <2>1, <2>2, AppendMoves
<1>2. CASE OnPosition \/ OnPositions
  <2>1. UNCHANGED <<venue, net, orders, logged, posts>>
    BY <1>2 DEF OnPosition, OnPositions, outside, brokerVars, bookVars
  <2>2. \A i \in Orders : AtBroker(i)' => AtBroker(i)
    BY <2>1, StaysAway
  <2> QED BY <2>1, <2>2, IdleMoves
<1>3. CASE OnOpenOrders
  <2> DEFINE rows == Head(wire).rows
  <2>1. /\ wire # <<>> /\ Reconcile(rows, ConfirmListed(rows), TRUE)
        /\ UNCHANGED <<venue, posts>> /\ NoNewSubmit
    BY <1>3, SendsNoSubmit DEF OnOpenOrders, Receive, outside, brokerVars
  <2>2. ASSUME NEW i \in Orders, posts[i] = 0 PROVE ~Listed(rows[i])
    <3>1. wire \in Seq(QuietMsgs(i))
      BY <2>2, LInvFacts DEF Quiet
    <3>2. Head(wire) \in QuietMsgs(i)
      BY <2>1, <3>1, HeadTailProperties
    <3> QED BY <3>2 DEF QuietMsgs
  <2> HIDE DEF rows
  <2> QED BY <2>1, <2>2, ReconcileMoves
<1>4. ASSUME NEW k, OnStreamBreak(k) PROVE Moves
  <2> DEFINE chg == [i \in Orders |-> Pause(orders[i])]
  <2>1. AppendAndFold(chg) /\ UNCHANGED <<venue, posts>> /\ NoNewSubmit
    BY <1>4, SendsNoSubmit DEF OnStreamBreak, outside, brokerVars
  <2>2. \A i \in Orders : Own(chg[i])
    BY HandlersOwn
  <2> HIDE DEF chg
  <2> QED BY <2>1, <2>2, AppendMoves
<1>5. CASE OnSnapshot
  <2>1. /\ Reconcile(flatJob.rows, ConfirmListed(flatJob.rows), FALSE)
        /\ UNCHANGED <<venue, posts>> /\ NoNewSubmit
    BY <1>5, SendsNoSubmit DEF OnSnapshot, outside, brokerVars
  <2>2. \A i \in Orders : posts[i] = 0 => ~Listed(flatJob.rows[i])
    BY LInvFacts DEF Quiet
  <2> QED BY <2>1, <2>2, ReconcileMoves
<1>6. ASSUME NEW x \in outcomes, OnOutcome(x) PROVE Moves
  <2> DEFINE c == OnOutcomeChange(x)
  <2>1. AppendAndFold(Only(x.id, c)) /\ UNCHANGED <<venue, posts>> /\ NoNewSubmit
    BY <1>6, SendsNoSubmit DEF OnOutcome, outside, brokerVars
  <2>2. Own(OnSubmitOutcome(x)) /\ Own(OnActionOutcome(x)) /\ Own(OnActivationOutcome(x))
    BY HandlersOwn DEF OnSubmitOutcome, OnActionOutcome, OnActivationOutcome
  <2>3. Own(OnLife(orders[x.id], LifeEvent("OrderRejected")))
    BY LifeTypes, HandlersOwn DEF LifeEvent, LifeKinds, OwnEvents
  <2>4. x.kind \in RequestKinds
    BY LInvFacts DEF VenueTypeOK, Outcomes
  <2>5. Own(c)
    BY <2>2, <2>3, <2>4 DEF OnOutcomeChange, RequestKinds, SubmitKinds
  <2> HIDE DEF c
  <2> QED BY <2>1, <2>5, OnlyMoves
<1> QED
  BY <1>1, <1>2, <1>3, <1>4, <1>5, <1>6 DEF StreamEvent, JobResult

\* A print held against one order: the only POST of a held order, made of a
\* parent the log still has as working (activateHeld).
LEMMA EvaluateMoves ==
  ASSUME LInv, NEW i \in Orders, EvaluateHeld(i)
  PROVE  Moves
<1> DEFINE o == orders[i]
           r == Request("CHILD", i, o.leaves)
           post == Live(o) /\ now < Deadline /\ i \in lastPrint.hit
           c == CASE ~Live(o) -> NoChange
                  [] Live(o) /\ now >= Deadline -> LifeChange(LifeEvent("OrderExpired"))
                  [] Live(o) /\ now < Deadline /\ ~post -> HeldTo(o, "ARMED")
                  [] post -> ActivationStops(i)
<1>1. UNCHANGED venue /\ i \in HeldIds
  BY LInvFacts DEF EvaluateHeld, outside, brokerVars, CoreTypeOK
<1>2. CASE post /\ AppendAndFold(Only(i, Activation(o))) /\ Send({r})
           /\ posts' = [posts EXCEPT ![i] = @ + 1]
  <2>1. posts \in [Orders -> Nat] /\ Custody(i) /\ (posts[i] = 0 => Quiet(i))
        /\ (posts[i] = 0 => orders[i].status = logged[i].status)
    BY LInvFacts
  <2>2. Working(o) /\ o.held.phase \in Pretrigger
    BY <1>2 DEF Live, Pretrigger
  <2>3. posts[i] = 0
    BY <1>1, <2>1, <2>2 DEF Custody, Unlinked
  <2>4. Working(logged[i]) /\ venue[i].st = "none"
    BY <2>1, <2>2, <2>3 DEF Working, Quiet, NoVenueOrder
  <2>5. net' = net \cup {r} /\ r.id = i /\ r.kind \in SubmitKinds
    BY <1>2 DEF Send, Request, SubmitKinds
  <2>6. SubmitInFlight(i)'
    BY <2>5 DEF SubmitInFlight
  <2>7. posts'[i] = 1 /\ \A j \in Orders \ {i} : posts'[j] = posts[j]
    BY <1>2, <2>1, <2>3
  <2>8. Sends(i)
    BY <1>1, <2>3, <2>4, <2>6, <2>7 DEF Sends
  <2>9. ASSUME NEW j \in Orders \ {i} PROVE Local(j)
    <3>1. AtBroker(j)' => AtBroker(j)
      BY <1>1, <2>5, StaysAway
    <3>2. orders'[j] = Apply(orders[j], NoChange) /\ logged'[j] = Apply(logged[j], NoChange)
      BY <1>2 DEF AppendAndFold, Only
    <3> QED BY <2>7, <3>1, <3>2, LInvFacts, HandlersOwn, ApplyOwn DEF Local
  <2> QED BY <2>8, <2>9 DEF Moves
<1>3. CASE AppendAndFold(Only(i, c)) /\ UNCHANGED <<net, posts>>
  <2>1. Own(c)
    <3>1. Own(ActivationStops(i))
      BY HandlersOwn DEF ActivationStops
    <3>2. /\ Own(NoChange) /\ Own(LifeChange(LifeEvent("OrderExpired")))
          /\ Own(HeldTo(o, "ARMED"))
      BY HandlersOwn
    <3>3. ~(now >= Deadline) <=> now < Deadline
      BY LInvFacts, HeldTimeAssumption DEF CoreTypeOK
    <3>4. \/ c = NoChange \/ c = LifeChange(LifeEvent("OrderExpired"))
          \/ c = HeldTo(o, "ARMED") \/ c = ActivationStops(i)
      BY <3>3
    <3> HIDE DEF c
    <3> QED BY <3>1, <3>2, <3>4
  <2>2. NoNewSubmit
    BY <1>3, SendsNoSubmit
  <2> HIDE DEF c
  <2> QED BY <1>1, <1>3, <2>1, <2>2, OnlyMoves
<1> QED
  BY <1>2, <1>3 DEF EvaluateHeld
-----------------------------------------------------------------------------
(* Steps outside the core, and the life of the process *)

\* A request is a submission of i after the process died only if it was before.
LEMMA DiesAway ==
  ASSUME VenueTypeOK, UNCHANGED venue, NEW last \in SUBSET Requests, ProcessDies(last),
         \A r \in last : r.kind \notin SubmitKinds
  PROVE  \A i \in Orders : AtBroker(i)' => AtBroker(i)
<1>1. PICK sent \in SUBSET (net \cup last) : net' = {Dead(r) : r \in sent}
  BY DEF ProcessDies
<1>2. ASSUME NEW i \in Orders, SubmitInFlight(i)' PROVE SubmitInFlight(i)
  <2>1. PICK r \in net' : r.kind \in SubmitKinds /\ r.id = i
    BY <1>2 DEF SubmitInFlight
  <2>2. PICK x \in net \cup last : r = [x EXCEPT !.live = FALSE]
    BY <1>1 DEF Dead
  <2>3. x \in Requests
    BY DEF VenueTypeOK
  <2>4. x.kind = r.kind /\ x.id = r.id
    BY <2>2, <2>3 DEF Requests
  <2> QED BY <2>1, <2>2, <2>4 DEF SubmitInFlight
<1> QED
  BY <1>2 DEF AtBroker, OpenAt

\* A crash replays the log; a restart reads a snapshot that lists no order
\* that was never POSTed (Crash, shutdownHeldOrders, Recover).
LEMMA ProcessMoves ==
  ASSUME LInv, Process
  PROVE  Moves
<1>0. /\ VenueTypeOK /\ BookTypeOK
      /\ \A i \in Orders : posts[i] = 0 => Quiet(i) /\ orders[i].status = logged[i].status
  BY LInvFacts
<1>1. CASE Crash
  <2>1. ProcessDies({}) /\ UNCHANGED <<venue, logged, posts>> /\ orders' = logged
    BY <1>1 DEF Crash, MemoryLost
  <2>2. \A i \in Orders : AtBroker(i)' => AtBroker(i)
    BY <1>0, <2>1, DiesAway
  <2> QED BY <2>1, <2>2 DEF Moves, Local, Goes
<1>2. CASE ShutdownEngine
  <2> DEFINE last == Cancels({i \in Orders : ShutdownCancels(orders[i])})
             chg == [i \in Orders |-> Shutdown(orders[i])]
  <2>1. AppendAndFold(chg) /\ ProcessDies(last) /\ UNCHANGED <<venue, posts>>
    BY <1>2 DEF ShutdownEngine, MemoryLost
  <2>2. last \subseteq Requests /\ \A r \in last : r.kind \notin SubmitKinds
    <3>1. \A i \in Orders : /\ Request("CANCEL", i, 0) \in Requests
                            /\ Request("CANCEL", i, 0).kind \notin SubmitKinds
      BY EmptyTypes DEF Request, Requests, RequestKinds, SubmitKinds
    <3> QED BY <3>1 DEF Cancels
  <2>3. \A i \in Orders : Own(chg[i])
    BY HandlersOwn
  <2> HIDE DEF last, chg
  <2>4. \A i \in Orders : AtBroker(i)' => AtBroker(i)
    BY <1>0, <2>1, <2>2, DiesAway
  <2>5. ASSUME NEW i \in Orders PROVE Local(i)
    <3>1. orders'[i] = Apply(orders[i], chg[i]) /\ logged'[i] = Apply(logged[i], chg[i])
      BY <2>1, SMTT(30) DEF AppendAndFold
    <3> QED BY <2>1, <2>3, <2>4, <3>1, LInvFacts, ApplyOwn DEF Local
  <2> QED BY <2>5 DEF Moves
<1>3. ASSUME NEW ok \in BOOLEAN, Recover(ok) PROVE Moves
  <2>0. PICK rows \in (IF ok THEN Readings ELSE {NoRows}) :
          misread' = misread \cup OddIn(rows) /\ RecoverWith(rows)
    BY <1>3, RecoverReads
  <2> DEFINE m == [i \in Orders |-> Overlay(logged[i], rows[i])]
             found(i) == Listed(rows[i])
             act(i) == RecoveredAction(i, m[i], found(i))
             held(i) == RecoveredHeld(m[i], found(i))
             base(i) == IF logged[i].status = "NONE" THEN m[i] ELSE logged[i]
  <2>1. /\ orders' = [i \in Orders |-> [m[i] EXCEPT !.action = act(i), !.held = held(i)]]
        /\ logged' = [i \in Orders |-> [base(i) EXCEPT !.action = act(i), !.held = held(i)]]
        /\ UNCHANGED <<venue, posts>> /\ NoNewSubmit
    BY <1>3, <2>0, SendsNoSubmit DEF Recover, RecoverWith
  <2>2. ASSUME NEW i \in Orders, posts[i] = 0
        PROVE  orders'[i].status = logged[i].status /\ logged'[i].status = logged[i].status
    <3>1. ~Listed(rows[i])
      <4>1. venue[i] = NoVenueOrder
        BY <1>0, <2>2 DEF Quiet
      <4>2. ~(0 > 0)
        OBVIOUS
      <4> QED BY <2>0, <4>1, <4>2, ReadingsTell DEF NoVenueOrder, NoRows, OpenAt, NoRow, Listed
    <3>2. m[i] = logged[i] /\ base(i) = logged[i] /\ logged[i] \in Order
      BY <1>0, <3>1 DEF Overlay, BookTypeOK
    <3>3. /\ orders'[i] = [logged[i] EXCEPT !.action = act(i), !.held = held(i)]
          /\ logged'[i] = [logged[i] EXCEPT !.action = act(i), !.held = held(i)]
      BY <2>1, <3>2
    <3> HIDE DEF act, held
    <3> QED BY <3>2, <3>3 DEF Order
  <2>3. \A i \in Orders : AtBroker(i)' => AtBroker(i)
    BY <2>1, StaysAway DEF NoNewSubmit
  <2> HIDE DEF m, base, act, held, found
  <2> QED BY <2>1, <2>2, <2>3 DEF Moves, Local, Goes
<1> QED
  BY <1>1, <1>2, <1>3 DEF Process

\* The broker and the requests: an order enters the books only by a
\* submission on its way, and one that ended there does not come back.
LEMMA OutsideMoves ==
  ASSUME LInv, Outside
  PROVE  Moves
<1>0. VenueTypeOK
  BY LInvFacts
<1>1. ASSUME NEW j \in Orders, NEW v, venue' = [venue EXCEPT ![j] = v],
             venue[j].st = "open", v.st # "none", net' \subseteq net
      PROVE  \A i \in Orders : AtBroker(i)' => AtBroker(i)
  BY <1>0, <1>1 DEF AtBroker, OpenAt, SubmitInFlight, VenueTypeOK
<1>2. ASSUME UNCHANGED venue, net' \subseteq net
      PROVE  \A i \in Orders : AtBroker(i)' => AtBroker(i)
  BY <1>2 DEF AtBroker, OpenAt, SubmitInFlight
<1>3. ASSUME Drop \/ Connect \/ FlattenCloses \/ FlattenReads \/ CloseFills
      PROVE  \A i \in Orders : AtBroker(i)' => AtBroker(i)
  BY <1>2, <1>3 DEF Drop, Connect, FlattenCloses, FlattenReads, CloseFills
<1>4. ASSUME NEW j \in Orders, Fill(j) \/ VenueExpires(j)
      PROVE  \A i \in Orders : AtBroker(i)' => AtBroker(i)
  <2> DEFINE v == [venue[j] EXCEPT !.exec = @ + 1,
                     !.st = IF venue[j].exec + 1 = venue[j].qty THEN "filled" ELSE "open"]
             w == [venue[j] EXCEPT !.st = "expired"]
  <2>1. /\ venue[j].st = "open" /\ net' = net
        /\ venue' = [venue EXCEPT ![j] = v] \/ venue' = [venue EXCEPT ![j] = w]
    BY <1>4 DEF Fill, VenueExpires, OpenAt
  <2>2. venue[j] \in VenueOrder
    BY <1>0 DEF VenueTypeOK
  <2>3. v.st # "none" /\ w.st # "none"
    BY <2>2 DEF VenueOrder
  <2> HIDE DEF v, w
  <2> QED BY <1>1, <2>1, <2>3
<1>5. ASSUME NEW r \in net \cup landed, Deliver(r)
      PROVE  \A i \in Orders : AtBroker(i)' => AtBroker(i)
  <2>1. net' \subseteq net /\ r.id \in Orders
    BY <1>0, <1>5 DEF Deliver, SubmitLands, SubmitReturns, SubmitFails, ActionLands, ActionFails,
                      Finish, VenueTypeOK, Requests
  <2>2. CASE SubmitLands(r)
    <3>1. /\ r \in net /\ r.kind \in SubmitKinds /\ venue[r.id].st = "none"
          /\ venue' = [venue EXCEPT ![r.id] = Landed(r)]
      BY <2>2 DEF SubmitLands
    <3>2. AtBroker(r.id)
      BY <3>1 DEF AtBroker, SubmitInFlight
    <3>3. \A i \in Orders \ {r.id} : AtBroker(i)' => AtBroker(i)
      BY <1>0, <2>1, <3>1 DEF AtBroker, OpenAt, SubmitInFlight, VenueTypeOK
    <3> QED BY <3>2, <3>3
  <2>3. CASE SubmitReturns(r) \/ SubmitFails(r) \/ ActionFails(r)
    BY <1>2, <2>1, <2>3 DEF SubmitReturns, SubmitFails, ActionFails
  <2>4. CASE ActionLands(r)
    <3> DEFINE v == IF r.kind = "CANCEL" THEN [venue[r.id] EXCEPT !.st = "canceled"]
                                         ELSE [venue[r.id] EXCEPT !.qty = r.qty]
    <3>1. venue[r.id].st = "open" /\ venue' = [venue EXCEPT ![r.id] = v]
      BY <2>4 DEF ActionLands, CanDo, OpenAt
    <3>2. venue[r.id] \in VenueOrder
      BY <1>0, <2>1 DEF VenueTypeOK
    <3>3. v.st # "none"
      BY <3>1, <3>2 DEF VenueOrder
    <3> HIDE DEF v
    <3> QED BY <1>1, <2>1, <3>1, <3>3
  <2> QED BY <1>5, <2>2, <2>3, <2>4 DEF Deliver
<1>6. UNCHANGED <<orders, logged, posts>>
  BY DEF Outside, coreVars, bookVars
<1>7. \A i \in Orders : AtBroker(i)' => AtBroker(i)
  BY <1>3, <1>4, <1>5 DEF Outside, BrokerNext
<1> QED
  BY <1>6, <1>7, IdleMoves

\* Every step, the ones that change nothing included.
LEMMA NextMoves == LInv /\ [Next]_vars => Moves
<1> SUFFICES ASSUME LInv, [Next]_vars PROVE Moves
  OBVIOUS
<1>1. CASE UNCHANGED vars
  <2>1. UNCHANGED <<venue, net, orders, logged, posts>>
    BY <1>1 DEF vars, venueVars, brokerVars, coreVars, bookVars
  <2> QED BY <2>1, StaysAway, IdleMoves
<1>2. CASE Next
  BY <1>2, OrderCommandMoves, AccountCommandMoves, EventMoves, EvaluateMoves, ProcessMoves,
     OutsideMoves DEF Next
<1> QED
  BY <1>1, <1>2

-----------------------------------------------------------------------------
(* The theorem *)

\* Of an order never POSTed the live status stays the replayed one.
LEMMA LifeInvariant == Spec => []LInv
<1>1. Init => Twins
  BY DEF Init, Twins
<1>2. LInv /\ [Next]_vars => Twins'
  <2> SUFFICES ASSUME LInv, [Next]_vars PROVE Twins'
    OBVIOUS
  <2>1. Moves
    BY NextMoves
  <2> QED BY <2>1 DEF Moves, Local, Begins, Sends, Twins
<1>3. IInv /\ [Next]_vars => IInv'
  BY NextType, NextCustody DEF IInv
<1>4. Init => IInv
  BY InitType, InitCustody DEF IInv
<1> QED
  BY <1>1, <1>2, <1>3, <1>4, PTL DEF Spec, LInv

\* The stage of an order, by what is at the broker and in the log.
Staged(i) ==
  /\ AtBroker(i) => Stage(i) = "sent"
  /\ ~AtBroker(i) /\ posts[i] # 0 => Stage(i) = "done"
  /\ posts[i] = 0 => /\ ~AtBroker(i)
                     /\ logged[i].status \in {"NONE"} \cup Over \cup WorkingStatus
                     /\ logged[i].status = "NONE" => Stage(i) = "unknown"
                     /\ logged[i].status \in Over => Stage(i) = "done"
                     /\ Working(logged[i]) => Stage(i) = "kept"
AllStaged == \A i \in Orders : Staged(i)

LEMMA StageIs == LInv => AllStaged
<1> SUFFICES ASSUME LInv, NEW i \in Orders PROVE Staged(i)
  BY DEF AllStaged
<1>1. /\ posts[i] \in Nat /\ logged[i] \in Order
      /\ posts[i] = 0 => Quiet(i)
  BY LInvFacts
<1>2. posts[i] > 0 <=> posts[i] # 0
  BY <1>1
<1>3. logged[i].status \in {"NONE"} \cup Over \cup WorkingStatus
  BY <1>1 DEF Order, Status, Over, WorkingStatus
<1>4. posts[i] = 0 => ~AtBroker(i)
  BY <1>1 DEF Quiet, NoVenueOrder, AtBroker, OpenAt
<1> QED
  BY <1>2, <1>3, <1>4 DEF Staged, Stage, Working, WorkingStatus, Over

\* At the start every order is unknown.
LEMMA LifeStarts == Init => Lives!Init
<1> SUFFICES ASSUME Init PROVE Lives!Init
  OBVIOUS
<1>1. LInv
  BY InitType, InitCustody DEF LInv, IInv, Twins, Init
<1>2. ASSUME NEW i \in Orders PROVE Stage(i) = "unknown"
  <2>1. posts[i] = 0 /\ logged[i].status = "NONE"
    BY DEF Init, NoOrder
  <2> QED BY <1>1, <2>1, StageIs DEF AllStaged, Staged
<1> QED
  BY <1>2 DEF Lives!Init, stages

\* Every step moves each order as OrderLife allows, or leaves it.
LEMMA LifeSteps == LInv /\ LInv' /\ [Next]_vars => Lives!Next
<1>1. LInv' => AllStaged'
  BY StageIs, PTL
<1> SUFFICES ASSUME LInv, LInv', [Next]_vars PROVE Lives!Next
  OBVIOUS
<1>2. ASSUME NEW i \in Orders PROVE Staged(i) /\ Staged(i)'
  BY <1>1, StageIs DEF AllStaged
<1>3. ASSUME NEW i \in Orders
      PROVE  \/ Stage(i)' = Stage(i)
             \/ Stage(i) \in {"kept", "sent"} /\ Stage(i)' = "done"
             \/ Stage(i) = "unknown" /\ Stage(i)' = "done"
             \/ i \in HeldIds /\ Stage(i) = "unknown" /\ Stage(i)' = "kept"
             \/ /\ Stage(i) = (IF i \in HeldIds THEN "kept" ELSE "unknown")
                /\ Stage(i)' = "sent"
  <2> USE DEF Working
  <2>1. Staged(i) /\ Staged(i)' /\ (Local(i) \/ Begins(i) \/ Sends(i))
    BY <1>2, NextMoves DEF Moves
  <2>2. CASE Local(i) /\ posts[i] # 0
    BY <2>1, <2>2 DEF Local, Staged
  <2>3. CASE Local(i) /\ posts[i] = 0
    BY <2>1, <2>3 DEF Local, Goes, Staged
  <2>4. CASE Begins(i)
    BY <2>1, <2>4 DEF Begins, Staged
  <2>5. CASE Sends(i)
    <3>1. AtBroker(i)'
      BY <2>5 DEF Sends, AtBroker
    <3> QED BY <2>1, <2>5, <3>1 DEF Sends, Staged
  <2> QED BY <2>1, <2>2, <2>3, <2>4, <2>5
<1>4. ASSUME NEW i \in Orders PROVE Stage(i)' \in Lives!Stages
  BY <1>2 DEF Staged, Lives!Stages, Working
<1>5. stages' = [i \in Orders |-> Stage(i)'] /\ stages = [i \in Orders |-> Stage(i)]
  BY DEF stages
<1> QED
  BY <1>3, <1>4, <1>5
     DEF Lives!Next, Lives!Keep, Lives!Refuse, Lives!Send, Lives!Finish, Lives!Stay

\* The engine implements OrderLife over every interleaving, lost answer, crash
\* and restart: an order is sent once at most, a held one only from the state
\* of being kept, and an order that is done stays done (handleSubmit,
\* activateHeld, Recover).
THEOREM ImplementsOrderLife == Spec => LivesAsPromised
<1>1. LInv /\ LInv' /\ [Next]_vars => [Lives!Next]_stages
  BY LifeSteps
<1> QED
  BY <1>1, LifeStarts, LifeInvariant, PTL DEF Spec, LivesAsPromised, Lives!Spec

-----------------------------------------------------------------------------
(***************************************************************************)
(* When a held order may wait for a print, for every set of orders and     *)
(* every bound: a SELL only while the position it exits is known, and none *)
(* while the operator has the engine disarmed.                             *)
(***************************************************************************)

\* The second part needs an engine that is never disarmed behind the
\* operator's back: AutoDisarm leaves the held orders as they are.
Waiting == HeldSellLiveOnlyWhenReady /\ ("stale" \notin Upsets => DisarmedIsPaused)
WInv == IInv /\ Waiting

-----------------------------------------------------------------------------
(* What a handler does to one order *)

WaitPhases == {"WAITING", "ARMED"}
\* Events after which an order works only if it worked before.
QuietingKinds == {"NoEvent", "OrderCanceled", "OrderExpired", "OrderRejected", "OrderReplaced"}
\* A change that makes no order wait for a print that did not.
WakesNone(o, c) ==
  /\ c.held.phase \in WaitPhases => Live(o)
  /\ c.life.ev \in QuietingKinds \/ o.held.phase \notin WaitPhases

\* Folding such a change (State.Apply).
LEMMA ApplyWakesNone ==
  ASSUME NEW o \in Order, NEW c \in Change, WakesNone(o, c), Live(Apply(o, c))
  PROVE  Live(o)
<1> DEFINE f == FoldLife(o, c.life)
<1>1. o.status # "NONE"
  <2>1. o.status = "NONE" => Apply(o, c) = o
    BY DEF Apply
  <2> QED BY <2>1 DEF Live, Working, WorkingStatus
<1>2. c.life \in Life
  BY DEF Change
<1>3. f \in Order /\ f.held = o.held
  BY <1>2, FoldLifeType, FoldLifeCustody
<1>4. ASSUME c.life.ev \in QuietingKinds, Working(f) PROVE Working(o)
  <2> USE DEF Working, WorkingStatus, Order
  <2>1. CASE c.life.ev = "NoEvent"
    BY <1>4, <2>1 DEF FoldLife
  <2>2. CASE c.life.ev = "OrderCanceled"
    BY <1>4, <2>2 DEF FoldLife, FoldCanceled, Ended
  <2>3. CASE c.life.ev = "OrderExpired"
    BY <1>4, <2>3 DEF FoldLife, FoldExpired, Ended
  <2>4. CASE c.life.ev = "OrderRejected"
    BY <1>4, <2>4 DEF FoldLife, FoldRejected
  <2>5. CASE c.life.ev = "OrderReplaced"
    BY <1>4, <2>5 DEF FoldLife, FoldReplaced
  <2> QED BY <1>4, <2>1, <2>2, <2>3, <2>4, <2>5 DEF QuietingKinds
<1>5. /\ Apply(o, c).status = f.status
      /\ Apply(o, c).held = IF c.held.phase = "KEEP" THEN o.held ELSE c.held
  BY <1>1, <1>3 DEF Apply, SetHeld, Order
<1>6. Working(f) /\ Apply(o, c).held.phase \in WaitPhases
  BY <1>5 DEF Live, Working, WaitPhases
<1> HIDE DEF f
<1> QED
  BY <1>4, <1>5, <1>6 DEF WakesNone, Live, WaitPhases

\* Handlers that wake no order; a lifecycle event wakes none that is not
\* waiting already.
LEMMA HandlersWakeNone ==
  ASSUME NEW o \in Order
  PROVE  /\ WakesNone(o, NoChange)
         /\ \A k \in QuietingKinds : WakesNone(o, LifeChange(LifeEvent(k)))
         /\ \A q : WakesNone(o, LifeChange(ReplaceEvent(q)))
         /\ \A a : WakesNone(o, ActionChange(a))
         /\ Live(o) => \A p : WakesNone(o, HeldTo(o, p))
         /\ WakesNone(o, HeldTo(o, "PAUSED"))
         /\ WakesNone(o, AskCancel(o))
         /\ WakesNone(o, Cancel(o))
         /\ WakesNone(o, Expire(o))
         /\ WakesNone(o, ConfirmSell(o))
         /\ \A e : o.held.phase \notin WaitPhases \/ e = NoEvent => WakesNone(o, OnLife(o, e))
<1> USE DEF WaitPhases
<1>1. NoChange.held.phase = "KEEP" /\ NoChange.life.ev = "NoEvent"
  BY DEF NoChange, KeepHeld, NoHeld, NoEvent, LifeEvent
<1>2. WakesNone(o, NoChange)
  BY <1>1 DEF WakesNone, QuietingKinds
<1>3. \A e : LifeChange(e).held.phase = "KEEP" /\ LifeChange(e).life = e
  BY <1>1 DEF LifeChange, NoChange, KeepHeld, NoHeld
<1>4. \A k \in QuietingKinds : WakesNone(o, LifeChange(LifeEvent(k)))
  <2>1. \A k : LifeEvent(k).ev = k
    BY DEF LifeEvent
  <2> QED BY <1>3, <2>1 DEF WakesNone
<1>5. \A q : WakesNone(o, LifeChange(ReplaceEvent(q)))
  <2>1. \A q : ReplaceEvent(q).ev = "OrderReplaced"
    BY DEF ReplaceEvent, LifeEvent
  <2> QED BY <1>3, <2>1 DEF WakesNone, QuietingKinds
<1>6. \A a : WakesNone(o, ActionChange(a))
  BY DEF ActionChange, NoChange, KeepHeld, NoHeld, NoEvent, LifeEvent, WakesNone, QuietingKinds
<1>7. \A h : HeldChange(h).held = h /\ HeldChange(h).life.ev = "NoEvent"
  BY DEF HeldChange, NoChange, NoEvent, LifeEvent
<1>8. o.held \in Held
  BY DEF Order
<1>9. ASSUME NEW p PROVE HeldTo(o, p).held.phase = p /\ HeldTo(o, p).life.ev = "NoEvent"
  <2> DEFINE h == [o.held EXCEPT !.phase = p, !.cancelRequested = FALSE]
  <2>1. h.phase = p
    BY <1>8 DEF Held
  <2>2. HeldTo(o, p) = HeldChange(h)
    BY DEF HeldTo
  <2> HIDE DEF h
  <2> QED BY <1>7, <2>1, <2>2
<1>10. Live(o) => \A p : WakesNone(o, HeldTo(o, p))
  BY <1>9 DEF WakesNone, QuietingKinds
<1>11. WakesNone(o, HeldTo(o, "PAUSED"))
  BY <1>9 DEF WakesNone, QuietingKinds
<1>12. WakesNone(o, AskCancel(o))
  <2>1. CASE Unresolved(o, "CANCEL")
    BY <1>2, <2>1 DEF AskCancel
  <2>2. CASE ~Unresolved(o, "CANCEL")
    <3>1. AskCancel(o).held =
            [o.held EXCEPT !.phase = "CANCEL_REQUESTED", !.cancelRequested = TRUE,
                           !.cancelSent = @ \/ o.held.phase # "ACTIVATING"]
      BY <2>2 DEF AskCancel, NoChange
    <3>2. AskCancel(o).held.phase = "CANCEL_REQUESTED" /\ AskCancel(o).life.ev = "NoEvent"
      BY <1>8, <2>2, <3>1 DEF Held, AskCancel, NoChange, NoEvent, LifeEvent
    <3> QED BY <3>2 DEF WakesNone, QuietingKinds
  <2> QED BY <2>1, <2>2
<1>13. /\ WakesNone(o, LifeChange(LifeEvent("OrderCanceled")))
       /\ WakesNone(o, LifeChange(LifeEvent("OrderExpired")))
  BY <1>4 DEF QuietingKinds
<1>14. WakesNone(o, Cancel(o))
  BY <1>2, <1>6, <1>12, <1>13 DEF Cancel
<1>15. WakesNone(o, Expire(o))
  BY <1>2, <1>12, <1>13 DEF Expire, Pretrigger
<1>16. WakesNone(o, ConfirmSell(o))
  BY <1>2, <1>6 DEF ConfirmSell
<1>17. ASSUME NEW e, o.held.phase \notin WaitPhases \/ e = NoEvent
       PROVE  WakesNone(o, OnLife(o, e))
  <2>1. OnLife(o, e).held.phase \notin WaitPhases
    <3>1. ChildAccepted(o).phase \in {"CANCEL_REQUESTED", "WORKING"}
      BY <1>8 DEF ChildAccepted, Held
    <3>2. OnLife(o, e).held = ChildAccepted(o) \/ OnLife(o, e).held = KeepHeld
      BY DEF OnLife
    <3> QED BY <3>1, <3>2 DEF KeepHeld, NoHeld
  <2>2. OnLife(o, e).life = e /\ NoEvent.ev = "NoEvent"
    BY DEF OnLife, NoEvent, LifeEvent
  <2> QED BY <1>17, <2>1, <2>2 DEF WakesNone, QuietingKinds
<1> QED
  BY <1>2, <1>4, <1>5, <1>6, <1>10, <1>11, <1>12, <1>14, <1>15, <1>16, <1>17

\* A pause, a disarm and a kill leave no order waiting.
LEMMA StopsWaiting ==
  ASSUME NEW o \in Order
  PROVE  /\ ~Live(Apply(o, Pause(o)))
         /\ ~Live(Apply(o, Disarm(o, FALSE)))
         /\ ~Live(Apply(o, Kill(o)))
<1> USE DEF Live, Working, WorkingStatus, Pretrigger
<1>1. ~Live(Apply(o, HeldTo(o, "PAUSED")))
  <2>1. HeldTo(o, "PAUSED").held.phase = "PAUSED"
    BY DEF HeldTo, HeldChange, NoChange, Order, Held
  <2>2. HeldTo(o, "PAUSED") \in Change
    BY HeldChangeTypes DEF HeldPhases
  <2>3. CASE o.status = "NONE"
    BY <2>3 DEF Apply
  <2>4. CASE o.status # "NONE"
    <3>1. FoldLife(o, HeldTo(o, "PAUSED").life) \in Order
      BY <2>2, FoldLifeType DEF Change
    <3>2. Apply(o, HeldTo(o, "PAUSED")).held = HeldTo(o, "PAUSED").held
      BY <2>1, <2>4, <3>1 DEF Apply, SetHeld, Order
    <3> QED BY <2>1, <3>2
  <2> QED BY <2>3, <2>4
<1>2. ~Live(o) => ~Live(Apply(o, NoChange))
  BY ApplyWakesNone, HandlersWakeNone, EmptyTypes
<1>3. ~Live(Apply(o, Pause(o)))
  BY <1>1, <1>2 DEF Pause
<1>4. ~Live(o) => ~Live(Apply(o, AskCancel(o)))
  BY ApplyWakesNone, HandlersWakeNone, HeldChangeTypes
<1>5. ~Live(Apply(o, Disarm(o, FALSE)))
  BY <1>1, <1>2, <1>4 DEF Disarm
<1>6. ~Live(Apply(o, LifeChange(LifeEvent("OrderCanceled"))))
  <2> DEFINE c == LifeChange(LifeEvent("OrderCanceled"))
  <2>1. CASE o.status = "NONE"
    BY <2>1 DEF Apply
  <2>2. CASE o.status # "NONE"
    <3>1. c.life = LifeEvent("OrderCanceled") /\ LifeEvent("OrderCanceled").ev = "OrderCanceled"
      BY DEF LifeChange, NoChange, LifeEvent
    <3>2. FoldLife(o, c.life) = FoldCanceled(o)
      BY <3>1 DEF FoldLife
    <3>3. FoldCanceled(o).status \notin WorkingStatus
      BY DEF FoldCanceled, Ended, Order
    <3>4. FoldLife(o, c.life) \in Order
      BY <3>1, LifeTypes, FoldLifeType DEF LifeKinds
    <3>5. Apply(o, c).status = FoldLife(o, c.life).status
      BY <2>2, <3>4 DEF Apply, Order
    <3> QED BY <3>2, <3>3, <3>5
  <2> QED BY <2>1, <2>2
<1>7. ~Live(Apply(o, Kill(o)))
  <2>1. CASE ~Working(o)
    BY <1>2, <2>1 DEF Kill
  <2>2. CASE Working(o) /\ o.held.phase \in Pretrigger
    BY <1>6, <2>2 DEF Kill, Disarm
  <2>3. CASE Working(o) /\ o.held.phase = "ACTIVATING"
    BY <1>4, <2>3 DEF Kill, Disarm
  <2>4. CASE Working(o) /\ o.held.phase \notin Pretrigger \cup {"ACTIVATING"}
    <3>1. Kill(o) = Cancel(o) /\ ~Live(o)
      BY <2>4 DEF Kill
    <3> QED BY <3>1, ApplyWakesNone, HandlersWakeNone, HandlerTypes
  <2> QED BY <2>1, <2>2, <2>3, <2>4
<1> QED
  BY <1>3, <1>5, <1>7

-----------------------------------------------------------------------------
(* Steps *)

\* A step after which no order waits.
LEMMA NoneWaits ==
  ASSUME \A i \in Orders : ~Live(orders'[i])
  PROVE  Waiting'
BY IdsAssumption DEF Waiting, HeldSellLiveOnlyWhenReady, DisarmedIsPaused, Live, Working

\* A step that leaves the engine down.
LEMMA DownWaits ==
  ASSUME up' = FALSE
  PROVE  Waiting'
BY DEF Waiting, HeldSellLiveOnlyWhenReady, DisarmedIsPaused

\* A step that makes no order wait and takes back no permission to.
LEMMA StillWaits ==
  ASSUME Waiting, \A i \in Orders : Live(orders'[i]) => Live(orders[i]),
         up' => up, ready => ready', flattenPending' => flattenPending,
         "stale" \notin Upsets => (armed => armed')
  PROVE  Waiting'
<1>1. HeldSellLiveOnlyWhenReady'
  BY IdsAssumption DEF Waiting, HeldSellLiveOnlyWhenReady, Live, Working
<1>2. "stale" \notin Upsets => DisarmedIsPaused'
  BY DEF Waiting, DisarmedIsPaused, Live, Working
<1> QED
  BY <1>1, <1>2 DEF Waiting

\* appendAndFold of changes that wake no order.
LEMMA AppendWakesNone ==
  ASSUME BookTypeOK, NEW chg \in [Orders -> Change], AppendAndFold(chg),
         \A i \in Orders : WakesNone(orders[i], chg[i])
  PROVE  \A i \in Orders : Live(orders'[i]) => Live(orders[i])
<1>1. ASSUME NEW i \in Orders, Live(orders'[i]) PROVE Live(orders[i])
  <2>1. orders'[i] = Apply(orders[i], chg[i])
    BY DEF AppendAndFold
  <2> QED BY <1>1, <2>1, ApplyWakesNone DEF BookTypeOK
<1> QED
  BY <1>1

\* A change of one order that wakes it not.
LEMMA OnlyWakesNone ==
  ASSUME BookTypeOK, NEW i \in Orders, NEW c \in Change, WakesNone(orders[i], c),
         AppendAndFold(Only(i, c))
  PROVE  \A j \in Orders : Live(orders'[j]) => Live(orders[j])
<1>1. Only(i, c) \in [Orders -> Change]
  BY OnlyType
<1>2. ASSUME NEW j \in Orders PROVE WakesNone(orders[j], Only(i, c)[j])
  <2>1. WakesNone(orders[j], NoChange)
    BY HandlersWakeNone DEF BookTypeOK
  <2> QED BY <2>1 DEF Only
<1> QED
  BY <1>1, <1>2, AppendWakesNone

\* appendAndFold of a pause of every order.
LEMMA PauseAll ==
  ASSUME BookTypeOK, AppendAndFold([i \in Orders |-> Pause(orders[i])])
  PROVE  \A i \in Orders : ~Live(orders'[i])
<1>1. ASSUME NEW i \in Orders PROVE ~Live(orders'[i])
  <2>1. orders'[i] = Apply(orders[i], Pause(orders[i]))
    BY DEF AppendAndFold
  <2> QED BY <2>1, StopsWaiting DEF BookTypeOK
<1> QED
  BY <1>1

\* A broker list wakes no order: it names only orders that were POSTed, and
\* those wait for no print.
LEMMA ReconcileWakesNone ==
  ASSUME BookTypeOK, \A i \in Orders : Custody(i), NEW rows \in [Orders -> Row],
         \A i \in Orders : posts[i] = 0 => ~Listed(rows[i]),
         NEW adopt \in BOOLEAN, Reconcile(rows, ConfirmListed(rows), adopt)
  PROVE  \A i \in Orders : Live(orders'[i]) => Live(orders[i])
<1>1. ASSUME NEW i \in Orders, Live(orders'[i]) PROVE Live(orders[i])
  <2> DEFINE o == Overlay(orders[i], rows[i])
             c == ConfirmListed(rows)[i]
  <2>1. orders[i] \in Order /\ rows[i] \in Row /\ Custody(i)
    BY DEF BookTypeOK
  <2>2. o \in Order
    BY <2>1, OverlayType
  <2>3. c \in Change /\ WakesNone(o, c)
    <3>1. WakesNone(o, NoChange) /\ WakesNone(o, ConfirmSell(o))
      BY <2>2, HandlersWakeNone
    <3>2. NoChange \in Change /\ ConfirmSell(o) \in Change
      BY <2>2, HeldChangeTypes, EmptyTypes
    <3> QED BY <3>1, <3>2 DEF ConfirmListed
  <2>4. orders'[i] = Apply(o, c)
    BY DEF Reconcile
  <2> HIDE DEF o, c
  <2>5. Live(o)
    BY <1>1, <2>2, <2>3, <2>4, ApplyWakesNone
  <2>6. Listed(rows[i]) => o.held = orders[i].held /\ orders[i].held.phase \notin WaitPhases
    <3>1. ASSUME Listed(rows[i]) PROVE orders[i].held.phase \notin WaitPhases
      BY <2>1, <3>1 DEF Custody, Unlinked, NoHeld, WaitPhases, Pretrigger
    <3>2. o.held = orders[i].held
      BY <2>1, OverlayFacts DEF o
    <3> QED BY <3>1, <3>2
  <2>7. ~Listed(rows[i]) => o = orders[i]
    BY DEF o, Overlay
  <2> QED BY <2>5, <2>6, <2>7 DEF Live, WaitPhases
<1> QED
  BY <1>1

\* The commands about one order: an order starts to wait only armed, and a
\* SELL only with its position known and no Flatten pending.
LEMMA OrderCommandWaits ==
  ASSUME WInv, OrderCommand
  PROVE  Waiting'
<1> USE DEF WInv
<1>0. /\ VenueTypeOK /\ CoreTypeOK /\ BookTypeOK /\ Waiting
      /\ \A j \in Orders : orders[j] \in Order
  BY DEF IInv, TypeInv, TypeOK, CoreTypeOK, BookTypeOK
<1>1. \A q \in 1 .. MaxQty : q \in Qtys
  BY QtyAssumption DEF Qtys
\* an order that may start to wait: everything else stays
<1>2. ASSUME NEW i \in Orders, armed, i \in Sells => ready /\ ~flattenPending,
             \A j \in Orders \ {i} : Live(orders'[j]) => Live(orders[j]),
             UNCHANGED <<up, ready, flattenPending, armed>>
      PROVE  Waiting'
  <2>1. HeldSellLiveOnlyWhenReady'
    BY <1>0, <1>2, IdsAssumption DEF Waiting, HeldSellLiveOnlyWhenReady, Live, Working
  <2>2. DisarmedIsPaused'
    BY <1>2 DEF DisarmedIsPaused
  <2> QED BY <2>1, <2>2 DEF Waiting
<1>3. ASSUME NEW i \in Orders, SubmitNative(i) PROVE Waiting'
  <2>1. PICK o : AppendSubmitted(i, o) /\ o.held = NoHeld
    <3>1. \A q, a : NewOrder(q, a, NoHeld).held = NoHeld /\ BlockedOrder(q).held = NoHeld
      BY DEF NewOrder, BlockedOrder, NoOrder
    <3> QED BY <1>3, <3>1 DEF SubmitNative
  <2>2. \A j \in Orders : Live(orders'[j]) => Live(orders[j])
    BY <1>0, <2>1 DEF AppendSubmitted, BookTypeOK, Live, NoHeld
  <2>3. UNCHANGED <<up, ready, flattenPending, armed>>
    BY <1>3 DEF SubmitNative
  <2> QED BY <1>0, <2>2, <2>3, StillWaits
<1>4. ASSUME NEW i \in Orders, SubmitHeld(i) PROVE Waiting'
  <2>1. PICK o : /\ AppendSubmitted(i, o)
                 /\ o.held = NoHeld \/ (armed /\ (i \in Sells => ready /\ ~flattenPending))
    <3>1. \A q : BlockedOrder(q).held = NoHeld
      BY DEF BlockedOrder, NoOrder
    <3>2. \A q : (Guarded(i) => LeavesOk(i, q)) => (i \in Sells => ready /\ ~flattenPending)
      BY DEF Guarded, LeavesOk
    <3> QED BY <1>4, <3>1, <3>2 DEF SubmitHeld
  <2>2. \A j \in Orders \ {i} : orders'[j] = orders[j]
    BY <1>0, <2>1 DEF AppendSubmitted, BookTypeOK
  <2>3. orders'[i] = o
    BY <1>0, <2>1 DEF AppendSubmitted, BookTypeOK
  <2>4. UNCHANGED <<up, ready, flattenPending, armed>>
    BY <1>4 DEF SubmitHeld
  <2>5. CASE o.held = NoHeld
    <3>1. \A j \in Orders : Live(orders'[j]) => Live(orders[j])
      BY <2>2, <2>3, <2>5 DEF Live, NoHeld
    <3> QED BY <1>0, <2>4, <3>1, StillWaits
  <2>6. CASE armed /\ (i \in Sells => ready /\ ~flattenPending)
    BY <1>2, <2>2, <2>4, <2>6
  <2> QED BY <2>1, <2>5, <2>6
<1>5. ASSUME NEW i \in Orders, CancelOrder(i) PROVE Waiting'
  <2>1. Cancel(orders[i]) \in Change /\ WakesNone(orders[i], Cancel(orders[i]))
    BY <1>0, HandlerTypes, HandlersWakeNone
  <2>2. /\ AppendAndFold(Only(i, Cancel(orders[i])))
        /\ UNCHANGED <<up, ready, flattenPending, armed>>
    BY <1>5 DEF CancelOrder
  <2> QED BY <1>0, <2>1, <2>2, OnlyWakesNone, StillWaits
<1>6. ASSUME NEW i \in Orders, ReplaceOrder(i) PROVE Waiting'
  <2>1. PICK q \in 1 .. MaxQty :
          /\ AppendAndFold(Only(i, ActionChange(Requested("REPLACE", q))))
          /\ UNCHANGED <<up, ready, flattenPending, armed>>
    BY <1>6 DEF ReplaceOrder
  <2> DEFINE c == ActionChange(Requested("REPLACE", q))
  <2>2. c \in Change /\ WakesNone(orders[i], c)
    BY <1>0, <1>1, ChangeTypes, HandlersWakeNone DEF ActionKinds
  <2> HIDE DEF c
  <2>3. AppendAndFold(Only(i, c))
    BY <2>1 DEF c
  <2> QED BY <1>0, <2>1, <2>2, <2>3, OnlyWakesNone, StillWaits
<1>7. ASSUME NEW i \in Orders, ReplaceHeld(i) PROVE Waiting'
  <2>1. PICK q \in 1 .. MaxQty :
          /\ AppendAndFold(Only(i, LifeChange(ReplaceEvent(q))))
          /\ UNCHANGED <<up, ready, flattenPending, armed>>
    BY <1>7 DEF ReplaceHeld
  <2> DEFINE c == LifeChange(ReplaceEvent(q))
  <2>2. c \in Change /\ WakesNone(orders[i], c)
    BY <1>0, <1>1, LifeTypes, ChangeTypes, HandlersWakeNone
  <2> HIDE DEF c
  <2>3. AppendAndFold(Only(i, c))
    BY <2>1 DEF c
  <2> QED BY <1>0, <2>1, <2>2, <2>3, OnlyWakesNone, StillWaits
<1>8. ASSUME NEW i \in Orders, ResumeHeld(i) PROVE Waiting'
  <2>1. PICK c : AppendAndFold(Only(i, c))
    BY <1>8 DEF ResumeHeld
  <2>2. /\ armed /\ (i \in Sells => ready /\ ~flattenPending)
        /\ UNCHANGED <<up, ready, flattenPending, armed>>
    BY <1>8 DEF ResumeHeld
  <2>3. ASSUME NEW j \in Orders \ {i}, Live(orders'[j]) PROVE Live(orders[j])
    <3>1. orders'[j] = Apply(orders[j], NoChange)
      BY <2>1 DEF AppendAndFold, Only
    <3> QED BY <1>0, <2>3, <3>1, ApplyWakesNone, HandlersWakeNone, EmptyTypes
  <2> QED BY <1>2, <2>2, <2>3
<1> QED
  BY <1>3, <1>4, <1>5, <1>6, <1>7, <1>8 DEF OrderCommand

\* The commands about the account, and the held timer: a disarm and a kill
\* leave no order waiting, a Flatten no SELL.
LEMMA AccountCommandWaits ==
  ASSUME WInv, AccountCommand \/ ExpireHeldOrders
  PROVE  Waiting'
<1> USE DEF WInv
<1>0. /\ VenueTypeOK /\ CoreTypeOK /\ BookTypeOK /\ Waiting
      /\ \A j \in Orders : orders[j] \in Order
  BY DEF IInv, TypeInv, TypeOK, CoreTypeOK, BookTypeOK
<1>1. CASE Arm
  <2>1. UNCHANGED <<up, ready, flattenPending, orders>> /\ armed' = TRUE
    BY <1>1 DEF Arm, bookVars
  <2> QED BY <1>0, <2>1, StillWaits
<1>2. CASE DisarmMaster
  <2>1. ASSUME NEW i \in Orders PROVE ~Live(orders'[i])
    <3>1. orders'[i] = Apply(orders[i], Disarm(orders[i], FALSE))
      BY <1>2 DEF DisarmMaster, AppendAndFold
    <3> QED BY <1>0, <3>1, StopsWaiting
  <2> QED BY <2>1, NoneWaits
<1>3. CASE AutoDisarm
  <2>1. "stale" \in Upsets /\ UNCHANGED <<up, ready, flattenPending, orders>>
    BY <1>3 DEF AutoDisarm, Upset, bookVars
  <2> QED BY <1>0, <2>1, StillWaits
<1>4. CASE KillSwitch
  <2>1. ASSUME NEW i \in Orders PROVE ~Live(orders'[i])
    <3>1. orders'[i] = Apply(orders[i], Kill(orders[i]))
      BY <1>4 DEF KillSwitch, AppendAndFold
    <3> QED BY <1>0, <3>1, StopsWaiting
  <2> QED BY <2>1, NoneWaits
<1>5. CASE Flatten
  <2>1. ASSUME NEW i \in Orders
        PROVE  orders'[i] = Apply(orders[i], IF Guarded(i) THEN Pause(orders[i]) ELSE NoChange)
    BY <1>5 DEF Flatten, AppendAndFold
  <2>2. ASSUME NEW i \in Sells PROVE ~Live(orders'[i])
    <3>1. i \in Orders /\ Guarded(i)
      BY IdsAssumption DEF Guarded
    <3> QED BY <1>0, <2>1, <3>1, StopsWaiting
  <2>3. ASSUME NEW i \in Orders, Live(orders'[i]) PROVE Live(orders[i])
    <3>1. WakesNone(orders[i], NoChange) /\ NoChange \in Change
      BY <1>0, HandlersWakeNone, EmptyTypes
    <3> QED BY <1>0, <2>1, <2>3, <3>1, StopsWaiting, ApplyWakesNone
  <2>4. UNCHANGED <<up, armed>>
    BY <1>5 DEF Flatten
  <2>5. HeldSellLiveOnlyWhenReady'
    BY <2>2 DEF HeldSellLiveOnlyWhenReady, Live, Working
  <2>6. "stale" \notin Upsets => DisarmedIsPaused'
    BY <1>0, <2>3, <2>4 DEF Waiting, DisarmedIsPaused, Live, Working
  <2> QED BY <2>5, <2>6 DEF Waiting
<1>6. CASE ExpireHeldOrders
  <2> DEFINE chg == [i \in Orders |-> Expire(orders[i])]
  <2>1. chg \in [Orders -> Change] /\ \A i \in Orders : WakesNone(orders[i], chg[i])
    BY <1>0, HandlerTypes, HandlersWakeNone
  <2>2. AppendAndFold(chg) /\ UNCHANGED <<up, ready, flattenPending, armed>>
    BY <1>6 DEF ExpireHeldOrders
  <2> HIDE DEF chg
  <2> QED BY <1>0, <2>1, <2>2, AppendWakesNone, StillWaits
<1> QED
  BY <1>1, <1>2, <1>3, <1>4, <1>5, <1>6 DEF AccountCommand

\* The broker events and the results of the goroutines.
LEMMA EventWaits ==
  ASSUME WInv, StreamEvent \/ JobResult
  PROVE  Waiting'
<1> USE DEF WInv
<1>0. /\ VenueTypeOK /\ CoreTypeOK /\ BookTypeOK /\ Waiting
      /\ \A j \in Orders : orders[j] \in Order
      /\ \A j \in Orders : Custody(j) /\ (posts[j] = 0 => Quiet(j))
  BY DEF IInv, TypeInv, TypeOK, CoreTypeOK, BookTypeOK, CustodyInv
<1>1. \A r, p : ClearFlatten(r, p) => (flattenPending' => flattenPending)
  BY DEF ClearFlatten
<1>2. ASSUME NEW i \in Orders, posts[i] # 0 PROVE orders[i].held.phase \notin WaitPhases
  BY <1>0, <1>2 DEF Custody, Unlinked, NoHeld, WaitPhases, Pretrigger
<1>3. CASE OnLives
  <2> DEFINE ls == Head(wire).lives
             chg == [i \in Orders |-> OnLife(orders[i], ls[i])]
  <2>1. Receive("Lives") /\ FoldLives(ls) /\ UNCHANGED <<up, ready, armed>>
    BY <1>3 DEF OnLives
  <2>2. ls \in [Orders -> Life]
    BY <1>0, <2>1, ReceiveType DEF Msgs
  <2>3. ASSUME NEW i \in Orders PROVE orders[i].held.phase \notin WaitPhases \/ ls[i] = NoEvent
    <3>1. CASE posts[i] # 0
      BY <1>2, <3>1
    <3>2. CASE posts[i] = 0
      <4>1. wire \in Seq(QuietMsgs(i)) /\ wire # <<>>
        BY <1>0, <2>1, <3>2 DEF Quiet, Receive
      <4>2. Head(wire) \in QuietMsgs(i)
        BY <4>1, HeadTailProperties
      <4> QED BY <4>2 DEF QuietMsgs
    <3> QED BY <3>1, <3>2
  <2> HIDE DEF ls
  <2>4. chg \in [Orders -> Change] /\ \A i \in Orders : WakesNone(orders[i], chg[i])
    BY <1>0, <2>2, <2>3, HandlerTypes, HandlersWakeNone
  <2>5. AppendAndFold(chg) /\ (flattenPending' => flattenPending)
    BY <1>1, <2>1 DEF FoldLives
  <2> HIDE DEF chg
  <2> QED BY <1>0, <2>1, <2>4, <2>5, AppendWakesNone, StillWaits
<1>4. CASE OnPosition \/ OnPositions
  <2>1. UNCHANGED <<up, ready, armed, orders>> /\ (flattenPending' => flattenPending)
    BY <1>1, <1>4 DEF OnPosition, OnPositions, bookVars
  <2> QED BY <1>0, <2>1, StillWaits
<1>5. CASE OnOpenOrders
  <2> DEFINE rows == Head(wire).rows
  <2>1. /\ Receive("BrokerOpenOrders") /\ Reconcile(rows, ConfirmListed(rows), TRUE)
        /\ ready' = TRUE /\ UNCHANGED <<up, armed>> /\ (flattenPending' => flattenPending)
    BY <1>1, <1>5 DEF OnOpenOrders
  <2>2. rows \in [Orders -> Row]
    BY <1>0, <2>1, ReceiveType DEF Msgs
  <2>3. ASSUME NEW i \in Orders, posts[i] = 0 PROVE ~Listed(rows[i])
    <3>1. wire \in Seq(QuietMsgs(i)) /\ wire # <<>>
      BY <1>0, <2>1, <2>3 DEF Quiet, Receive
    <3>2. Head(wire) \in QuietMsgs(i)
      BY <3>1, HeadTailProperties
    <3> QED BY <3>2 DEF QuietMsgs
  <2> HIDE DEF rows
  <2>4. \A i \in Orders : Live(orders'[i]) => Live(orders[i])
    BY <1>0, <2>1, <2>2, <2>3, ReconcileWakesNone
  <2> QED BY <1>0, <2>1, <2>4, StillWaits
<1>6. ASSUME NEW k, OnStreamBreak(k) PROVE Waiting'
  BY <1>0, <1>6, PauseAll, NoneWaits DEF OnStreamBreak
<1>7. CASE OnSnapshot
  <2> DEFINE rows == flatJob.rows
  <2>1. /\ Reconcile(rows, ConfirmListed(rows), FALSE)
        /\ ready' = TRUE /\ UNCHANGED <<up, armed>> /\ (flattenPending' => flattenPending)
    BY <1>1, <1>7 DEF OnSnapshot
  <2>2. rows \in [Orders -> Row]
    BY <1>0 DEF VenueTypeOK, FlatJobs
  <2>3. \A i \in Orders : posts[i] = 0 => ~Listed(rows[i])
    BY <1>0 DEF Quiet
  <2> HIDE DEF rows
  <2>4. \A i \in Orders : Live(orders'[i]) => Live(orders[i])
    BY <1>0, <2>1, <2>2, <2>3, ReconcileWakesNone
  <2> QED BY <1>0, <2>1, <2>4, StillWaits
<1>8. ASSUME NEW x \in outcomes, OnOutcome(x) PROVE Waiting'
  <2> DEFINE o == orders[x.id]
             c == OnOutcomeChange(x)
  <2>1. x \in Outcomes /\ x.id \in Orders /\ o \in Order /\ o.held \in Held
    BY <1>0 DEF VenueTypeOK, Outcomes, Order
  <2>2. /\ AppendAndFold(Only(x.id, c)) /\ UNCHANGED <<up, ready, armed>>
        /\ flattenPending' => flattenPending
    BY <1>1, <1>8 DEF OnOutcome
  <2>3. c \in Change
    BY <1>0, <2>1, OutcomeChangeType
  <2>4. WakesNone(o, c)
    <3>1. WakesNone(o, NoChange) /\ \A a : WakesNone(o, ActionChange(a))
      BY <2>1, HandlersWakeNone
    <3>2. WakesNone(o, OnSubmitOutcome(x)) /\ WakesNone(o, OnActionOutcome(x))
      BY <3>1 DEF OnSubmitOutcome, OnActionOutcome
    <3>3. WakesNone(o, OnActivationOutcome(x))
      <4>1. CASE ~ActivationDoubted(o)
        BY <3>1, <4>1 DEF OnActivationOutcome
      <4>2. CASE ActivationDoubted(o)
        <5> DEFINE h == [o.held EXCEPT !.phase = "UNKNOWN", !.cancelSent = @ \/ CancelNow(o)]
        <5>1. OnActivationOutcome(x).held = h /\ OnActivationOutcome(x).life.ev = "NoEvent"
          BY <4>2 DEF OnActivationOutcome, HeldChange, NoChange, NoEvent, LifeEvent
        <5>2. h.phase = "UNKNOWN"
          BY <2>1 DEF Held
        <5> HIDE DEF h
        <5> QED BY <5>1, <5>2 DEF WakesNone, WaitPhases, QuietingKinds
      <4> QED BY <4>1, <4>2
    <3>4. WakesNone(o, OnLife(o, LifeEvent("OrderRejected")))
      <4>1. /\ OnLife(o, LifeEvent("OrderRejected")).life.ev = "OrderRejected"
            /\ OnLife(o, LifeEvent("OrderRejected")).held = KeepHeld
        BY DEF OnLife, LifeEvent
      <4> QED BY <4>1 DEF WakesNone, WaitPhases, QuietingKinds, KeepHeld, NoHeld
    <3> QED
      BY <2>1, <3>2, <3>3, <3>4 DEF OnOutcomeChange, Outcomes, RequestKinds, SubmitKinds
  <2> HIDE DEF c
  <2>5. \A j \in Orders : Live(orders'[j]) => Live(orders[j])
    BY <1>0, <2>1, <2>2, <2>3, <2>4, OnlyWakesNone
  <2> QED BY <1>0, <2>2, <2>5, StillWaits
<1> QED
  BY <1>3, <1>4, <1>5, <1>6, <1>7, <1>8 DEF StreamEvent, JobResult

\* Prints and the clock: a print arms or activates what already waits.
LEMMA HeldStepWaits ==
  ASSUME WInv, EligiblePrint \/ PrintGap \/ Tick \/ (\E i \in Orders : EvaluateHeld(i))
  PROVE  Waiting'
<1> USE DEF WInv
<1>0. /\ CoreTypeOK /\ BookTypeOK /\ Waiting
      /\ \A j \in Orders : orders[j] \in Order
  BY DEF IInv, TypeInv, TypeOK, CoreTypeOK, BookTypeOK
<1>1. CASE EligiblePrint \/ Tick
  <2>1. UNCHANGED <<up, ready, flattenPending, armed, orders>>
    BY <1>1 DEF EligiblePrint, Tick, bookVars
  <2> QED BY <1>0, <2>1, StillWaits
<1>2. CASE PrintGap
  BY <1>0, <1>2, PauseAll, NoneWaits DEF PrintGap
<1>3. ASSUME NEW i \in Orders, EvaluateHeld(i) PROVE Waiting'
  <2> DEFINE o == orders[i]
  <2>1. UNCHANGED <<up, ready, flattenPending, armed>>
    BY <1>3 DEF EvaluateHeld
  <2>2. PICK c : /\ AppendAndFold(Only(i, c))
                 /\ \/ c = Activation(o)
                    \/ c = NoChange
                    \/ c = LifeChange(LifeEvent("OrderExpired"))
                    \/ Live(o) /\ c = HeldTo(o, "ARMED")
                    \/ c = HeldTo(o, "PAUSED")
                    \/ c = LifeChange(LifeEvent("OrderRejected"))
    <3> DEFINE post == Live(o) /\ now < Deadline /\ i \in lastPrint.hit
               d == CASE ~Live(o) -> NoChange
                      [] Live(o) /\ now >= Deadline -> LifeChange(LifeEvent("OrderExpired"))
                      [] Live(o) /\ now < Deadline /\ ~post -> HeldTo(o, "ARMED")
                      [] post -> ActivationStops(i)
    <3>1. AppendAndFold(Only(i, Activation(o))) \/ AppendAndFold(Only(i, d))
      BY <1>3 DEF EvaluateHeld
    <3>2. \/ d = NoChange
          \/ d = LifeChange(LifeEvent("OrderExpired"))
          \/ Live(o) /\ d = HeldTo(o, "ARMED")
          \/ d = HeldTo(o, "PAUSED")
          \/ d = LifeChange(LifeEvent("OrderRejected"))
      <4>1. ~(now >= Deadline) <=> now < Deadline
        BY <1>0, HeldTimeAssumption DEF CoreTypeOK
      <4>2. \/ ~Live(o) /\ d = NoChange
            \/ Live(o) /\ now >= Deadline /\ d = LifeChange(LifeEvent("OrderExpired"))
            \/ Live(o) /\ now < Deadline /\ ~post /\ d = HeldTo(o, "ARMED")
            \/ post /\ d = ActivationStops(i)
        BY <4>1
      <4>3. \/ ActivationStops(i) = HeldTo(o, "PAUSED")
            \/ ActivationStops(i) = LifeChange(LifeEvent("OrderRejected"))
        BY DEF ActivationStops
      <4> HIDE DEF d
      <4> QED BY <4>2, <4>3
    <3> HIDE DEF d
    <3> QED BY <3>1, <3>2
  <2>3. Activation(o) \in Change /\ WakesNone(o, Activation(o))
    <3> DEFINE h == [o.held EXCEPT !.phase = "ACTIVATING", !.child = TRUE,
                                   !.cancelRequested = FALSE]
    <3>1. h \in Held /\ h.phase = "ACTIVATING"
      BY <1>0 DEF Order, Held, HeldPhases
    <3>2. Activation(o) = HeldChange(h)
      BY DEF Activation
    <3> HIDE DEF h
    <3>3. HeldChange(h) \in Change /\ HeldChange(h).held = h /\ HeldChange(h).life.ev = "NoEvent"
      BY <3>1, EmptyTypes DEF HeldChange, NoChange, Change, NoEvent, LifeEvent
    <3> QED BY <3>1, <3>2, <3>3 DEF WakesNone, WaitPhases, QuietingKinds
  <2>4. c \in Change /\ WakesNone(o, c)
    <3>1. /\ NoChange \in Change
          /\ LifeChange(LifeEvent("OrderExpired")) \in Change
          /\ LifeChange(LifeEvent("OrderRejected")) \in Change
          /\ HeldTo(o, "PAUSED") \in Change /\ HeldTo(o, "ARMED") \in Change
      BY <1>0, EmptyTypes, LifeTypes, ChangeTypes, HeldChangeTypes
         DEF LifeKinds, HeldPhases, Pretrigger
    <3>2. /\ WakesNone(o, NoChange)
          /\ WakesNone(o, LifeChange(LifeEvent("OrderExpired")))
          /\ WakesNone(o, LifeChange(LifeEvent("OrderRejected")))
          /\ WakesNone(o, HeldTo(o, "PAUSED"))
          /\ Live(o) => WakesNone(o, HeldTo(o, "ARMED"))
      BY <1>0, HandlersWakeNone DEF QuietingKinds
    <3> QED BY <2>2, <2>3, <3>1, <3>2
  <2> HIDE DEF o
  <2>5. \A j \in Orders : Live(orders'[j]) => Live(orders[j])
    BY <1>0, <2>2, <2>4, OnlyWakesNone DEF o
  <2> QED BY <1>0, <2>1, <2>5, StillWaits
<1> QED
  BY <1>1, <1>2, <1>3

\* A restart: a process that is gone has no order waiting, and Recover pauses
\* every parent that waited when it died.
LEMMA ProcessWaits ==
  ASSUME WInv, Process
  PROVE  Waiting'
<1>1. CASE Crash \/ ShutdownEngine
  <2>1. up' = FALSE
    BY <1>1 DEF Crash, ShutdownEngine, MemoryLost
  <2> QED BY <2>1, DownWaits
<1>2. ASSUME NEW ok \in BOOLEAN, Recover(ok) PROVE Waiting'
  <2>0. PICK rows \in (IF ok THEN Readings ELSE {NoRows}) :
          misread' = misread \cup OddIn(rows) /\ RecoverWith(rows)
    BY <1>2, RecoverReads
  <2> DEFINE m == [i \in Orders |-> Overlay(logged[i], rows[i])]
             act(i) == RecoveredAction(i, m[i], Listed(rows[i]))
             held(i) == RecoveredHeld(m[i], Listed(rows[i]))
  <2>1. orders' = [i \in Orders |-> [m[i] EXCEPT !.action = act(i), !.held = held(i)]]
    BY <2>0 DEF RecoverWith
  <2>2. ASSUME NEW i \in Orders PROVE ~Live(orders'[i])
    <3>1. m[i] \in Order
      <4>1. logged[i] \in Order /\ rows[i] \in Row
        BY RowsType DEF WInv, IInv, TypeInv, TypeOK, CoreTypeOK, VenueTypeOK, BookTypeOK
      <4> QED BY <4>1, OverlayType
    <3>2. orders'[i].status = m[i].status /\ orders'[i].held = held(i)
      BY <2>1, <3>1 DEF Order
    <3>3. Working(m[i]) => held(i).phase \notin WaitPhases
      <4> DEFINE h == m[i].held
      <4>1. h \in Held
        BY <3>1 DEF Order
      <4>2. SUFFICES ASSUME Working(m[i]) PROVE held(i).phase \notin WaitPhases
        BY Zenon
      <4>3. \/ held(i) = [h EXCEPT !.phase = "PAUSED"]
            \/ \E p \in {"WORKING", "UNKNOWN"} : held(i) = [h EXCEPT !.phase = p]
            \/ \E p \in {"CANCEL_REQUESTED", "UNKNOWN"}, a \in BOOLEAN, b \in BOOLEAN :
                 held(i) = [h EXCEPT !.phase = p, !.cancelRequested = a, !.cancelSent = b]
            \/ h.phase \notin WaitPhases /\ held(i) = h
        BY <4>2, ZenonT(60) DEF RecoveredHeld, WaitPhases
      <4> HIDE DEF held, m
      <4> QED BY <4>1, <4>3 DEF Held, WaitPhases
    <3> HIDE DEF m, held
    <3> QED BY <3>2, <3>3 DEF Live, Working, WaitPhases
  <2> QED BY <2>2, NoneWaits
<1> QED
  BY <1>1, <1>2 DEF Process

-----------------------------------------------------------------------------
(* The theorems *)

\* No order waits at the start.
LEMMA InitWaits == Init => Waiting
<1>1. ASSUME Init, NEW i \in Orders PROVE ~Live(orders[i])
  BY <1>1 DEF Init, Live, Working, WorkingStatus, NoOrder
<1> QED
  BY <1>1, IdsAssumption DEF Waiting, HeldSellLiveOnlyWhenReady, DisarmedIsPaused, Live, Working

\* Every step keeps it.
LEMMA NextWaits == WInv /\ [Next]_vars => Waiting'
<1> SUFFICES ASSUME WInv, [Next]_vars PROVE Waiting'
  OBVIOUS
<1>1. CASE Outside
  <2>1. UNCHANGED <<up, ready, flattenPending, armed, orders>>
    BY <1>1 DEF Outside, coreVars, bookVars
  <2> QED BY <2>1, StillWaits DEF WInv
<1>2. CASE HeldStep \/ \E i \in Orders : EvaluateHeld(i)
  BY <1>2, HeldStepWaits, AccountCommandWaits DEF HeldStep
<1>3. CASE Next
  BY <1>1, <1>2, <1>3, OrderCommandWaits, AccountCommandWaits, EventWaits, ProcessWaits DEF Next
<1>4. CASE UNCHANGED vars
  <2>1. UNCHANGED <<up, ready, flattenPending, armed, orders>>
    BY <1>4 DEF vars, coreVars, bookVars
  <2> QED BY <2>1, StillWaits DEF WInv
<1> QED
  BY <1>3, <1>4

\* Over the custody invariant, waiting is inductive.
LEMMA WaitingInvariant == Spec => []WInv
<1>1. Init => Waiting
  BY InitWaits
<1>2. IInv /\ Waiting /\ [Next]_vars => Waiting'
  BY NextWaits DEF WInv
<1>3. WInv <=> IInv /\ Waiting
  BY DEF WInv
<1> QED
  BY <1>1, <1>2, <1>3, CustodyInvariant, PTL DEF Spec

\* A held SELL waits for a print only while the position it exits is known
\* and no Flatten is pending: whatever makes the position unknown pauses it,
\* a restart included (handleBrokerEvent, handleFlatten, Recover), and only a
\* Resume that finds both brings it back (handleResumeHeld).
THEOREM HeldSellsWaitSafely == Spec => []HeldSellLiveOnlyWhenReady
<1>1. WInv => HeldSellLiveOnlyWhenReady
  BY DEF WInv, Waiting
<1> QED
  BY <1>1, WaitingInvariant, PTL

\* Where nothing but the operator disarms the engine, a disarmed engine has no
\* held order waiting (disarmHeld, handleKill, Recover).  The assumption is
\* needed: BrokerAccountFresh disarms and leaves the held orders as they are.
THEOREM DisarmStops == ASSUME "stale" \notin Upsets PROVE Spec => []DisarmedIsPaused
<1>1. WInv => DisarmedIsPaused
  BY DEF WInv, Waiting
<1> QED
  BY <1>1, WaitingInvariant, PTL

-----------------------------------------------------------------------------
(***************************************************************************)
(* What the core calls done is done at the broker, for every set of orders *)
(* and every bound.                                                        *)
(***************************************************************************)

\* the statuses the core calls done, and the events that lead to them
Done == {"FILLED", "CANCELED", "EXPIRED"}
Ending(e) == e.ev \in {"OrderCanceled", "OrderExpired"} \/ (e.ev = "OrderFilled" /\ e.leaves = 0)

\* An order has one submission, which is gone once it landed; what rests at
\* the broker has shares left.
Alone(i) ==
  /\ SubmitInFlight(i) => venue[i].st = "none"
  /\ \A r, s \in {q \in net : q.kind \in SubmitKinds /\ q.id = i} : r = s
  /\ venue[i].st = "none" => venue[i].exec = 0
  /\ OpenAt(i) => venue[i].exec < venue[i].qty \/ venue[i].exec = 0

\* Of an order that may still trade neither the book, nor the log, nor an
\* event or a list on its way says that it is done, unless a list of the
\* broker said so itself.
PlainRow(r) == Listed(r) => r.as = "open"
Unending(i) == {m \in Msgs : ~Ending(m.lives[i]) /\ PlainRow(m.rows[i])}
Afoot(i) == /\ orders[i].status \notin Done /\ logged[i].status \notin Done
            /\ wire \in Seq(Unending(i)) /\ PlainRow(flatJob.rows[i])
Truth == \A i \in Orders : Alone(i) /\ (AtBroker(i) /\ i \notin misread => Afoot(i))
TInv == LInv /\ Truth

-----------------------------------------------------------------------------
(* What a handler does to one order *)

\* A change that ends nothing leaves an order that is not done so.
LEMMA ApplyEndsNone ==
  ASSUME NEW o \in Order, NEW c, c.life \in Life, ~Ending(c.life), o.status \notin Done
  PROVE  Apply(o, c).status \notin Done
<1> USE DEF Order
<1>1. CASE o.status = "NONE"
  BY <1>1 DEF Apply
<1>2. CASE o.status # "NONE"
  <2>1. FoldLife(o, c.life) \in Order
    BY FoldLifeType
  <2>2. Apply(o, c).status = FoldLife(o, c.life).status
    BY <1>2, <2>1 DEF Apply
  <2>3. FoldLife(o, c.life).status \notin Done
    <3> USE DEF Done
    <3>1. CASE c.life.ev = "NoEvent"
      BY <3>1 DEF FoldLife
    <3>2. CASE c.life.ev = "OrderAccepted"
      BY <3>2 DEF FoldLife, FoldAccepted
    <3>3. CASE c.life.ev = "OrderRejected"
      BY <3>3 DEF FoldLife, FoldRejected
    <3>4. CASE c.life.ev = "OrderFilled"
      BY <3>4 DEF FoldLife, FoldFilled, Ending
    <3>5. CASE c.life.ev = "OrderReplaced"
      BY <3>5 DEF FoldLife, FoldReplaced
    <3> QED BY <3>1, <3>2, <3>3, <3>4, <3>5 DEF Ending, Life, LifeKinds
  <2> QED BY <2>2, <2>3
<1> QED
  BY <1>1, <1>2

\* A command or a timer ends only an order that never left the engine.
Mild(c) == c.life \in Life /\ ~Ending(c.life)
LEMMA HandlersAreMild ==
  /\ Mild(NoChange)
  /\ \A e \in Life : ~Ending(e) => Mild(LifeChange(e)) /\ \A o : Mild(OnLife(o, e))
  /\ \A a : Mild(ActionChange(a))
  /\ \A h : Mild(HeldChange(h))
  /\ ~Ending(LifeEvent("OrderRejected")) /\ \A q : ~Ending(ReplaceEvent(q))
  /\ \A o : /\ Mild(Pause(o)) /\ Mild(ConfirmSell(o)) /\ Mild(Shutdown(o))
            /\ \A p : Mild(HeldTo(o, p))
            /\ o.held.phase \notin Pretrigger =>
                 /\ Mild(Cancel(o)) /\ Mild(Kill(o)) /\ Mild(Expire(o))
                 /\ \A k \in BOOLEAN : Mild(Disarm(o, k))
<1> USE DEF Mild
<1>1. NoEvent \in Life /\ NoEvent.ev = "NoEvent" /\ ~Ending(NoEvent)
  BY LifeTypes DEF NoEvent, LifeEvent, Ending
<1>2. NoChange.life = NoEvent
  BY DEF NoChange
<1>3. \A e : LifeChange(e).life = e /\ \A o : OnLife(o, e).life = e
  BY DEF LifeChange, NoChange, OnLife
<1>4. \A a : ActionChange(a).life = NoEvent
  BY DEF ActionChange, NoChange
<1>5. \A h : HeldChange(h).life = NoEvent
  BY DEF HeldChange, NoChange
<1>6. ~Ending(LifeEvent("OrderRejected")) /\ \A q : ~Ending(ReplaceEvent(q))
  BY DEF Ending, LifeEvent, ReplaceEvent
<1>7. /\ Mild(NoChange) /\ \A a : Mild(ActionChange(a)) /\ \A h : Mild(HeldChange(h))
      /\ \A e \in Life : ~Ending(e) => Mild(LifeChange(e)) /\ \A o : Mild(OnLife(o, e))
  BY <1>1, <1>2, <1>3, <1>4, <1>5
<1> HIDE DEF Mild
<1>8. ASSUME NEW o
      PROVE  /\ Mild(Pause(o)) /\ Mild(ConfirmSell(o)) /\ Mild(Shutdown(o))
             /\ \A p : Mild(HeldTo(o, p))
             /\ o.held.phase \notin Pretrigger =>
                  /\ Mild(Cancel(o)) /\ Mild(Kill(o)) /\ Mild(Expire(o))
                  /\ \A k \in BOOLEAN : Mild(Disarm(o, k))
  <2>1. \A p : Mild(HeldTo(o, p))
    BY <1>7 DEF HeldTo
  <2>2. Mild(AskCancel(o))
    <3>1. CASE Unresolved(o, "CANCEL")
      BY <1>7, <3>1 DEF AskCancel
    <3>2. CASE ~Unresolved(o, "CANCEL")
      <4>1. AskCancel(o).life = NoEvent
        BY <3>2 DEF AskCancel, NoChange
      <4> QED BY <1>1, <4>1 DEF Mild
    <3> QED BY <3>1, <3>2
  <2>3. Mild(Pause(o)) /\ Mild(ConfirmSell(o))
    BY <1>7, <2>1 DEF Pause, ConfirmSell
  <2>4. Mild(Shutdown(o))
    <3> DEFINE d == [NoChange EXCEPT
                       !.action = Requested("CANCEL", 0),
                       !.held = [o.held EXCEPT !.phase = "CANCEL_REQUESTED",
                                   !.cancelRequested = TRUE, !.cancelSent = TRUE]]
    <3>1. d.life = NoEvent
      BY DEF NoChange
    <3>2. Mild(d)
      BY <1>1, <3>1 DEF Mild
    <3> HIDE DEF d
    <3> QED BY <1>7, <2>1, <2>2, <3>2 DEF Shutdown, d
  <2>5. ASSUME o.held.phase \notin Pretrigger
        PROVE  /\ Mild(Cancel(o)) /\ Mild(Kill(o)) /\ Mild(Expire(o))
               /\ \A k \in BOOLEAN : Mild(Disarm(o, k))
    <3>1. Mild(Cancel(o))
      BY <1>7, <2>2, <2>5 DEF Cancel
    <3>2. \A k \in BOOLEAN : Mild(Disarm(o, k))
      BY <1>7, <2>2, <2>5 DEF Disarm
    <3>3. Mild(Kill(o))
      BY <1>7, <3>1, <3>2 DEF Kill
    <3>4. Mild(Expire(o))
      BY <1>7, <2>2, <2>5 DEF Expire
    <3> QED BY <3>1, <3>2, <3>3, <3>4
  <2> QED BY <2>1, <2>3, <2>4, <2>5
<1> QED
  BY <1>6, <1>7, <1>8

\* What was POSTed no longer waits; what is at the broker, or may come to be,
\* was POSTed.
LEMMA SentNoLongerWaits ==
  ASSUME LInv, NEW i \in Orders, posts[i] # 0
  PROVE  orders[i].held.phase \notin Pretrigger /\ orders[i].status # "NONE"
<1>1. Custody(i)
  BY LInvFacts
<1> QED BY <1>1 DEF Custody, Unlinked, NoHeld, Pretrigger

LEMMA AtBrokerIsSent ==
  ASSUME LInv, NEW i \in Orders, AtBroker(i)
  PROVE  posts[i] # 0
BY LInvFacts DEF Quiet, AtBroker, OpenAt, NoVenueOrder

\* It came to be there by the step that POSTs it, or was before.
LEMMA StaysAfoot ==
  ASSUME LInv, [Next]_vars, IInv', NEW i \in Orders, AtBroker(i)'
  PROVE  AtBroker(i) \/ Sends(i)
<1>1. posts'[i] # 0
  BY DEF IInv, CustodyInv, Quiet, AtBroker, OpenAt, NoVenueOrder
<1>2. Local(i) \/ Begins(i) \/ Sends(i)
  BY NextMoves DEF Moves
<1> QED BY <1>1, <1>2 DEF Local, Begins

\* An order once misread stays so.
LEMMA MisreadGrows ==
  ASSUME [Next]_vars
  PROVE  misread \subseteq misread' /\ rewound \subseteq rewound'
<1>1. CASE UNCHANGED vars
  BY <1>1 DEF vars, venueVars, brokerVars
<1>2. CASE OrderCommand \/ AccountCommand
  BY <1>2, ZenonT(40) DEF OrderCommand, SubmitNative, SubmitHeld, CancelOrder, ReplaceOrder,
     ReplaceHeld, ResumeHeld, AccountCommand, Arm, DisarmMaster, AutoDisarm, KillSwitch, Flatten,
     venueVars, brokerVars, outside, NoneMisread
<1>3. CASE StreamEvent \/ JobResult
  BY <1>3 DEF StreamEvent, OnLives, OnPosition, OnPositions, OnOpenOrders, OnStreamBreak,
     JobResult, OnSnapshot, OnOutcome, brokerVars, outside
<1>4. CASE HeldStep \/ \E j \in Orders : EvaluateHeld(j)
  BY <1>4 DEF HeldStep, EligiblePrint, PrintGap, ExpireHeldOrders, Tick, EvaluateHeld, venueVars,
     brokerVars, outside
<1>5. CASE Crash \/ ShutdownEngine
  BY <1>5 DEF Crash, ShutdownEngine, ProcessDies, NoneMisread
<1>6. ASSUME NEW ok \in BOOLEAN, Recover(ok) PROVE misread \subseteq misread' /\ rewound' = rewound
  BY <1>6 DEF Recover, Read, NoneMisread
<1>7. ASSUME NEW r \in net \cup landed, Deliver(r)
      PROVE  misread' = misread /\ rewound \subseteq rewound'
  BY <1>7 DEF Deliver, SubmitLands, SubmitReturns, SubmitFails, ActionLands, ActionFails, RestOfVenue
<1>8. CASE BrokerNext \/ Drop \/ Connect \/ FlattenCloses \/ FlattenReads
  BY <1>8 DEF BrokerNext, Fill, VenueExpires, CloseFills, Drop, Connect, ReconcileSucceeds,
     ReconcileFails, FlattenCloses, FlattenReads, Read, NoneMisread
<1> QED
  BY <1>1, <1>2, <1>3, <1>4, <1>5, <1>6, <1>7, <1>8 DEF Next, Process, Outside

-----------------------------------------------------------------------------
(* The book and the log *)

Undone(i) == orders[i].status \notin Done /\ logged[i].status \notin Done

\* Mild changes, appended and folded.
LEMMA AppendUndone ==
  ASSUME LInv, NEW i \in Orders, Undone(i), NEW chg, AppendAndFold(chg), Mild(chg[i])
  PROVE  Undone(i)'
<1>1. orders[i] \in Order /\ logged[i] \in Order
  BY LInvFacts
<1>2. orders'[i] = Apply(orders[i], chg[i]) /\ logged'[i] = Apply(logged[i], chg[i])
  BY DEF AppendAndFold
<1> QED BY <1>1, <1>2, ApplyEndsNone DEF Undone, Mild

\* The same for a change of one order.
LEMMA OnlyUndone ==
  ASSUME LInv, NEW i \in Orders, Undone(i), NEW j, NEW c, AppendAndFold(Only(j, c)),
         i = j => Mild(c)
  PROVE  Undone(i)'
<1>1. Mild(Only(j, c)[i])
  BY HandlersAreMild DEF Only
<1> QED BY <1>1, AppendUndone

\* A list of the broker ends nothing it shows as open.
LEMMA ReconcileUndone ==
  ASSUME LInv, NEW i \in Orders, Undone(i), NEW rows \in [Orders -> Row], NEW adopt,
         PlainRow(rows[i]), Reconcile(rows, ConfirmListed(rows), adopt)
  PROVE  Undone(i)'
<1>1. orders[i] \in Order /\ logged[i] \in Order /\ rows[i] \in Row
  BY LInvFacts
<1>2. ASSUME NEW o \in Order, o.status \notin Done
      PROVE  Overlay(o, rows[i]) \in Order /\ Overlay(o, rows[i]).status \notin Done
  <2>1. Overlay(o, rows[i]) \in Order
    BY <1>1, OverlayType
  <2>2. Overlay(o, rows[i]).status \in {o.status} \cup WorkingStatus
    BY <1>1, OverlayFacts, RowStatus DEF PlainRow
  <2> QED BY <1>2, <2>1, <2>2 DEF Done, WorkingStatus
<1> DEFINE c == ConfirmListed(rows)[i]
           l == IF adopt /\ logged[i].status = "NONE" THEN Overlay(logged[i], rows[i])
                                                       ELSE logged[i]
<1>3. orders'[i] = Apply(Overlay(orders[i], rows[i]), c) /\ logged'[i] = Apply(l, c)
  BY DEF Reconcile
<1>4. l \in Order /\ l.status \notin Done
  BY <1>1, <1>2 DEF Undone
<1>5. Mild(c)
  BY HandlersAreMild DEF ConfirmListed
<1>6. Overlay(orders[i], rows[i]) \in Order /\ Overlay(orders[i], rows[i]).status \notin Done
  BY <1>1, <1>2 DEF Undone
<1> HIDE DEF c, l
<1> QED BY <1>3, <1>4, <1>5, <1>6, ApplyEndsNone DEF Undone, Mild

\* The commands about one order: none ends one that was POSTed.
LEMMA OrderCommandUndone ==
  ASSUME LInv, NEW i \in Orders, posts[i] # 0, Undone(i), OrderCommand
  PROVE  Undone(i)'
<1>0. orders[i].held.phase \notin Pretrigger /\ orders[i].status # "NONE" /\ BookTypeOK
  BY SentNoLongerWaits, LInvFacts
<1>1. ASSUME NEW j \in Orders, SubmitNative(j) \/ SubmitHeld(j) PROVE Undone(i)'
  <2>1. j # i
    BY <1>0, <1>1 DEF SubmitNative, SubmitHeld
  <2>2. \E o : AppendSubmitted(j, o)
    BY <1>1 DEF SubmitNative, SubmitHeld
  <2>3. orders'[i] = orders[i] /\ logged'[i] = logged[i]
    BY <1>0, <2>1, <2>2 DEF AppendSubmitted, BookTypeOK
  <2> QED BY <2>3 DEF Undone
<1>2. ASSUME NEW j \in Orders, CancelOrder(j) PROVE Undone(i)'
  <2>1. AppendAndFold(Only(j, Cancel(orders[j])))
    BY <1>2 DEF CancelOrder
  <2>2. i = j => Mild(Cancel(orders[j]))
    BY <1>0, HandlersAreMild
  <2> QED BY <2>1, <2>2, OnlyUndone
<1>3. ASSUME NEW j \in Orders, ReplaceOrder(j) PROVE Undone(i)'
  <2>1. \E q : AppendAndFold(Only(j, ActionChange(Requested("REPLACE", q))))
    BY <1>3 DEF ReplaceOrder
  <2> QED BY <2>1, HandlersAreMild, OnlyUndone
<1>4. ASSUME NEW j \in Orders, ReplaceHeld(j) PROVE Undone(i)'
  <2>1. \E q : AppendAndFold(Only(j, LifeChange(ReplaceEvent(q))))
    BY <1>4 DEF ReplaceHeld
  <2>2. i # j
    BY <1>0, <1>4 DEF ReplaceHeld, Pretrigger
  <2> QED BY <2>1, <2>2, OnlyUndone
<1>5. ASSUME NEW j \in Orders, ResumeHeld(j) PROVE Undone(i)'
  <2>1. \E c : AppendAndFold(Only(j, c))
    BY <1>5 DEF ResumeHeld
  <2>2. i # j
    BY <1>0, <1>5 DEF ResumeHeld, Pretrigger
  <2> QED BY <2>1, <2>2, OnlyUndone
<1> QED BY <1>1, <1>2, <1>3, <1>4, <1>5 DEF OrderCommand

\* The commands about the account, the gaps and the timer.
LEMMA AccountCommandUndone ==
  ASSUME LInv, NEW i \in Orders, posts[i] # 0, Undone(i), AccountCommand \/ HeldStep
  PROVE  Undone(i)'
<1>0. orders[i].held.phase \notin Pretrigger
  BY SentNoLongerWaits
<1>1. CASE Arm \/ AutoDisarm \/ EligiblePrint \/ Tick
  <2>1. UNCHANGED <<orders, logged>>
    BY <1>1 DEF Arm, AutoDisarm, EligiblePrint, Tick, bookVars
  <2> QED BY <2>1 DEF Undone
<1>2. CASE DisarmMaster
  <2> DEFINE chg == [j \in Orders |-> Disarm(orders[j], FALSE)]
  <2>1. AppendAndFold(chg) /\ chg[i] = Disarm(orders[i], FALSE)
    BY <1>2 DEF DisarmMaster
  <2>2. FALSE \in BOOLEAN
    OBVIOUS
  <2>3. Mild(Disarm(orders[i], FALSE))
    BY <1>0, <2>2, HandlersAreMild, Zenon
  <2> HIDE DEF chg
  <2> QED BY <2>1, <2>3, AppendUndone
<1>3. CASE KillSwitch
  <2>1. \E chg : AppendAndFold(chg) /\ chg[i] = Kill(orders[i])
    BY <1>3 DEF KillSwitch
  <2> QED BY <1>0, <2>1, HandlersAreMild, AppendUndone
<1>4. CASE Flatten
  <2>1. \E chg : AppendAndFold(chg) /\ chg[i] \in {Pause(orders[i]), NoChange}
    BY <1>4 DEF Flatten
  <2> QED BY <2>1, HandlersAreMild, AppendUndone
<1>5. CASE PrintGap
  <2>1. \E chg : AppendAndFold(chg) /\ chg[i] = Pause(orders[i])
    BY <1>5 DEF PrintGap
  <2> QED BY <2>1, HandlersAreMild, AppendUndone
<1>6. CASE ExpireHeldOrders
  <2>1. \E chg : AppendAndFold(chg) /\ chg[i] = Expire(orders[i])
    BY <1>6 DEF ExpireHeldOrders
  <2> QED BY <1>0, <2>1, HandlersAreMild, AppendUndone
<1> QED BY <1>1, <1>2, <1>3, <1>4, <1>5, <1>6 DEF AccountCommand, HeldStep

\* The broker events: an order is ended by the next one or not at all.
LEMMA EventUndone ==
  ASSUME LInv, NEW i \in Orders, Undone(i),
         wire # <<>> /\ wire' = Tail(wire) => ~Ending(Head(wire).lives[i]) /\ PlainRow(Head(wire).rows[i]),
         PlainRow(flatJob.rows[i]), StreamEvent \/ JobResult
  PROVE  Undone(i)'
<1>0. VenueTypeOK
  BY LInvFacts
<1>1. CASE OnLives
  <2>1. Receive("Lives") /\ FoldLives(Head(wire).lives)
    BY <1>1 DEF OnLives
  <2>2. Head(wire) \in Msgs
    BY <1>0, <2>1, ReceiveType
  <2>3. Head(wire).lives[i] \in Life /\ ~Ending(Head(wire).lives[i])
    BY <2>1, <2>2 DEF Receive, Msgs
  <2>4. \E chg : AppendAndFold(chg) /\ chg[i] = OnLife(orders[i], Head(wire).lives[i])
    BY <2>1 DEF FoldLives
  <2> QED BY <2>3, <2>4, HandlersAreMild, AppendUndone
<1>2. CASE OnPosition \/ OnPositions
  <2>1. UNCHANGED <<orders, logged>>
    BY <1>2 DEF OnPosition, OnPositions, bookVars
  <2> QED BY <2>1 DEF Undone
<1>3. CASE OnOpenOrders
  <2>1. Receive("BrokerOpenOrders")
        /\ Reconcile(Head(wire).rows, ConfirmListed(Head(wire).rows), TRUE)
    BY <1>3 DEF OnOpenOrders
  <2>2. Head(wire).rows \in [Orders -> Row]
    BY <1>0, <2>1, ReceiveType DEF Msgs
  <2>3. PlainRow(Head(wire).rows[i])
    BY <2>1 DEF Receive
  <2> QED BY <2>1, <2>2, <2>3, ReconcileUndone
<1>4. ASSUME NEW k, OnStreamBreak(k) PROVE Undone(i)'
  <2>1. \E chg : AppendAndFold(chg) /\ chg[i] = Pause(orders[i])
    BY <1>4 DEF OnStreamBreak
  <2> QED BY <2>1, HandlersAreMild, AppendUndone
<1>5. CASE OnSnapshot
  <2>1. Reconcile(flatJob.rows, ConfirmListed(flatJob.rows), FALSE)
    BY <1>5 DEF OnSnapshot
  <2>2. flatJob.rows \in [Orders -> Row]
    BY <1>0 DEF VenueTypeOK, FlatJobs
  <2> QED BY <2>1, <2>2, ReconcileUndone
<1>6. ASSUME NEW x \in outcomes, OnOutcome(x) PROVE Undone(i)'
  <2>1. AppendAndFold(Only(x.id, OnOutcomeChange(x)))
    BY <1>6 DEF OnOutcome
  <2>2. Mild(OnSubmitOutcome(x)) /\ Mild(OnActionOutcome(x)) /\ Mild(OnActivationOutcome(x))
    BY HandlersAreMild DEF OnSubmitOutcome, OnActionOutcome, OnActivationOutcome
  <2>3. Mild(OnLife(orders[x.id], LifeEvent("OrderRejected")))
    BY LifeTypes, HandlersAreMild DEF LifeKinds
  <2>4. x.kind \in RequestKinds
    BY <1>0 DEF VenueTypeOK, Outcomes
  <2>5. Mild(OnOutcomeChange(x))
    BY <2>2, <2>3, <2>4 DEF OnOutcomeChange, RequestKinds, SubmitKinds
  <2> QED BY <2>1, <2>5, OnlyUndone
<1> QED BY <1>1, <1>2, <1>3, <1>4, <1>5, <1>6 DEF StreamEvent, JobResult

\* A print held against the orders ends none that was sent.
LEMMA EvaluateUndone ==
  ASSUME LInv, NEW i \in Orders, posts[i] # 0, Undone(i), NEW j \in Orders, EvaluateHeld(j)
  PROVE  Undone(i)'
<1>1. ~Live(orders[i])
  BY SentNoLongerWaits DEF Live, Pretrigger
<1>2. \E c : AppendAndFold(Only(j, c)) /\ (i = j => c = NoChange)
  BY <1>1 DEF EvaluateHeld
<1> QED BY <1>2, HandlersAreMild, OnlyUndone

\* A process that dies replays the log, and a new one overlays what the broker
\* lists as open.
LEMMA ProcessUndone ==
  ASSUME LInv, NEW i \in Orders, i \notin misread', Undone(i), Process
  PROVE  Undone(i)'
<1>0. VenueTypeOK /\ logged[i] \in Order
  BY LInvFacts
<1>1. CASE Crash
  BY <1>1 DEF Crash, Undone
<1>2. CASE ShutdownEngine
  <2>1. \E chg : AppendAndFold(chg) /\ chg[i] = Shutdown(orders[i])
    BY <1>2 DEF ShutdownEngine
  <2> QED BY <2>1, HandlersAreMild, AppendUndone
<1>3. ASSUME NEW ok \in BOOLEAN, Recover(ok) PROVE Undone(i)'
  <2>0. PICK rows \in (IF ok THEN Readings ELSE {NoRows}) :
          misread' = misread \cup OddIn(rows) /\ RecoverWith(rows)
    BY <1>3, RecoverReads
  <2> DEFINE m == [k \in Orders |-> Overlay(logged[k], rows[k])]
             act(k) == RecoveredAction(k, m[k], Listed(rows[k]))
             held(k) == RecoveredHeld(m[k], Listed(rows[k]))
             base(k) == IF logged[k].status = "NONE" THEN m[k] ELSE logged[k]
  <2>1. /\ orders' = [k \in Orders |-> [m[k] EXCEPT !.action = act(k), !.held = held(k)]]
        /\ logged' = [k \in Orders |-> [base(k) EXCEPT !.action = act(k), !.held = held(k)]]
    BY <2>0 DEF RecoverWith
  <2>2. m[i] \in Order /\ m[i].status \in {logged[i].status} \cup WorkingStatus
    <3>1. rows[i] \in Row /\ PlainRow(rows[i])
      BY <1>0, <2>0, RowsType DEF PlainRow, OddIn
    <3>2. m[i] = Overlay(logged[i], rows[i])
      OBVIOUS
    <3>3. Overlay(logged[i], rows[i]) \in Order
      BY <1>0, <3>1, OverlayType
    <3> HIDE DEF m
    <3> QED BY <1>0, <3>1, <3>2, <3>3, OverlayFacts, RowStatus DEF PlainRow
  <2>3. base(i) \in Order /\ base(i).status \in {logged[i].status} \cup WorkingStatus
    BY <1>0, <2>2
  <2>4. /\ orders'[i] = [m[i] EXCEPT !.action = act(i), !.held = held(i)]
        /\ logged'[i] = [base(i) EXCEPT !.action = act(i), !.held = held(i)]
    BY <2>1
  <2> HIDE DEF m, base, act, held
  <2>5. orders'[i].status = m[i].status /\ logged'[i].status = base(i).status
    BY <2>2, <2>3, <2>4 DEF Order
  <2> QED BY <2>2, <2>3, <2>5 DEF Undone, Done, WorkingStatus
<1> QED BY <1>1, <1>2, <1>3 DEF Process

-----------------------------------------------------------------------------
(* The requests and the inbox *)

LEMMA SeqRises ==
  ASSUME NEW S, NEW T, S \subseteq T, NEW s \in Seq(S)
  PROVE  s \in Seq(T)
OBVIOUS

\* A step that sends no submission of i.
LEMMA AloneKept ==
  ASSUME NEW i \in Orders, Alone(i), UNCHANGED venue,
         \A r \in net' : r \in net \/ r.kind \notin SubmitKinds \/ r.id # i
  PROVE  Alone(i)'
<1>1. SubmitInFlight(i)' => SubmitInFlight(i)
  BY DEF SubmitInFlight
<1>2. ASSUME NEW q \in net', NEW s \in net', q.kind \in SubmitKinds, q.id = i,
             s.kind \in SubmitKinds, s.id = i
      PROVE  q = s
  <2>1. q \in net /\ s \in net
    BY <1>2
  <2> QED BY <1>2, <2>1 DEF Alone
<1> QED BY <1>1, <1>2 DEF Alone, OpenAt

\* A POST is of an order nothing was POSTed for, and changes nothing else
\* outside the core.
LEMMA PostSteps ==
  ASSUME LInv, NEW j \in Orders, SubmitNative(j) \/ EvaluateHeld(j)
  PROVE  /\ UNCHANGED <<venue, wire, flatJob>>
         /\ \/ NoNewSubmit
            \/ posts[j] = 0 /\ \E r : r.id = j /\ net' = net \cup {r}
<1>1. CASE SubmitNative(j)
  <2>1. /\ UNCHANGED <<venue, wire, flatJob>>
        /\ \/ UNCHANGED net
           \/ \E q : Send({Request(IF Guarded(j) THEN "GUARDED" ELSE "SUBMIT", j, q)})
    BY <1>1 DEF SubmitNative, outside, brokerVars
  <2>2. orders[j].status = "NONE" /\ Custody(j)
    BY <1>1, LInvFacts DEF SubmitNative
  <2>3. posts[j] = 0
    BY <2>2 DEF Custody
  <2> QED BY <2>1, <2>3, SendsNoSubmit DEF Send, Request
<1>2. CASE EvaluateHeld(j)
  <2>1. /\ UNCHANGED <<venue, wire, flatJob>>
        /\ \/ UNCHANGED net
           \/ Live(orders[j]) /\ Send({Request("CHILD", j, orders[j].leaves)})
    BY <1>2 DEF EvaluateHeld, outside, brokerVars
  <2>2. j \in HeldIds /\ Custody(j)
    BY <1>2, LInvFacts DEF EvaluateHeld, CoreTypeOK
  <2>3. Live(orders[j]) => posts[j] = 0
    BY <2>2 DEF Custody, Unlinked, Live, Pretrigger
  <2> QED BY <2>1, <2>3, SendsNoSubmit DEF Send, Request
<1> QED BY <1>1, <1>2

\* An order just sent is not done, and no event speaks of it.
LEMMA SentIsAfoot ==
  ASSUME LInv, Next, NEW i \in Orders, Sends(i)
  PROVE  Afoot(i)'
<1>1. posts \in [Orders -> Nat] /\ BookTypeOK /\ posts[i] = 0 /\ posts'[i] = 1
      /\ wire \in Seq(QuietMsgs(i)) /\ ~Listed(flatJob.rows[i])
      /\ orders[i].status = logged[i].status
  BY LInvFacts DEF Sends, Quiet
<1>2. SubmitNative(i) \/ EvaluateHeld(i)
  <2>1. posts' # posts
    BY <1>1
  <2>2. PICK j \in Orders : SubmitNative(j) \/ EvaluateHeld(j)
    BY <2>1 DEF Next, OrderCommand, SubmitHeld, CancelOrder, ReplaceOrder, ReplaceHeld, ResumeHeld,
       AccountCommand, Arm, DisarmMaster, AutoDisarm, KillSwitch, Flatten, StreamEvent, OnLives,
       OnPosition, OnPositions, OnOpenOrders, OnStreamBreak, JobResult, OnSnapshot, OnOutcome,
       HeldStep, EligiblePrint, PrintGap, ExpireHeldOrders, Tick, Process, Crash, ShutdownEngine,
       MemoryLost, Recover, Outside, coreVars
  <2>3. posts' = [posts EXCEPT ![j] = @ + 1]
    BY <2>1, <2>2 DEF SubmitNative, EvaluateHeld
  <2>4. i = j
    BY <1>1, <2>3
  <2> QED BY <2>2, <2>4
<1>3. wire' \in Seq(Unending(i)) /\ PlainRow(flatJob'.rows[i])
  <2>1. UNCHANGED <<wire, flatJob>>
    BY <1>2, PostSteps
  <2>2. ~Ending(NoEvent)
    BY DEF Ending, NoEvent, LifeEvent
  <2>3. QuietMsgs(i) \subseteq Unending(i)
    BY <2>2 DEF QuietMsgs, Unending, PlainRow
  <2> QED BY <1>1, <2>1, <2>3, SeqRises DEF PlainRow
<1>4. CASE SubmitNative(i)
  <2>1. \E q, a : AppendSubmitted(i, NewOrder(q, a, NoHeld))
    BY <1>1, <1>4 DEF SubmitNative
  <2>2. \A q, a : NewOrder(q, a, NoHeld).status = "SUBMITTED"
    BY DEF NewOrder, NoOrder
  <2>3. orders'[i].status = "SUBMITTED" /\ logged'[i].status = "SUBMITTED"
    BY <1>1, <2>1, <2>2 DEF AppendSubmitted, BookTypeOK
  <2> QED BY <1>3, <2>3 DEF Afoot, Done, Unending, Ending, PlainRow, Listed
<1>5. CASE EvaluateHeld(i)
  <2>1. Live(orders[i]) /\ AppendAndFold(Only(i, Activation(orders[i])))
    BY <1>1, <1>5 DEF EvaluateHeld
  <2>2. Undone(i)
    BY <1>1, <2>1 DEF Live, Working, WorkingStatus, Undone, Done
  <2>3. Mild(Activation(orders[i]))
    BY HandlersAreMild DEF Activation
  <2>4. Undone(i)'
    BY <2>1, <2>2, <2>3, OnlyUndone
  <2> QED BY <1>3, <2>4 DEF Afoot, Undone, Unending, Ending, PlainRow, Listed
<1> QED BY <1>2, <1>4, <1>5

\* The other steps of the core take at most one event off the inbox and send
\* nothing but cancels and replaces.
LEMMA CoreSteps ==
  ASSUME Next, ~Outside, ~\E j \in Orders : SubmitNative(j) \/ EvaluateHeld(j),
         ~Crash, ~ShutdownEngine
  PROVE  /\ UNCHANGED venue /\ NoNewSubmit
         /\ wire' = wire \/ (wire # <<>> /\ wire' = Tail(wire))
<1>1. CASE OrderCommand
  BY ZenonT(40), <1>1, SendsNoSubmit DEF OrderCommand, SubmitHeld, CancelOrder, ReplaceOrder, ReplaceHeld,
     ResumeHeld, venueVars, brokerVars, outside
<1>2. CASE AccountCommand
  BY <1>2, SendsNoSubmit DEF AccountCommand, Arm, DisarmMaster, AutoDisarm, KillSwitch, Flatten,
     venueVars, brokerVars, outside
<1>3. CASE StreamEvent
  BY <1>3, SendsNoSubmit DEF StreamEvent, OnLives, FoldLives, OnPosition, OnPositions,
     OnOpenOrders, OnStreamBreak, Receive, brokerVars, outside
<1>4. CASE JobResult
  <2>1. \A x \in outcomes : OnOutcome(x) => NoNewSubmit
    BY SendsNoSubmit DEF OnOutcome
  <2> QED BY <1>4, <2>1, SendsNoSubmit DEF JobResult, OnSnapshot, OnOutcome, brokerVars, outside
<1>5. CASE HeldStep
  BY <1>5, SendsNoSubmit DEF HeldStep, EligiblePrint, PrintGap, ExpireHeldOrders, Tick,
     venueVars, brokerVars, outside
<1>6. CASE \E ok \in BOOLEAN : Recover(ok)
  <2>1. PICK ok \in BOOLEAN : Recover(ok)
    BY <1>6
  <2>2. PICK rows \in (IF ok THEN Readings ELSE {NoRows}) : RecoverWith(rows)
    BY <2>1, RecoverReads
  <2>3. NoNewSubmit
    BY <2>2, SendsNoSubmit DEF RecoverWith
  <2> QED BY <2>1, <2>3 DEF Recover
<1> QED BY <1>1, <1>2, <1>3, <1>4, <1>5, <1>6 DEF Next, Process

\* The death of the process brings no submission back, and empties the inbox.
LEMMA DiesAlone ==
  ASSUME VenueTypeOK, UNCHANGED venue, NEW last \in SUBSET Requests, ProcessDies(last),
         \A r \in last : r.kind \notin SubmitKinds, NEW i \in Orders, Alone(i)
  PROVE  Alone(i)' /\ wire' = <<>>
<1>1. PICK sent \in SUBSET (net \cup last) : net' = {Dead(r) : r \in sent}
  BY DEF ProcessDies
<1>2. ASSUME NEW r \in net', r.kind \in SubmitKinds, r.id = i
      PROVE  \E x \in net : x.kind \in SubmitKinds /\ x.id = i /\ r = Dead(x)
  <2>1. PICK x \in net \cup last : r = [x EXCEPT !.live = FALSE]
    BY <1>1 DEF Dead
  <2>2. x \in Requests
    BY DEF VenueTypeOK
  <2>3. x.kind = r.kind /\ x.id = r.id
    BY <2>1, <2>2 DEF Requests
  <2> QED BY <1>2, <2>1, <2>3 DEF Dead
<1>3. SubmitInFlight(i)' => SubmitInFlight(i)
  BY <1>2 DEF SubmitInFlight
<1>4. ASSUME NEW r \in net', NEW s \in net', r.kind \in SubmitKinds, r.id = i,
             s.kind \in SubmitKinds, s.id = i
      PROVE  r = s
  <2>1. PICK x \in net : x.kind \in SubmitKinds /\ x.id = i /\ r = Dead(x)
    BY <1>2, <1>4
  <2>2. PICK y \in net : y.kind \in SubmitKinds /\ y.id = i /\ s = Dead(y)
    BY <1>2, <1>4
  <2>3. x = y
    BY <2>1, <2>2 DEF Alone
  <2> QED BY <2>1, <2>2, <2>3
<1> QED
  BY <1>3, <1>4 DEF Alone, OpenAt, ProcessDies

LEMMA DeathAlone ==
  ASSUME LInv, NEW i \in Orders, Alone(i), Crash \/ ShutdownEngine
  PROVE  Alone(i)' /\ wire' = <<>>
<1>0. VenueTypeOK
  BY LInvFacts
<1>1. CASE Crash
  <2>1. ProcessDies({}) /\ UNCHANGED venue
    BY <1>1 DEF Crash
  <2> QED BY <1>0, <2>1, DiesAlone
<1>2. CASE ShutdownEngine
  <2> DEFINE last == Cancels({j \in Orders : ShutdownCancels(orders[j])})
  <2>1. ProcessDies(last) /\ UNCHANGED venue
    BY <1>2 DEF ShutdownEngine
  <2>2. last \subseteq Requests /\ \A r \in last : r.kind \notin SubmitKinds
    <3>1. \A j \in Orders : /\ Request("CANCEL", j, 0) \in Requests
                            /\ Request("CANCEL", j, 0).kind \notin SubmitKinds
      BY EmptyTypes DEF Request, Requests, RequestKinds, SubmitKinds
    <3> QED BY <3>1 DEF Cancels
  <2> HIDE DEF last
  <2> QED BY <1>0, <2>1, <2>2, DiesAlone
<1> QED
  BY <1>1, <1>2

\* A step of the core, whatever it is.
LEMMA CoreAlone ==
  ASSUME LInv, Next, ~Outside, NEW i \in Orders, Alone(i)
  PROVE  Alone(i)'
<1>1. ASSUME NEW j \in Orders, SubmitNative(j) \/ EvaluateHeld(j) PROVE Alone(i)'
  <2>1. CASE NoNewSubmit
    BY <1>1, <2>1, PostSteps, AloneKept DEF NoNewSubmit
  <2>2. CASE ~NoNewSubmit
    <3>1. PICK r : r.id = j /\ net' = net \cup {r}
      BY <1>1, <2>2, PostSteps
    <3>2. posts[j] = 0 /\ venue' = venue
      BY <1>1, <2>2, PostSteps
    <3>3. CASE i # j
      BY <3>1, <3>2, <3>3, AloneKept
    <3>4. CASE i = j
      <4>1. Quiet(i)
        BY <3>2, <3>4, LInvFacts
      <4>2. \A q \in net' : q.kind \in SubmitKinds /\ q.id = i => q = r
        BY <3>1, <4>1 DEF Quiet, SubmitInFlight
      <4>3. venue'[i].st = "none" /\ venue'[i].exec = 0
        BY <3>2, <4>1 DEF Quiet, NoVenueOrder
      <4> QED BY <4>2, <4>3 DEF Alone, OpenAt
    <3> QED BY <3>3, <3>4
  <2> QED BY <2>1, <2>2
<1>2. CASE Crash \/ ShutdownEngine
  BY <1>2, DeathAlone
<1>3. CASE /\ ~\E j \in Orders : SubmitNative(j) \/ EvaluateHeld(j)
           /\ ~Crash /\ ~ShutdownEngine
  BY <1>3, CoreSteps, AloneKept DEF NoNewSubmit
<1> QED
  BY <1>1, <1>2, <1>3

\* Of an order that was POSTed the core alone ends none.
LEMMA CoreUndone ==
  ASSUME LInv, Next, ~Outside, NEW i \in Orders, i \notin misread', posts[i] # 0, Undone(i),
         wire # <<>> /\ wire' = Tail(wire) => ~Ending(Head(wire).lives[i]) /\ PlainRow(Head(wire).rows[i]),
         PlainRow(flatJob.rows[i])
  PROVE  Undone(i)'
BY OrderCommandUndone, AccountCommandUndone, EventUndone, EvaluateUndone, ProcessUndone DEF Next

LEMMA CoreInbox ==
  ASSUME LInv, Next, ~Outside
  PROVE  wire' = wire \/ wire' = <<>> \/ (wire # <<>> /\ wire' = Tail(wire))
<1>1. CASE \E j \in Orders : SubmitNative(j) \/ EvaluateHeld(j)
  BY <1>1, PostSteps
<1>2. CASE Crash \/ ShutdownEngine
  BY <1>2 DEF Crash, ShutdownEngine, ProcessDies
<1> QED
  BY <1>1, <1>2, CoreSteps

\* The core takes the list of a Flatten, and keeps none.
LEMMA CoreJob ==
  ASSUME LInv, Next, ~Outside, NEW i \in Orders, PlainRow(flatJob.rows[i])
  PROVE  PlainRow(flatJob'.rows[i])
<1>1. PlainRow(IdleJob.rows[i])
  BY DEF PlainRow, IdleJob, NoRows, NoRow
<1>2. CASE \E j \in Orders : SubmitNative(j) \/ EvaluateHeld(j)
  BY <1>2, PostSteps
<1>3. CASE OrderCommand /\ ~\E j \in Orders : SubmitNative(j)
  BY <1>3, ZenonT(40) DEF OrderCommand, SubmitHeld, CancelOrder, ReplaceOrder, ReplaceHeld,
     ResumeHeld, venueVars
<1>4. CASE AccountCommand
  <2>1. [IdleJob EXCEPT !.st = "close"].rows = IdleJob.rows
    BY DEF IdleJob
  <2>2. UNCHANGED flatJob \/ flatJob' = [IdleJob EXCEPT !.st = "close"]
    BY <1>4 DEF AccountCommand, Arm, DisarmMaster, AutoDisarm, KillSwitch, Flatten, venueVars
  <2> QED BY <1>1, <2>1, <2>2
<1>5. CASE StreamEvent
  BY <1>5 DEF StreamEvent, OnLives, OnPosition, OnPositions, OnOpenOrders, OnStreamBreak
<1>6. CASE JobResult
  BY <1>1, <1>6 DEF JobResult, OnSnapshot, OnOutcome
<1>7. CASE HeldStep
  BY <1>7 DEF HeldStep, EligiblePrint, PrintGap, ExpireHeldOrders, Tick, venueVars
<1>8. CASE Process
  BY <1>1, <1>8 DEF Process, Crash, ShutdownEngine, ProcessDies, Recover
<1> QED
  BY <1>2, <1>3, <1>4, <1>5, <1>6, <1>7, <1>8 DEF Next

LEMMA AfootStays ==
  ASSUME LInv, Next, ~Outside, NEW i \in Orders, i \notin misread', posts[i] # 0, Afoot(i)
  PROVE  Undone(i)' /\ wire' \in Seq(Unending(i)) /\ PlainRow(flatJob'.rows[i])
<1>1. Undone(i) /\ wire \in Seq(Unending(i)) /\ PlainRow(flatJob.rows[i])
  BY DEF Afoot, Undone
<1>2. wire # <<>> => Head(wire) \in Unending(i) /\ Tail(wire) \in Seq(Unending(i))
  BY <1>1, HeadTailProperties
<1>3. Undone(i)'
  BY <1>1, <1>2, CoreUndone DEF Unending
<1> QED
  BY <1>1, <1>2, <1>3, CoreInbox, CoreJob, EmptySeq

LEMMA CoreTruth ==
  ASSUME TInv, Next, ~Outside, IInv', NEW i \in Orders
  PROVE  Alone(i)' /\ (AtBroker(i)' /\ i \notin misread' => Afoot(i)')
<1>0. LInv /\ Alone(i) /\ (AtBroker(i) /\ i \notin misread => Afoot(i))
  BY DEF TInv, Truth
<1>1. ASSUME AtBroker(i), Afoot(i), i \notin misread'
      PROVE  Undone(i)' /\ wire' \in Seq(Unending(i)) /\ PlainRow(flatJob'.rows[i])
  BY <1>0, <1>1, AtBrokerIsSent, AfootStays
<1>2. ASSUME AtBroker(i)', i \notin misread' PROVE Afoot(i)'
  <2>0. i \notin misread
    BY <1>2, MisreadGrows
  <2>1. AtBroker(i)' => AtBroker(i) \/ Sends(i)
    BY <1>0, StaysAfoot
  <2>2. Sends(i) => Afoot(i)'
    BY <1>0, SentIsAfoot
  <2> QED BY <1>0, <1>1, <1>2, <2>0, <2>1, <2>2 DEF Afoot, Undone, Unending, Ending, PlainRow, Listed
<1> QED
  BY <1>0, <1>2, CoreAlone

-----------------------------------------------------------------------------
(* The broker, the requests and the stream *)

LEMMA UnendingMsgs ==
  ASSUME NEW i \in Orders
  PROVE  /\ QuietMsgs(i) \subseteq Unending(i)
         /\ \A k \in MsgKinds : Msg(k) \in Unending(i)
         /\ \A ls \in [Orders -> Life] : ~Ending(ls[i]) => LivesMsg(ls) \in Unending(i)
         /\ \A j \in Orders, e \in Life : (i = j => ~Ending(e)) => LifeMsg(j, e) \in Unending(i)
         /\ \A q \in Int : PositionMsg(q) \in Unending(i)
<1>0. PlainRow(NoRows[i])
  BY DEF PlainRow, NoRows, NoRow
<1>1. ~Ending(NoEvent)
  BY DEF Ending, NoEvent, LifeEvent
<1>2. QuietMsgs(i) \subseteq Unending(i)
  BY <1>0, <1>1 DEF QuietMsgs, Unending, PlainRow
<1>3. ASSUME NEW ls \in [Orders -> Life], ~Ending(ls[i]) PROVE LivesMsg(ls) \in Unending(i)
  <2>1. LivesMsg(ls) \in Msgs
    BY MsgTypes
  <2>2. LivesMsg(ls).lives = ls /\ LivesMsg(ls).rows = NoRows
    BY DEF LivesMsg, Msg
  <2> QED BY <1>0, <1>3, <2>1, <2>2 DEF Unending
<1>4. ASSUME NEW j \in Orders, NEW e \in Life, i = j => ~Ending(e)
      PROVE  LifeMsg(j, e) \in Unending(i)
  <2>1. NoLives \in [Orders -> Life] /\ NoLives[i] = NoEvent
    BY LifeTypes DEF NoLives
  <2>2. /\ [NoLives EXCEPT ![j] = e] \in [Orders -> Life]
        /\ [NoLives EXCEPT ![j] = e][i] = IF i = j THEN e ELSE NoEvent
    BY <2>1
  <2> QED BY <1>1, <1>3, <1>4, <2>2 DEF LifeMsg
<1> QED
  BY <1>2, <1>3, <1>4, QuietMsgTypes

\* A frame that does not end i.
LEMMA UnendingFrame ==
  ASSUME NEW i \in Orders, wire \in Seq(Unending(i)), NEW j, NEW v,
         NEW msgs \in Seq(Unending(i)), Frame(j, v, msgs)
  PROVE  wire' \in Seq(Unending(i))
<1>1. wire \o msgs \in Seq(Unending(i))
  BY ConcatProperties
<1> QED
  BY <1>1 DEF Frame

\* What an order that is open changes to at the broker.
LEMMA OpenAlone ==
  ASSUME LInv, NEW i \in Orders, Alone(i), NEW j \in Orders, NEW v,
         venue[j].st = "open", venue' = [venue EXCEPT ![j] = v], net' \subseteq net,
         v.st # "none", v.st = "open" => v.exec < v.qty
  PROVE  Alone(i)'
<1>1. VenueTypeOK
  BY LInvFacts
<1>2. SubmitInFlight(i)' => SubmitInFlight(i)
  BY DEF SubmitInFlight
<1>3. venue'[i] = IF i = j THEN v ELSE venue[i]
  BY <1>1 DEF VenueTypeOK
<1>4. \A r, s \in {q \in net' : q.kind \in SubmitKinds /\ q.id = i} : r = s
  BY DEF Alone
<1>5. CASE i = j
  BY <1>2, <1>3, <1>4, <1>5 DEF Alone, OpenAt
<1>6. CASE i # j
  BY <1>2, <1>3, <1>4, <1>6 DEF Alone, OpenAt
<1> QED
  BY <1>5, <1>6

\* The broker fills an order, one share at a time, or ends it.
LEMMA BrokerTruth ==
  ASSUME LInv, NEW i \in Orders, Alone(i), NEW j \in Orders, Fill(j) \/ VenueExpires(j)
  PROVE  /\ Alone(i)'
         /\ AtBroker(i)' /\ wire \in Seq(Unending(i)) => wire' \in Seq(Unending(i))
<1>0. VenueTypeOK /\ venue[j] \in VenueOrder
  BY LInvFacts DEF VenueTypeOK
<1>1. CASE Fill(j)
  <2> DEFINE v == [venue[j] EXCEPT
                     !.exec = @ + 1,
                     !.st = IF venue[j].exec + 1 = venue[j].qty THEN "filled" ELSE "open"]
             s == IF j \in Sells THEN shares - 1 ELSE shares + 1
             e == FillEvent(v.exec, v.qty - v.exec)
  <2>1. /\ venue' = [venue EXCEPT ![j] = v] /\ venue[j].st = "open"
        /\ Frame(j, v, <<LifeMsg(j, e), PositionMsg(s)>>)
        /\ net' = net /\ venue[j].exec < venue[j].qty
    BY <1>1 DEF Fill, OpenAt
  <2>2. /\ v.exec = venue[j].exec + 1 /\ v.qty = venue[j].qty
        /\ v.st = IF venue[j].exec + 1 = venue[j].qty THEN "filled" ELSE "open"
        /\ venue[j].exec \in Nat /\ venue[j].qty \in Nat /\ venue[j].qty <= MaxQty
    BY <1>0, QtyAssumption DEF VenueOrder, Qtys
  <2>3. e \in Life /\ (v.st = "open" => ~Ending(e))
    <3>1. v.exec \in Qtys /\ v.qty - v.exec \in Qtys
      BY <2>1, <2>2, QtyAssumption DEF Qtys
    <3>2. e \in Life
      BY <3>1, LifeTypes
    <3>3. e.leaves = v.qty - v.exec /\ e.ev = "OrderFilled"
      BY DEF FillEvent, LifeEvent
    <3>4. v.st = "open" => e.leaves # 0
      BY <2>2, <3>3
    <3> QED BY <3>2, <3>3, <3>4 DEF Ending
  <2>4. s \in Int
    BY <1>0 DEF VenueTypeOK
  <2>5. v.st # "none" /\ (v.st = "open" => v.exec < v.qty)
    BY <2>1, <2>2
  <2>6. venue'[j] = v
    BY <1>0, <2>1 DEF VenueTypeOK
  <2> HIDE DEF v, s, e
  <2>7. Alone(i)'
    BY <2>1, <2>5, OpenAlone
  <2>8. ASSUME AtBroker(i)', wire \in Seq(Unending(i)) PROVE wire' \in Seq(Unending(i))
    <3>1. i = j => v.st = "open"
      BY <2>5, <2>6, <2>7, <2>8 DEF AtBroker, Alone, OpenAt
    <3>2. LifeMsg(j, e) \in Unending(i) /\ PositionMsg(s) \in Unending(i)
      BY <2>3, <2>4, <3>1, UnendingMsgs
    <3>3. <<LifeMsg(j, e), PositionMsg(s)>> \in Seq(Unending(i))
      BY <3>2
    <3> QED BY <2>1, <2>8, <3>3, UnendingFrame
  <2> QED BY <2>7, <2>8
<1>2. CASE VenueExpires(j)
  <2> DEFINE v == [venue[j] EXCEPT !.st = "expired"]
             e == LifeEvent("OrderExpired")
  <2>1. /\ venue' = [venue EXCEPT ![j] = v] /\ venue[j].st = "open"
        /\ Frame(j, v, <<LifeMsg(j, e)>>) /\ net' = net
    BY <1>2 DEF VenueExpires, OpenAt
  <2>2. v.st = "expired"
    BY <1>0 DEF VenueOrder
  <2>3. e \in Life
    BY LifeTypes DEF LifeKinds
  <2>4. venue'[j] = v
    BY <1>0, <2>1 DEF VenueTypeOK
  <2> HIDE DEF v, e
  <2>5. Alone(i)'
    BY <2>1, <2>2, OpenAlone
  <2>6. ASSUME AtBroker(i)', wire \in Seq(Unending(i)) PROVE wire' \in Seq(Unending(i))
    <3>1. i # j
      BY <2>2, <2>4, <2>5, <2>6 DEF AtBroker, Alone, OpenAt
    <3>2. LifeMsg(j, e) \in Unending(i)
      BY <2>3, <3>1, UnendingMsgs
    <3>3. <<LifeMsg(j, e)>> \in Seq(Unending(i))
      BY <3>2
    <3> QED BY <2>1, <2>6, <3>3, UnendingFrame
  <2> QED BY <2>5, <2>6
<1> QED
  BY <1>1, <1>2

\* A request lands, returns, fails or is refused.
LEMMA DeliverTruth ==
  ASSUME LInv, NEW i \in Orders, Alone(i), NEW r \in net \cup landed, Deliver(r)
  PROVE  /\ Alone(i)'
         /\ AtBroker(i)' /\ wire \in Seq(Unending(i)) => wire' \in Seq(Unending(i))
<1>0. VenueTypeOK /\ r.id \in Orders /\ r.qty \in Qtys /\ venue[r.id] \in VenueOrder
  BY LInvFacts DEF VenueTypeOK, Requests
<1>1. net' \subseteq net
  BY DEF Deliver, SubmitLands, SubmitReturns, SubmitFails, ActionLands, ActionFails, Finish
<1>6. CASE SubmitReturns(r)
  <2>1. UNCHANGED <<venue, wire>>
    BY <1>6 DEF SubmitReturns
  <2> QED BY <1>1, <2>1, AloneKept
<1>2. CASE SubmitLands(r)
  <2> DEFINE e == LifeEvent("OrderAccepted")
  <2>1. /\ r.kind \in SubmitKinds /\ venue' = [venue EXCEPT ![r.id] = Landed(r)]
        /\ wire' = wire \/ wire' = Append(wire, LifeMsg(r.id, e))
    BY <1>2 DEF SubmitLands
  <2>2. venue'[i] = IF i = r.id THEN Landed(r) ELSE venue[i]
    BY <1>0, <2>1 DEF VenueTypeOK
  <2>3. \A q, s \in {x \in net' : x.kind \in SubmitKinds /\ x.id = i} : q = s
    BY <1>1 DEF Alone
  <2>4. ASSUME i = r.id PROVE Alone(i)'
    <3>0. net' = net \ {r} /\ r \in net
      BY <1>2 DEF SubmitLands, Finish
    <3>1. ~SubmitInFlight(i)'
      BY <2>1, <2>4, <3>0 DEF Alone, SubmitInFlight
    <3>2. venue'[i].st = "open" /\ venue'[i].exec = 0
      BY <2>2, <2>4 DEF Landed
    <3> QED BY <2>3, <3>1, <3>2 DEF Alone, OpenAt
  <2>5. ASSUME i # r.id PROVE Alone(i)'
    <3>1. SubmitInFlight(i)' => SubmitInFlight(i)
      BY <1>1 DEF SubmitInFlight
    <3> QED BY <2>2, <2>3, <2>5, <3>1 DEF Alone, OpenAt
  <2>6. e \in Life /\ ~Ending(e)
    BY LifeTypes DEF LifeKinds, Ending, LifeEvent
  <2> HIDE DEF e
  <2>7. LifeMsg(r.id, e) \in Unending(i)
    BY <1>0, <2>6, UnendingMsgs
  <2> QED BY <2>1, <2>4, <2>5, <2>7, AppendProperties
<1>3. CASE SubmitFails(r)
  <2> DEFINE e == LifeEvent("OrderRejected")
  <2>1. /\ UNCHANGED venue
        /\ wire' = wire \/ wire' = Append(wire, LifeMsg(r.id, e))
    BY <1>3 DEF SubmitFails
  <2>2. e \in Life /\ ~Ending(e)
    BY LifeTypes DEF LifeKinds, Ending, LifeEvent
  <2> HIDE DEF e
  <2>3. LifeMsg(r.id, e) \in Unending(i)
    BY <1>0, <2>2, UnendingMsgs
  <2>4. Alone(i)'
    BY <1>1, <2>1, AloneKept
  <2> QED BY <2>1, <2>3, <2>4, AppendProperties
<1>4. CASE ActionLands(r)
  <2> DEFINE v == IF r.kind = "CANCEL" THEN [venue[r.id] EXCEPT !.st = "canceled"]
                                       ELSE [venue[r.id] EXCEPT !.qty = r.qty]
             e == IF r.kind = "CANCEL" THEN LifeEvent("OrderCanceled") ELSE ReplaceEvent(r.qty)
  <2>1. /\ venue' = [venue EXCEPT ![r.id] = v] /\ venue[r.id].st = "open"
        /\ Frame(r.id, v, <<LifeMsg(r.id, e)>>)
        /\ r.kind # "CANCEL" => r.qty > venue[r.id].exec
    BY <1>4 DEF ActionLands, CanDo, OpenAt
  <2>2. /\ r.kind = "CANCEL" => v.st = "canceled"
        /\ r.kind # "CANCEL" => v.st = "open" /\ v.exec = venue[r.id].exec /\ v.qty = r.qty
    BY <1>0, <2>1 DEF VenueOrder
  <2>3. v.st # "none" /\ (v.st = "open" => v.exec < v.qty)
    BY <1>0, <2>1, <2>2, QtyAssumption DEF VenueOrder, Qtys
  <2>4. e \in Life /\ (r.kind # "CANCEL" => ~Ending(e))
    BY <1>0, LifeTypes, HandlersAreMild DEF LifeKinds
  <2>5. venue'[r.id] = v
    BY <1>0, <2>1 DEF VenueTypeOK
  <2> HIDE DEF v, e
  <2>6. Alone(i)'
    BY <1>0, <1>1, <2>1, <2>3, OpenAlone
  <2>7. ASSUME AtBroker(i)', wire \in Seq(Unending(i)) PROVE wire' \in Seq(Unending(i))
    <3>1. i = r.id => r.kind # "CANCEL"
      BY <2>2, <2>5, <2>6, <2>7 DEF AtBroker, Alone, OpenAt
    <3>2. LifeMsg(r.id, e) \in Unending(i)
      BY <1>0, <2>4, <3>1, UnendingMsgs
    <3>3. <<LifeMsg(r.id, e)>> \in Seq(Unending(i))
      BY <3>2
    <3> QED BY <2>1, <2>7, <3>3, UnendingFrame
  <2> QED BY <2>6, <2>7
<1>5. CASE ActionFails(r)
  <2>1. UNCHANGED <<venue, wire>>
    BY <1>5 DEF ActionFails, NoFrame
  <2> QED BY <1>1, <2>1, AloneKept
<1> QED
  BY <1>2, <1>3, <1>4, <1>5, <1>6 DEF Deliver

\* What a reconcile looks up are events.
LEMMA MissedTypes ==
  ASSUME VenueTypeOK
  PROVE  MissedFills \in [Orders -> Life] /\ MissedEnds \in [Orders -> Life]
<1>1. ASSUME NEW j \in Orders
      PROVE  FillEvent(venue[j].exec, Minus(venue[j].qty, venue[j].exec)) \in Life
  <2>1. venue[j].exec \in Qtys /\ venue[j].qty \in Qtys
    BY DEF VenueTypeOK, VenueOrder
  <2>2. Minus(venue[j].qty, venue[j].exec) \in Qtys
    BY <2>1, QtyAssumption DEF Minus, Qtys
  <2> QED BY <2>1, <2>2, LifeTypes
<1>2. LifeEvent("OrderCanceled") \in Life /\ LifeEvent("OrderExpired") \in Life
  BY LifeTypes DEF LifeKinds
<1> QED
  BY <1>1, <1>2, LifeTypes DEF MissedFills, MissedEnds

\* The stream drops, or reconciles: what it missed of an order that is still
\* open are fills that leave some of it.
LEMMA StreamTruth ==
  ASSUME LInv, NEW i \in Orders, Alone(i), i \notin misread',
         CloseFills \/ Drop \/ Connect \/ FlattenCloses \/ FlattenReads
  PROVE  /\ Alone(i)'
         /\ AtBroker(i)' /\ wire \in Seq(Unending(i)) => wire' \in Seq(Unending(i))
<1>0. VenueTypeOK
  BY LInvFacts
<1>1. UNCHANGED <<venue, net>>
  BY DEF CloseFills, Drop, Connect, FlattenCloses, FlattenReads
<1>2. Alone(i)'
  BY <1>1, AloneKept
<1>3. SUFFICES ASSUME AtBroker(i)', wire \in Seq(Unending(i)) PROVE wire' \in Seq(Unending(i))
  BY <1>2
<1>4. \/ OpenAt(i) /\ (venue[i].exec < venue[i].qty \/ venue[i].exec = 0)
      \/ venue[i].st = "none" /\ venue[i].exec = 0
  BY <1>1, <1>3 DEF AtBroker, Alone, OpenAt, SubmitInFlight
<1>5. CASE CloseFills
  <2>1. Append(wire, PositionMsg(0)) \in Seq(Unending(i))
    BY <1>3, UnendingMsgs, AppendProperties
  <2> QED BY <1>3, <1>5, <2>1 DEF CloseFills
<1>6. CASE Drop
  <2>1. Append(wire, Msg("BrokerConnDown")) \in Seq(Unending(i))
    BY <1>3, UnendingMsgs, AppendProperties DEF MsgKinds
  <2> QED BY <1>6, <2>1 DEF Drop
<1>7. CASE Connect
  <2>1. venue[i].exec \in Nat /\ venue[i].qty \in Nat /\ seenQty[i] \in Nat
    BY <1>0, QtyAssumption DEF VenueTypeOK, VenueOrder, Qtys
  <2>2. MissedFills \in [Orders -> Life] /\ MissedEnds \in [Orders -> Life]
    BY <1>0, MissedTypes
  <2>3. ~Ending(MissedFills[i])
    <3>1. CASE (Compared(i) \/ Missed(i)) /\ venue[i].exec > seenQty[i]
      <4>1. venue[i].exec < venue[i].qty
        BY <1>4, <2>1, <3>1
      <4>2. Minus(venue[i].qty, venue[i].exec) # 0
        BY <2>1, <4>1 DEF Minus
      <4>3. MissedFills[i] = FillEvent(venue[i].exec, Minus(venue[i].qty, venue[i].exec))
        BY <3>1 DEF MissedFills
      <4>4. \A c, l : FillEvent(c, l).ev = "OrderFilled" /\ FillEvent(c, l).leaves = l
        BY DEF FillEvent, LifeEvent
      <4> QED BY <4>2, <4>3, <4>4 DEF Ending
    <3>2. CASE ~((Compared(i) \/ Missed(i)) /\ venue[i].exec > seenQty[i])
      <4>1. MissedFills[i] = NoEvent
        BY <3>2 DEF MissedFills
      <4> QED BY <4>1 DEF NoEvent, LifeEvent, Ending
    <3> QED BY <3>1, <3>2
  <2>4. ~Ending(MissedEnds[i])
    <3>1. MissedEnds[i] = NoEvent
      BY <1>4 DEF MissedEnds, Missed, OpenAt
    <3> QED BY <3>1 DEF NoEvent, LifeEvent, Ending
  <2>5. <<Msg("StreamGap"), LivesMsg(MissedFills), LivesMsg(MissedEnds)>> \in Seq(Unending(i))
    BY <2>2, <2>3, <2>4, UnendingMsgs DEF MsgKinds
  <2>6. [Msg("BrokerPositions") EXCEPT !.qty = shares] \in Unending(i)
    <3>1. Msg("BrokerPositions") \in Unending(i)
      BY UnendingMsgs DEF MsgKinds
    <3> QED BY <1>0, <3>1 DEF Unending, Msgs, VenueTypeOK
  <2>9. Append(wire, Msg("BrokerConnUp")) \in Seq(Unending(i))
    BY <1>3, UnendingMsgs, AppendProperties DEF MsgKinds
  <2>10. CASE ReconcileFails
    BY <2>9, <2>10 DEF ReconcileFails
  <2>11. CASE ReconcileSucceeds
    <3>1. PICK rows \in Readings : /\ Read(rows)
                                  /\ wire' = Append(wire, Msg("BrokerConnUp")) \o ReconcileMsgs(rows)
      BY <2>11 DEF ReconcileSucceeds
    <3>2. PlainRow(rows[i])
      BY <3>1 DEF Read, OddIn, PlainRow
    <3>3. [Msg("BrokerOpenOrders") EXCEPT !.rows = rows] \in Unending(i)
      <4>1. Msg("BrokerOpenOrders") \in Unending(i)
        BY UnendingMsgs DEF MsgKinds
      <4>2. rows \in [Orders -> Row]
        BY <1>0, RowsType
      <4> QED BY <3>2, <4>1, <4>2 DEF Unending, Msgs
    <3>4. <<[Msg("BrokerPositions") EXCEPT !.qty = shares],
            [Msg("BrokerOpenOrders") EXCEPT !.rows = rows]>> \in Seq(Unending(i))
      BY <2>6, <3>3
    <3>5. <<>> \in Seq(Unending(i))
      BY EmptySeq
    <3>6. ReconcileMsgs(rows) \in Seq(Unending(i))
      BY <2>5, <3>4, <3>5, ConcatProperties DEF ReconcileMsgs
    <3> QED BY <2>9, <3>1, <3>6, ConcatProperties
  <2> QED BY <1>7, <2>10, <2>11 DEF Connect
<1>8. CASE FlattenCloses \/ FlattenReads
  BY <1>3, <1>8 DEF FlattenCloses, FlattenReads
<1> QED
  BY <1>5, <1>6, <1>7, <1>8

\* Only the goroutine of a Flatten changes its own list.
LEMMA OutsideJob ==
  ASSUME Outside, NEW i \in Orders, i \notin misread', PlainRow(flatJob.rows[i])
  PROVE  PlainRow(flatJob'.rows[i])
<1>1. PlainRow(IdleJob.rows[i])
  BY DEF PlainRow, IdleJob, NoRows, NoRow
<1>2. CASE BrokerNext \/ Drop \/ Connect
  BY <1>2 DEF BrokerNext, Fill, VenueExpires, CloseFills, Drop, Connect
<1>3. CASE \E r \in net \cup landed : Deliver(r)
  BY <1>3 DEF Deliver, SubmitLands, SubmitReturns, SubmitFails, ActionLands, ActionFails, RestOfVenue
<1>4. CASE FlattenCloses
  BY <1>4 DEF FlattenCloses
<1>5. CASE FlattenReads
  <2>1. CASE flatJob' = IdleJob
    BY <1>1, <2>1
  <2>2. CASE \E rows \in Readings :
               flatJob' = [st |-> "done", rows |-> rows, qty |-> shares] /\ Read(rows)
    <3>1. PICK rows \in Readings :
            flatJob' = [st |-> "done", rows |-> rows, qty |-> shares] /\ Read(rows)
      BY <2>2
    <3> QED BY <3>1 DEF Read, OddIn, PlainRow
  <2> QED BY <1>5, <2>1, <2>2 DEF FlattenReads
<1> QED
  BY <1>2, <1>3, <1>4, <1>5 DEF Outside

\* A step outside the core leaves the books and the log alone.
LEMMA OutsideTruth ==
  ASSUME TInv, Outside, NEW i \in Orders
  PROVE  Alone(i)' /\ (AtBroker(i)' /\ i \notin misread' => Afoot(i)')
<1>0. LInv /\ Alone(i) /\ (AtBroker(i) /\ i \notin misread => Afoot(i))
  BY DEF TInv, Truth
<1>a. Alone(i)'
  <2>1. CASE CloseFills \/ Drop \/ Connect \/ FlattenCloses \/ FlattenReads
    <3>1. UNCHANGED <<venue, net>>
      BY <2>1 DEF CloseFills, Drop, Connect, FlattenCloses, FlattenReads
    <3> QED BY <1>0, <3>1, AloneKept
  <2> QED BY <1>0, <2>1, BrokerTruth, DeliverTruth DEF Outside, BrokerNext
<1> SUFFICES ASSUME AtBroker(i)', i \notin misread' PROVE Afoot(i)'
  BY <1>a
<1>b. i \notin misread
  BY MisreadGrows DEF Next
<1>1. wire \in Seq(Unending(i)) => wire' \in Seq(Unending(i))
  BY <1>0, BrokerTruth, DeliverTruth, StreamTruth DEF Outside, BrokerNext
<1>2. UNCHANGED <<orders, logged, posts>>
  BY DEF Outside, coreVars, bookVars
<1>3. AtBroker(i)' => AtBroker(i)
  <2>1. Local(i) \/ Begins(i) \/ Sends(i)
    BY <1>0, OutsideMoves DEF Moves
  <2>2. posts[i] = 0 => ~AtBroker(i)'
    <3>1. posts[i] = 0 => Quiet(i)
      BY <1>0, LInvFacts
    <3>2. posts[i] = 0 => Quiet(i)'
      BY <1>0, <3>1, QuietBroker, QuietDeliver, LInvFacts DEF Outside
    <3> QED BY <3>2 DEF Quiet, NoVenueOrder, AtBroker, OpenAt
  <2>3. posts[i] \in Nat
    BY <1>0, LInvFacts
  <2> QED BY <1>2, <2>1, <2>2, <2>3 DEF Local, Begins, Sends
<1>4. Afoot(i)
  BY <1>0, <1>b, <1>3
<1>5. PlainRow(flatJob'.rows[i])
  BY <1>4, OutsideJob DEF Afoot
<1> QED
  BY <1>1, <1>2, <1>4, <1>5 DEF Afoot, Unending, Ending, PlainRow, Listed

-----------------------------------------------------------------------------
(* The theorem *)

LEMMA NextTruth == TInv /\ IInv' /\ [Next]_vars => Truth'
<1> SUFFICES ASSUME TInv, IInv', [Next]_vars, NEW i \in Orders
             PROVE  Alone(i)' /\ (AtBroker(i)' /\ i \notin misread' => Afoot(i)')
  BY DEF Truth
<1>1. CASE UNCHANGED vars
  <2>1. UNCHANGED <<venue, net, wire, flatJob, misread, orders, logged>>
    BY <1>1 DEF vars, venueVars, brokerVars, coreVars, bookVars
  <2>2. AtBroker(i)' => AtBroker(i)
    BY <2>1, StaysAway
  <2>3. LInv /\ Alone(i) /\ (AtBroker(i) /\ i \notin misread => Afoot(i))
    BY DEF TInv, Truth
  <2>4. Alone(i)'
    BY <2>1, <2>3, AloneKept
  <2> QED BY <2>1, <2>2, <2>3, <2>4 DEF Afoot, Unending, Ending, PlainRow, Listed
<1>2. CASE Next /\ ~Outside
  BY <1>2, CoreTruth
<1>3. CASE Outside
  BY <1>3, OutsideTruth
<1> QED
  BY <1>1, <1>2, <1>3

LEMMA InitTruth == Init => Truth
<1> SUFFICES ASSUME Init, NEW i \in Orders PROVE Alone(i) /\ ~AtBroker(i)
  BY DEF Truth
<1>1. venue[i] = NoVenueOrder /\ net = {}
  BY DEF Init, VenueInit
<1> QED
  BY <1>1 DEF Alone, AtBroker, OpenAt, SubmitInFlight, NoVenueOrder

\* An order the core calls filled, canceled or expired is not open at the
\* broker, and no submission of it is on its way, over lost answers, missed
\* frames, crashes and restarts, unless a list of the broker gave the order a
\* status restOrderStatusDomain reads as done (State.Apply, Recover, reconcile).
THEOREM DoneIsTrue == Spec => []TerminalTruth
<1>1. Init => LInv
  BY InitType, InitCustody DEF LInv, IInv, Twins, Init
<1>2. IInv /\ [Next]_vars => IInv'
  BY NextType, NextCustody DEF IInv
<1>3. TInv /\ IInv' /\ [Next]_vars => Truth'
  BY NextTruth
<1>4. Spec => []LInv
  BY LifeInvariant
<1>5. Truth /\ LInv => TerminalTruth
  <2> SUFFICES ASSUME Truth, NEW i \in Orders \ misread, orders[i].status \in Done
               PROVE  ~OpenAt(i) /\ ~SubmitInFlight(i)
    BY DEF TerminalTruth, Done
  <2>1. Alone(i) /\ ~AtBroker(i)
    BY DEF Truth, Afoot
  <2> QED BY <2>1 DEF Alone, AtBroker
<1> QED
  BY <1>1, <1>2, <1>3, <1>4, <1>5, InitTruth, PTL DEF Spec, TInv, LInv

-----------------------------------------------------------------------------
(***************************************************************************)
(* The position of a core that trusts it is the broker's once the stream   *)
(* is drained, for every finite set of orders and every bound.             *)
(***************************************************************************)

\* What a message may do to the position: break the stream, tell the position,
\* fill orders, or list the open ones, which makes the core ready.
Breaks(m) == m.ev \in {"StreamGap", "BrokerConnUp", "BrokerConnDown"}
Tells(m) == m.ev \in {"BrokerPosition", "BrokerPositions"}
Fills(m) == m.ev = "Lives" /\ \E i \in Orders : m.lives[i].ev = "OrderFilled"
Lists(m) == m.ev = "BrokerOpenOrders"
Still(m) == ~Breaks(m) /\ ~Tells(m) /\ ~Fills(m)

\* The last word on the position is q; the stream breaks and no list follows;
\* nothing is said of the position; nothing makes the core ready.
TellsLast(w, q) ==
  \E k \in 1 .. Len(w) : /\ Tells(w[k]) /\ w[k].qty = q
                         /\ \A l \in 1 .. Len(w) : l > k => Still(w[l])
BreaksLast(w) ==
  \E k \in 1 .. Len(w) : /\ Breaks(w[k])
                         /\ \A l \in 1 .. Len(w) : l > k => ~Lists(w[l])
Calm(w) == \A l \in 1 .. Len(w) : Still(w[l])
NoLists(w) == \A l \in 1 .. Len(w) : ~Lists(w[l])
\* A list follows the position read with it.
Paired(w) == \A l \in 1 .. Len(w) : l > 1 /\ Lists(w[l]) => w[l - 1].ev = "BrokerPositions"

\* While the stream is up the inbox brings the core to the true position, or
\* leaves it not ready; only a process that runs can have got there already.
Tracks(w, q) ==
  \/ TellsLast(w, q)
  \/ BreaksLast(w)
  \/ up /\ ~ready /\ NoLists(w)
  \/ up /\ position = q /\ Calm(w)
PosInv == flatJob.st = "idle" /\ Paired(wire) /\ (online => Tracks(wire, shares))

-----------------------------------------------------------------------------
(* The inbox as a sequence *)

LEMMA SeqParts ==
  ASSUME NEW S, NEW w \in Seq(S)
  PROVE  /\ Len(w) \in Nat /\ \A l \in 1 .. Len(w) : w[l] \in S
         /\ \A m \in S : /\ Append(w, m) \in Seq(S) /\ Len(Append(w, m)) = Len(w) + 1
                         /\ Append(w, m)[Len(w) + 1] = m
                         /\ \A l \in 1 .. Len(w) : Append(w, m)[l] = w[l]
         /\ w # <<>> => /\ Tail(w) \in Seq(S) /\ Len(Tail(w)) = Len(w) - 1 /\ Len(w) > 0
                        /\ Head(w) = w[1]
                        /\ \A l \in 1 .. Len(w) - 1 : Tail(w)[l] = w[l + 1]
BY AppendProperties, HeadTailProperties, LenProperties

\* A message that is about the position in no way.
LEMMA AddStill ==
  ASSUME NEW w \in Seq(Msgs), NEW m \in Msgs, Still(m), ~Lists(m)
  PROVE  /\ \A q : TellsLast(w, q) => TellsLast(Append(w, m), q)
         /\ BreaksLast(w) => BreaksLast(Append(w, m))
         /\ NoLists(w) => NoLists(Append(w, m))
         /\ Calm(w) => Calm(Append(w, m))
<1> DEFINE a == Append(w, m)
<1>1. /\ Len(w) \in Nat /\ Len(a) = Len(w) + 1 /\ a[Len(w) + 1] = m
      /\ \A l \in 1 .. Len(w) : a[l] = w[l]
  BY SeqParts
<1> HIDE DEF a
<1>2. \A l \in 1 .. Len(a) : l = Len(w) + 1 \/ l \in 1 .. Len(w)
  BY <1>1
<1>3. ASSUME NEW q, TellsLast(w, q) PROVE TellsLast(a, q)
  <2>1. PICK k \in 1 .. Len(w) : /\ Tells(w[k]) /\ w[k].qty = q
                                 /\ \A l \in 1 .. Len(w) : l > k => Still(w[l])
    BY <1>3 DEF TellsLast
  <2>2. k \in 1 .. Len(a) /\ Tells(a[k]) /\ a[k].qty = q
    BY <1>1, <2>1
  <2>3. \A l \in 1 .. Len(a) : l > k => Still(a[l])
    BY <1>1, <1>2, <2>1
  <2> QED BY <2>2, <2>3 DEF TellsLast
<1>4. ASSUME BreaksLast(w) PROVE BreaksLast(a)
  <2>1. PICK k \in 1 .. Len(w) : /\ Breaks(w[k])
                                 /\ \A l \in 1 .. Len(w) : l > k => ~Lists(w[l])
    BY <1>4 DEF BreaksLast
  <2>2. k \in 1 .. Len(a) /\ Breaks(a[k])
    BY <1>1, <2>1
  <2>3. \A l \in 1 .. Len(a) : l > k => ~Lists(a[l])
    BY <1>1, <1>2, <2>1
  <2> QED BY <2>2, <2>3 DEF BreaksLast
<1>5. NoLists(w) => NoLists(a)
  BY <1>1, <1>2 DEF NoLists
<1>6. Calm(w) => Calm(a)
  BY <1>1, <1>2 DEF Calm
<1> QED
  BY <1>3, <1>4, <1>5, <1>6 DEF a

\* The last message tells the position, or breaks the stream.
LEMMA AddLast ==
  ASSUME NEW w \in Seq(Msgs), NEW m \in Msgs
  PROVE  /\ Tells(m) => TellsLast(Append(w, m), m.qty)
         /\ Breaks(m) => BreaksLast(Append(w, m))
         /\ Paired(w) /\ ~Lists(m) => Paired(Append(w, m))
<1> DEFINE a == Append(w, m)
<1>1. /\ Len(w) \in Nat /\ Len(a) = Len(w) + 1 /\ a[Len(w) + 1] = m
      /\ \A l \in 1 .. Len(w) : a[l] = w[l]
  BY SeqParts
<1> HIDE DEF a
<1>2. Len(a) \in 1 .. Len(a) /\ \A l \in 1 .. Len(a) : ~(l > Len(a))
  BY <1>1
<1>3. Tells(m) => TellsLast(a, m.qty)
  BY <1>1, <1>2 DEF TellsLast
<1>4. Breaks(m) => BreaksLast(a)
  BY <1>1, <1>2 DEF BreaksLast
<1>5. ASSUME Paired(w), ~Lists(m) PROVE Paired(a)
  <2> SUFFICES ASSUME NEW l \in 1 .. Len(a), l > 1, Lists(a[l])
               PROVE  a[l - 1].ev = "BrokerPositions"
    BY DEF Paired
  <2>1. l \in 1 .. Len(w) /\ l - 1 \in 1 .. Len(w)
    BY <1>1, <1>5
  <2> QED BY <1>1, <1>5, <2>1 DEF Paired
<1> QED
  BY <1>3, <1>4, <1>5 DEF a

\* What a reconnect appends: the position, then the list.
LEMMA AddSnapshot ==
  ASSUME NEW w \in Seq(Msgs), Paired(w), NEW p \in Msgs, p.ev = "BrokerPositions",
         NEW o \in Msgs, Lists(o)
  PROVE  /\ TellsLast(Append(Append(w, p), o), p.qty)
         /\ Paired(Append(Append(w, p), o))
<1> DEFINE a == Append(w, p)
           b == Append(a, o)
<1>1. /\ a \in Seq(Msgs) /\ Len(w) \in Nat /\ Len(a) = Len(w) + 1 /\ a[Len(w) + 1] = p
      /\ \A l \in 1 .. Len(w) : a[l] = w[l]
  BY SeqParts
<1>2. Paired(a)
  BY AddLast DEF Lists
<1> HIDE DEF a
<1>3. /\ Len(b) = Len(a) + 1 /\ b[Len(a) + 1] = o
      /\ \A l \in 1 .. Len(a) : b[l] = a[l]
  BY <1>1, SeqParts
<1> HIDE DEF b
<1>4. Still(o)
  BY DEF Still, Lists, Breaks, Tells, Fills
<1>5. TellsLast(b, p.qty)
  <2>1. Len(a) \in 1 .. Len(b) /\ b[Len(a)] = p /\ Tells(p)
    BY <1>1, <1>3 DEF Tells
  <2>2. \A l \in 1 .. Len(b) : l > Len(a) => b[l] = o
    BY <1>1, <1>3
  <2> QED BY <1>4, <2>1, <2>2 DEF TellsLast
<1>6. Paired(b)
  <2> SUFFICES ASSUME NEW l \in 1 .. Len(b), l > 1, Lists(b[l])
               PROVE  b[l - 1].ev = "BrokerPositions"
    BY DEF Paired
  <2>1. CASE l = Len(b)
    BY <1>1, <1>3, <2>1
  <2>2. CASE l # Len(b)
    <3>1. l \in 1 .. Len(a) /\ l - 1 \in 1 .. Len(a)
      BY <1>1, <1>3, <2>2
    <3> QED BY <1>2, <1>3, <3>1 DEF Paired
  <2> QED BY <2>1, <2>2
<1> QED
  BY <1>5, <1>6 DEF b, a

\* The core takes the first message.
LEMMA TakeFirst ==
  ASSUME NEW w \in Seq(Msgs), w # <<>>
  PROVE  /\ \A q : TellsLast(w, q) => \/ TellsLast(Tail(w), q)
                                      \/ Tells(Head(w)) /\ Head(w).qty = q /\ Calm(Tail(w))
         /\ BreaksLast(w) => BreaksLast(Tail(w)) \/ (Breaks(Head(w)) /\ NoLists(Tail(w)))
         /\ NoLists(w) => NoLists(Tail(w)) /\ ~Lists(Head(w))
         /\ Calm(w) => Calm(Tail(w)) /\ Still(Head(w))
         /\ Paired(w) => Paired(Tail(w))
         /\ Paired(w) /\ Calm(Tail(w)) /\ Head(w).ev = "BrokerPosition" => NoLists(Tail(w))
<1> DEFINE t == Tail(w)
<1>1. /\ Len(w) \in Nat /\ Len(w) > 0 /\ Len(t) = Len(w) - 1 /\ Head(w) = w[1]
      /\ \A l \in 1 .. Len(t) : t[l] = w[l + 1]
  BY SeqParts
<1> HIDE DEF t
<1>2. \A l \in 1 .. Len(t) : l + 1 \in 1 .. Len(w)
  BY <1>1
<1>3. ASSUME NEW q, TellsLast(w, q)
      PROVE  TellsLast(t, q) \/ (Tells(Head(w)) /\ Head(w).qty = q /\ Calm(t))
  <2>1. PICK k \in 1 .. Len(w) : /\ Tells(w[k]) /\ w[k].qty = q
                                 /\ \A l \in 1 .. Len(w) : l > k => Still(w[l])
    BY <1>3 DEF TellsLast
  <2>2. CASE k = 1
    <3>1. \A l \in 1 .. Len(t) : Still(t[l])
      BY <1>1, <1>2, <2>1, <2>2
    <3> QED BY <1>1, <2>1, <2>2, <3>1 DEF Calm
  <2>3. CASE k # 1
    <3>1. k - 1 \in 1 .. Len(t) /\ t[k - 1] = w[k]
      BY <1>1, <2>1, <2>3
    <3>2. \A l \in 1 .. Len(t) : l > k - 1 => Still(t[l])
      BY <1>1, <1>2, <2>1
    <3> QED BY <2>1, <3>1, <3>2 DEF TellsLast
  <2> QED BY <2>2, <2>3
<1>4. ASSUME BreaksLast(w)
      PROVE  BreaksLast(t) \/ (Breaks(Head(w)) /\ NoLists(t))
  <2>1. PICK k \in 1 .. Len(w) : /\ Breaks(w[k])
                                 /\ \A l \in 1 .. Len(w) : l > k => ~Lists(w[l])
    BY <1>4 DEF BreaksLast
  <2>2. CASE k = 1
    <3>1. \A l \in 1 .. Len(t) : ~Lists(t[l])
      BY <1>1, <1>2, <2>1, <2>2
    <3> QED BY <1>1, <2>1, <2>2, <3>1 DEF NoLists
  <2>3. CASE k # 1
    <3>1. k - 1 \in 1 .. Len(t) /\ t[k - 1] = w[k]
      BY <1>1, <2>1, <2>3
    <3>2. \A l \in 1 .. Len(t) : l > k - 1 => ~Lists(t[l])
      BY <1>1, <1>2, <2>1
    <3> QED BY <2>1, <3>1, <3>2 DEF BreaksLast
  <2> QED BY <2>2, <2>3
<1>5. NoLists(w) => NoLists(t) /\ ~Lists(Head(w))
  BY <1>1, <1>2 DEF NoLists
<1>6. Calm(w) => Calm(t) /\ Still(Head(w))
  BY <1>1, <1>2 DEF Calm
<1>7. ASSUME Paired(w) PROVE Paired(t)
  <2> SUFFICES ASSUME NEW l \in 1 .. Len(t), l > 1, Lists(t[l])
               PROVE  t[l - 1].ev = "BrokerPositions"
    BY DEF Paired
  <2>1. l + 1 \in 1 .. Len(w) /\ t[l] = w[l + 1] /\ l - 1 \in 1 .. Len(t) /\ l + 1 > 1
    BY <1>1, <1>2
  <2>2. t[l - 1] = w[l]
    BY <1>1, <2>1
  <2>3. w[(l + 1) - 1].ev = "BrokerPositions"
    BY <1>7, <2>1 DEF Paired
  <2> QED BY <2>2, <2>3
<1>8. ASSUME Paired(w), Calm(t), Head(w).ev = "BrokerPosition" PROVE NoLists(t)
  <2> SUFFICES ASSUME NEW l \in 1 .. Len(t), Lists(t[l]) PROVE FALSE
    BY DEF NoLists
  <2>1. w[(l + 1) - 1].ev = "BrokerPositions"
    <3>1. l + 1 \in 1 .. Len(w) /\ Lists(w[l + 1]) /\ l + 1 > 1
      BY <1>1, <1>2
    <3> QED BY <1>8, <3>1 DEF Paired
  <2>2. CASE l = 1
    BY <1>1, <1>8, <2>1, <2>2
  <2>3. CASE l # 1
    <3>1. l - 1 \in 1 .. Len(t) /\ t[l - 1] = w[l]
      BY <1>1, <2>3
    <3>2. Tells(t[l - 1])
      BY <2>1, <3>1 DEF Tells
    <3> QED BY <1>8, <3>1, <3>2 DEF Calm, Still
  <2> QED BY <2>2, <2>3
<1> QED
  BY <1>3, <1>4, <1>5, <1>6, <1>7, <1>8 DEF t

-----------------------------------------------------------------------------
(* The broker, the requests and the stream *)

\* Messages put at the end one by one.
LEMMA PutTwo ==
  ASSUME NEW S, NEW w \in Seq(S), NEW x \in S, NEW y \in S
  PROVE  w \o <<x, y>> = Append(Append(w, x), y)
<1> DEFINE a == w \o <<x, y>>
           b == Append(Append(w, x), y)
<1>1. Len(w) \in Nat /\ <<x, y>> \in Seq(S) /\ Len(<<x, y>>) = 2
  BY SeqParts
<1>2. /\ a \in Seq(S) /\ Len(a) = Len(w) + 2
      /\ \A l \in 1 .. Len(w) + 2 : a[l] = IF l <= Len(w) THEN w[l] ELSE <<x, y>>[l - Len(w)]
  BY <1>1, ConcatProperties
<1>3. /\ b \in Seq(S) /\ Len(b) = Len(w) + 2 /\ b[Len(w) + 1] = x /\ b[Len(w) + 2] = y
      /\ \A l \in 1 .. Len(w) : b[l] = w[l]
  <2> DEFINE c == Append(w, x)
  <2>1. /\ c \in Seq(S) /\ Len(c) = Len(w) + 1 /\ c[Len(w) + 1] = x
        /\ \A l \in 1 .. Len(w) : c[l] = w[l]
    BY SeqParts
  <2> HIDE DEF c
  <2>2. /\ Append(c, y) \in Seq(S) /\ Len(Append(c, y)) = Len(c) + 1
        /\ Append(c, y)[Len(c) + 1] = y
        /\ \A l \in 1 .. Len(c) : Append(c, y)[l] = c[l]
    BY <2>1, SeqParts
  <2> QED BY <1>1, <2>1, <2>2 DEF c
<1> HIDE DEF a, b
<1>4. ASSUME NEW l \in 1 .. Len(a) PROVE a[l] = b[l]
  <2>1. CASE l <= Len(w)
    BY <1>1, <1>2, <1>3, <2>1
  <2>2. CASE l = Len(w) + 1
    BY <1>1, <1>2, <1>3, <2>2
  <2>3. CASE l = Len(w) + 2
    BY <1>1, <1>2, <1>3, <2>3
  <2> QED BY <1>1, <1>2, <2>1, <2>2, <2>3
<1>5. a = b
  BY <1>2, <1>3, <1>4, SeqEqual
<1> QED
  BY <1>5 DEF a, b

LEMMA PutOne ==
  ASSUME NEW S, NEW w \in Seq(S), NEW x \in S
  PROVE  w \o <<x>> = Append(w, x)
OBVIOUS

LEMMA PutThree ==
  ASSUME NEW S, NEW w \in Seq(S), NEW x \in S, NEW y \in S, NEW z \in S
  PROVE  w \o <<x, y, z>> = Append(Append(Append(w, x), y), z)
<1> DEFINE u == <<x>> \o <<y, z>>
           t == <<x, y, z>>
<1>1. <<x>> \in Seq(S) /\ Len(<<x>>) = 1 /\ <<y, z>> \in Seq(S) /\ Len(<<y, z>>) = 2
  OBVIOUS
<1>2. /\ u \in Seq(S) /\ Len(u) = 3
      /\ \A l \in 1 .. 3 : u[l] = IF l <= 1 THEN <<x>>[l] ELSE <<y, z>>[l - 1]
  BY <1>1, ConcatProperties
<1>3. t \in Seq(S) /\ Len(t) = 3 /\ t[1] = x /\ t[2] = y /\ t[3] = z
  OBVIOUS
<1>4. u[1] = x /\ u[2] = y /\ u[3] = z
  BY <1>2
<1> HIDE DEF u, t
<1>5. \A l \in 1 .. Len(t) : l = 1 \/ l = 2 \/ l = 3
  BY <1>3
<1>6. t = u
  BY <1>2, <1>3, <1>4, <1>5, SeqEqual
<1>7. w \o u = (w \o <<x>>) \o <<y, z>>
  BY <1>1, ConcatAssociative DEF u
<1>8. Append(w, x) \in Seq(S) /\ w \o <<x>> = Append(w, x)
  BY SeqParts, PutOne
<1>9. Append(w, x) \o <<y, z>> = Append(Append(Append(w, x), y), z)
  BY <1>8, PutTwo
<1> QED
  BY <1>6, <1>7, <1>8, <1>9 DEF t

\* The messages of a reconcile, put at the end one by one.
LEMMA ReconcilePuts ==
  ASSUME VenueTypeOK, NEW c \in Seq(Msgs), NEW rows \in Readings
  PROVE  /\ [Msg("BrokerPositions") EXCEPT !.qty = shares] \in Msgs
         /\ [Msg("BrokerOpenOrders") EXCEPT !.rows = rows] \in Msgs
         /\ c \o ReconcileMsgs(rows) =
              Append(Append(IF connected
                            THEN Append(Append(Append(c, Msg("StreamGap")),
                                               LivesMsg(MissedFills)), LivesMsg(MissedEnds))
                            ELSE c,
                            [Msg("BrokerPositions") EXCEPT !.qty = shares]),
                     [Msg("BrokerOpenOrders") EXCEPT !.rows = rows])
<1> DEFINE p == [Msg("BrokerPositions") EXCEPT !.qty = shares]
           o == [Msg("BrokerOpenOrders") EXCEPT !.rows = rows]
           g == Msg("StreamGap")
           f == LivesMsg(MissedFills)
           e == LivesMsg(MissedEnds)
           m == IF connected THEN <<g, f, e>> ELSE <<>>
           cm == IF connected THEN Append(Append(Append(c, g), f), e) ELSE c
<1>1. p \in Msgs
  <2>1. Msg("BrokerPositions") \in Msgs
    BY MsgTypes DEF MsgKinds
  <2> QED BY <2>1 DEF Msgs, VenueTypeOK
<1>2. o \in Msgs
  <2>1. Msg("BrokerOpenOrders") \in Msgs
    BY MsgTypes DEF MsgKinds
  <2>2. rows \in [Orders -> Row]
    BY RowsType
  <2> QED BY <2>1, <2>2 DEF Msgs
<1>3. g \in Msgs /\ f \in Msgs /\ e \in Msgs
  BY MissedTypes, MsgTypes DEF MsgKinds
<1>4. ReconcileMsgs(rows) = m \o <<p, o>>
  BY DEF ReconcileMsgs
<1> HIDE DEF p, o, g, f, e
<1>5. m \in Seq(Msgs) /\ <<p, o>> \in Seq(Msgs)
  BY <1>1, <1>2, <1>3, EmptySeq
<1>6. c \o (m \o <<p, o>>) = (c \o m) \o <<p, o>>
  BY <1>5, ConcatAssociative
<1>7. c \o m = cm /\ cm \in Seq(Msgs)
  <2>1. CASE connected
    <3>1. c \o <<g, f, e>> = Append(Append(Append(c, g), f), e)
      BY <1>3, PutThree
    <3>2. Append(Append(Append(c, g), f), e) \in Seq(Msgs)
      BY <1>3, AppendProperties
    <3> QED BY <2>1, <3>1, <3>2
  <2>2. CASE ~connected
    BY <2>2, ConcatEmptySeq
  <2> QED BY <2>1, <2>2
<1> HIDE DEF m, cm
<1>8. cm \o <<p, o>> = Append(Append(cm, p), o)
  BY <1>1, <1>2, <1>7, PutTwo
<1>9. c \o ReconcileMsgs(rows) = Append(Append(cm, p), o)
  BY <1>4, <1>6, <1>7, <1>8
<1> QED
  BY <1>1, <1>2, <1>9 DEF cm, p, o, g, f, e

\* What the messages of one order are.
LEMMA MsgParts ==
  /\ \A i \in Orders, e \in Life :
       /\ LifeMsg(i, e) \in Msgs /\ ~Lists(LifeMsg(i, e)) 
       /\ e.ev # "OrderFilled" => Still(LifeMsg(i, e))
  /\ \A ls \in [Orders -> Life] : LivesMsg(ls) \in Msgs /\ ~Lists(LivesMsg(ls))
  /\ \A q \in Int : /\ PositionMsg(q) \in Msgs /\ PositionMsg(q).qty = q
                    /\ Tells(PositionMsg(q)) /\ ~Lists(PositionMsg(q))
  /\ \A k \in {"StreamGap", "BrokerConnUp", "BrokerConnDown"} :
       Msg(k) \in Msgs /\ Breaks(Msg(k)) /\ ~Lists(Msg(k))
<1>1. ASSUME NEW i \in Orders, NEW e \in Life
      PROVE  /\ LifeMsg(i, e) \in Msgs /\ ~Lists(LifeMsg(i, e)) 
             /\ e.ev # "OrderFilled" => Still(LifeMsg(i, e))
  <2>1. LifeMsg(i, e).ev = "Lives" /\ LifeMsg(i, e).lives = [NoLives EXCEPT ![i] = e]
    BY DEF LifeMsg, LivesMsg, Msg
  <2>2. \A j \in Orders : [NoLives EXCEPT ![i] = e][j] = IF i = j THEN e ELSE NoEvent
    BY DEF NoLives
  <2>3. NoEvent.ev # "OrderFilled"
    BY DEF NoEvent, LifeEvent
  <2>4. e.ev # "OrderFilled" => ~Fills(LifeMsg(i, e))
    BY <2>1, <2>2, <2>3 DEF Fills
  <2> QED BY <2>1, <2>4, MsgTypes DEF Still, Breaks, Tells, Lists
<1>2. \A ls \in [Orders -> Life] : LivesMsg(ls) \in Msgs /\ ~Lists(LivesMsg(ls))
  <2>1. \A ls : LivesMsg(ls).ev = "Lives"
    BY DEF LivesMsg, Msg
  <2> QED BY <2>1, MsgTypes DEF Lists
<1>3. ASSUME NEW q \in Int
      PROVE  /\ PositionMsg(q) \in Msgs /\ PositionMsg(q).qty = q
             /\ Tells(PositionMsg(q)) /\ ~Lists(PositionMsg(q))
  <2>1. PositionMsg(q).ev = "BrokerPosition" /\ PositionMsg(q).qty = q
    BY DEF PositionMsg, Msg
  <2> QED BY <2>1, MsgTypes DEF Tells, Lists
<1>4. \A k \in {"StreamGap", "BrokerConnUp", "BrokerConnDown"} :
        Msg(k) \in Msgs /\ Breaks(Msg(k)) /\ ~Lists(Msg(k))
  <2>1. \A k : Msg(k).ev = k
    BY DEF Msg
  <2> QED BY <2>1, MsgTypes DEF MsgKinds, Breaks, Lists
<1> QED
  BY <1>1, <1>2, <1>3, <1>4

\* A step that adds a message not about the position, or none.
LEMMA StillStep ==
  ASSUME PosInv, wire \in Seq(Msgs), NEW m \in Msgs, Still(m), ~Lists(m),
         wire' = wire \/ wire' = Append(wire, m),
         UNCHANGED <<shares, online, up, ready, position>>, flatJob'.st = "idle"
  PROVE  PosInv'
<1>1. CASE wire' = wire
  BY <1>1 DEF PosInv, Tracks, Paired, TellsLast, BreaksLast, NoLists, Calm
<1>2. CASE wire' = Append(wire, m)
  <2> DEFINE w == Append(wire, m)
  <2>1. /\ TellsLast(wire, shares) => TellsLast(w, shares)
        /\ BreaksLast(wire) => BreaksLast(w)
        /\ NoLists(wire) => NoLists(w)
        /\ Calm(wire) => Calm(w)
    BY AddStill
  <2>2. Paired(w)
    BY AddLast DEF PosInv
  <2>3. wire' = w
    BY <1>2
  <2> HIDE DEF w
  <2>4. online => \/ TellsLast(w, shares) \/ BreaksLast(w) \/ (up /\ ~ready /\ NoLists(w))
                  \/ (up /\ position = shares /\ Calm(w))
    BY <2>1 DEF PosInv, Tracks
  <2> QED BY <2>2, <2>3, <2>4 DEF PosInv, Tracks, Paired, TellsLast, BreaksLast, NoLists, Calm,
                                  Still, Breaks, Tells, Fills, Lists
<1> QED
  BY <1>1, <1>2

\* A step after which the inbox has the last word.
LEMMA WordStep ==
  ASSUME NEW w, wire' = w, Paired(w), flatJob'.st = "idle",
         online' => TellsLast(w, shares') \/ BreaksLast(w)
  PROVE  PosInv'
BY DEF PosInv, Tracks, Paired, TellsLast, BreaksLast, Still, Breaks, Tells, Fills, Lists

\* A frame that is no fill.
LEMMA FrameStep ==
  ASSUME PosInv, wire \in Seq(Msgs), NEW i \in Orders, NEW e \in Life, e.ev # "OrderFilled",
         NEW v, Frame(i, v, <<LifeMsg(i, e)>>),
         UNCHANGED <<shares, online, up, ready, position, flatJob>>
  PROVE  PosInv'
<1>1. LifeMsg(i, e) \in Msgs /\ Still(LifeMsg(i, e)) /\ ~Lists(LifeMsg(i, e))
  BY MsgParts
<1>2. wire' = wire \/ wire' = wire \o <<LifeMsg(i, e)>>
  BY DEF Frame
<1>3. wire \o <<LifeMsg(i, e)>> = Append(wire, LifeMsg(i, e))
  BY <1>1, PutOne
<1>4. flatJob'.st = "idle"
  BY DEF PosInv
<1> QED
  BY <1>1, <1>2, <1>3, <1>4, StillStep

LEMMA FillStep ==
  ASSUME LInv, PosInv, NEW i \in Orders, Fill(i)
  PROVE  PosInv'
<1>0. VenueTypeOK /\ venue[i] \in VenueOrder
  BY LInvFacts DEF VenueTypeOK
<1> DEFINE v == [venue[i] EXCEPT
                   !.exec = @ + 1,
                   !.st = IF venue[i].exec + 1 = venue[i].qty THEN "filled" ELSE "open"]
           s == IF i \in Sells THEN shares - 1 ELSE shares + 1
           e == FillEvent(v.exec, v.qty - v.exec)
<1>1. /\ Frame(i, v, <<LifeMsg(i, e), PositionMsg(s)>>) /\ shares' = s
      /\ venue[i].exec < venue[i].qty /\ UNCHANGED <<online, flatJob>>
  BY DEF Fill
<1>2. e \in Life
  <2>1. v.exec = venue[i].exec + 1 /\ v.qty = venue[i].qty
    BY <1>0 DEF VenueOrder
  <2>2. venue[i].exec \in Nat /\ venue[i].qty \in Nat /\ venue[i].qty <= MaxQty
    BY <1>0, QtyAssumption DEF VenueOrder, Qtys
  <2>3. v.exec \in Qtys /\ v.qty - v.exec \in Qtys
    BY <1>1, <2>1, <2>2, QtyAssumption DEF Qtys
  <2> QED BY <2>3, LifeTypes
<1>3. s \in Int /\ wire \in Seq(Msgs)
  BY <1>0 DEF VenueTypeOK
<1>4. flatJob'.st = "idle" /\ Paired(wire)
  BY <1>1 DEF PosInv
<1> HIDE DEF v, s, e
<1>5. CASE online
  <2> DEFINE w == Append(wire, LifeMsg(i, e))
  <2>1. w \in Seq(Msgs) /\ Paired(w)
    BY <1>2, <1>3, <1>4, MsgParts, SeqParts, AddLast
  <2>2. wire' = Append(w, PositionMsg(s))
    BY <1>1, <1>2, <1>3, <1>5, MsgParts, PutTwo DEF Frame
  <2> HIDE DEF w
  <2>3. Paired(Append(w, PositionMsg(s))) /\ TellsLast(Append(w, PositionMsg(s)), s)
    <3>1. /\ PositionMsg(s) \in Msgs /\ PositionMsg(s).qty = s
          /\ Tells(PositionMsg(s)) /\ ~Lists(PositionMsg(s))
      BY <1>3, MsgParts
    <3>2. TellsLast(Append(w, PositionMsg(s)), PositionMsg(s).qty)
      BY <2>1, <3>1, AddLast
    <3> QED BY <2>1, <3>1, <3>2, AddLast
  <2> QED BY <1>1, <1>4, <2>2, <2>3, WordStep
<1>6. CASE ~online
  <2>1. wire' = wire /\ ~online'
    BY <1>1, <1>6 DEF Frame
  <2> QED BY <1>4, <2>1, WordStep
<1> QED
  BY <1>5, <1>6

\* The stream breaks, or comes back with a snapshot or without.
LEMMA StreamStep ==
  ASSUME LInv, PosInv, Drop \/ Connect
  PROVE  PosInv'
<1>0. VenueTypeOK /\ wire \in Seq(Msgs) /\ shares \in Int
  BY LInvFacts DEF VenueTypeOK
<1>1. UNCHANGED <<shares, flatJob>> /\ flatJob'.st = "idle" /\ Paired(wire)
  BY DEF Drop, Connect, PosInv
<1> DEFINE c == Append(wire, Msg("BrokerConnUp"))
<1>2. c \in Seq(Msgs) /\ Paired(c) /\ BreaksLast(c)
  BY <1>0, <1>1, MsgParts, SeqParts, AddLast
<1> HIDE DEF c
<1>3. CASE Drop
  <2> DEFINE d == Append(wire, Msg("BrokerConnDown"))
  <2>1. Paired(d) /\ BreaksLast(d)
    BY <1>0, <1>1, MsgParts, AddLast
  <2>2. wire' = d
    BY <1>3 DEF Drop
  <2> HIDE DEF d
  <2> QED BY <1>1, <2>1, <2>2, WordStep
<1>4. CASE Connect /\ ReconcileFails
  <2>1. wire' = c
    BY <1>4 DEF ReconcileFails, c
  <2> QED BY <1>1, <1>2, <2>1, WordStep
<1>5. CASE Connect /\ ReconcileSucceeds
  <2>0. PICK rows \in Readings : wire' = c \o ReconcileMsgs(rows)
    BY <1>5 DEF ReconcileSucceeds, c
  <2> DEFINE p == [Msg("BrokerPositions") EXCEPT !.qty = shares]
             o == [Msg("BrokerOpenOrders") EXCEPT !.rows = rows]
             g == Msg("StreamGap")
             f == LivesMsg(MissedFills)
             e == LivesMsg(MissedEnds)
             m == IF connected THEN Append(Append(Append(c, g), f), e) ELSE c
  <2>2. p \in Msgs /\ o \in Msgs /\ c \o ReconcileMsgs(rows) = Append(Append(m, p), o)
    BY <1>0, <1>2, ReconcilePuts
  <2>3. p.ev = "BrokerPositions" /\ p.qty = shares /\ Lists(o)
    BY DEF Msg, Lists
  <2>4. /\ g \in Msgs /\ f \in Msgs /\ e \in Msgs
        /\ ~Lists(g) /\ ~Lists(f) /\ ~Lists(e)
    BY <1>0, MissedTypes, MsgParts
  <2> HIDE DEF p, o, g, f, e
  <2>5. m \in Seq(Msgs) /\ Paired(m)
    <3> DEFINE x == Append(c, g)
               y == Append(x, f)
    <3>1. x \in Seq(Msgs) /\ Paired(x)
      BY <1>2, <2>4, SeqParts, AddLast
    <3> HIDE DEF x
    <3>2. y \in Seq(Msgs) /\ Paired(y)
      BY <2>4, <3>1, SeqParts, AddLast
    <3> HIDE DEF y
    <3>3. Append(y, e) \in Seq(Msgs) /\ Paired(Append(y, e))
      BY <2>4, <3>2, SeqParts, AddLast
    <3> QED BY <1>2, <3>3 DEF x, y
  <2> HIDE DEF m
  <2>6. TellsLast(Append(Append(m, p), o), shares) /\ Paired(Append(Append(m, p), o))
    BY <2>2, <2>3, <2>5, AddSnapshot
  <2> QED BY <1>1, <2>0, <2>2, <2>6, WordStep
<1> QED
  BY <1>3, <1>4, <1>5 DEF Connect

LEMMA OutsidePos ==
  ASSUME LInv, PosInv, Outside
  PROVE  PosInv'
<1>0. VenueTypeOK /\ wire \in Seq(Msgs) /\ UNCHANGED <<up, ready, position>>
      /\ flatJob.st = "idle"
  BY LInvFacts DEF VenueTypeOK, Outside, coreVars, PosInv
<1>1. ASSUME NEW r \in net \cup landed, Deliver(r) PROVE PosInv'
  <2>1. /\ r.id \in Orders /\ r.qty \in Qtys
        /\ UNCHANGED <<shares, online, flatJob>> /\ flatJob'.st = "idle"
    BY <1>0, <1>1 DEF VenueTypeOK, Requests, Deliver, SubmitLands, SubmitReturns, SubmitFails,
                      ActionLands, ActionFails, RestOfVenue
  <2>2. ASSUME NEW k \in {"OrderAccepted", "OrderRejected"},
               wire' = wire \/ wire' = Append(wire, LifeMsg(r.id, LifeEvent(k)))
        PROVE  PosInv'
    <3>1. LifeEvent(k) \in Life /\ LifeEvent(k).ev # "OrderFilled"
      BY LifeTypes DEF LifeKinds, LifeEvent
    <3>2. /\ LifeMsg(r.id, LifeEvent(k)) \in Msgs /\ Still(LifeMsg(r.id, LifeEvent(k)))
          /\ ~Lists(LifeMsg(r.id, LifeEvent(k)))
      BY <2>1, <3>1, MsgParts
    <3> QED BY <1>0, <2>1, <2>2, <3>2, StillStep
  <2>3. CASE SubmitLands(r) \/ SubmitFails(r)
    BY <2>2, <2>3 DEF SubmitLands, SubmitFails
  <2>4. CASE ActionLands(r)
    <3> DEFINE v == IF r.kind = "CANCEL" THEN [venue[r.id] EXCEPT !.st = "canceled"]
                                         ELSE [venue[r.id] EXCEPT !.qty = r.qty]
               e == IF r.kind = "CANCEL" THEN LifeEvent("OrderCanceled") ELSE ReplaceEvent(r.qty)
    <3>1. Frame(r.id, v, <<LifeMsg(r.id, e)>>)
      BY <2>4 DEF ActionLands
    <3>2. e \in Life /\ e.ev # "OrderFilled"
      BY <2>1, LifeTypes DEF LifeKinds, LifeEvent, ReplaceEvent
    <3> HIDE DEF v, e
    <3> QED BY <1>0, <2>1, <3>1, <3>2, FrameStep
  <2>5. CASE ActionFails(r)
    BY <1>0, <2>1, <2>2, <2>5 DEF ActionFails, NoFrame
  <2>6. CASE SubmitReturns(r)
    BY <1>0, <2>1, <2>2, <2>6 DEF SubmitReturns
  <2> QED BY <1>1, <2>3, <2>4, <2>5, <2>6 DEF Deliver
<1>2. ASSUME NEW i \in Orders, VenueExpires(i) PROVE PosInv'
  <2>1. \E v : Frame(i, v, <<LifeMsg(i, LifeEvent("OrderExpired"))>>)
    BY <1>2 DEF VenueExpires
  <2>2. UNCHANGED <<shares, online, flatJob>>
    BY <1>2 DEF VenueExpires
  <2>3. LifeEvent("OrderExpired") \in Life /\ LifeEvent("OrderExpired").ev # "OrderFilled"
    BY LifeTypes DEF LifeKinds, LifeEvent
  <2> QED BY <1>0, <2>1, <2>2, <2>3, FrameStep
<1>3. CASE CloseFills
  <2> DEFINE w == Append(wire, PositionMsg(0))
  <2>1. PositionMsg(0) \in Msgs /\ PositionMsg(0).qty = 0 /\ Tells(PositionMsg(0))
        /\ ~Lists(PositionMsg(0))
    BY MsgParts
  <2>2. Paired(w) /\ TellsLast(w, PositionMsg(0).qty)
    BY <1>0, <2>1, AddLast DEF PosInv
  <2>3. wire' = (IF online THEN w ELSE wire) /\ shares' = 0 /\ UNCHANGED <<online, flatJob>>
    BY <1>3 DEF CloseFills, adapterVars
  <2> HIDE DEF w
  <2>4. Paired(wire) /\ flatJob'.st = "idle"
    BY <1>0, <2>3 DEF PosInv
  <2> QED BY <2>1, <2>2, <2>3, <2>4, WordStep
<1>4. CASE FlattenCloses \/ FlattenReads
  BY <1>0, <1>4 DEF FlattenCloses, FlattenReads
<1> QED
  BY <1>1, <1>2, <1>3, <1>4, FillStep, StreamStep DEF Outside, BrokerNext

-----------------------------------------------------------------------------
(* The core *)

\* What ended or resized orders moves the position by nothing.
LEMMA NothingFilled ==
  ASSUME IsFiniteSet(Orders), NEW ls, \A i \in Orders : ls[i].ev # "OrderFilled"
  PROVE  FillsDelta(ls) = 0
<1> DEFINE f == [i \in Orders |-> FillDelta(i, ls[i])]
<1>1. \A i \in Orders : f[i] = 0
  BY DEF FillDelta
<1> HIDE DEF f
<1>2. {} \in SUBSET Orders /\ 0 \in Int
  OBVIOUS
<1>3. SumFunctionOnSet(f, Orders) = SumFunctionOnSet(f, {})
  BY <1>1, <1>2, SumOfPart
<1>4. SumFunctionOnSet(f, {}) = 0
  BY SumEmpty
<1> QED
  BY <1>3, <1>4 DEF FillsDelta, f

\* What must hold of the rest of the inbox once the core took a message.
LEMMA TakenStep ==
  ASSUME NEW t, wire' = t, Paired(t), flatJob'.st = "idle",
         online' => \/ TellsLast(t, shares') \/ BreaksLast(t)
                    \/ up' /\ ~ready' /\ NoLists(t)
                    \/ up' /\ position' = shares' /\ Calm(t)
  PROVE  PosInv'
BY DEF PosInv, Tracks, Paired, TellsLast, BreaksLast, NoLists, Calm, Still, Breaks, Tells, Fills,
       Lists

\* The broker events, one message at a time.
LEMMA EventPos ==
  ASSUME LInv, PosInv, IsFiniteSet(Orders), StreamEvent
  PROVE  PosInv'
<1> DEFINE h == Head(wire)
           t == Tail(wire)
<1>1. /\ wire \in Seq(Msgs) /\ shares \in Int /\ flatJob.st = "idle" /\ Paired(wire)
      /\ online => Tracks(wire, shares)
  BY LInvFacts DEF VenueTypeOK, PosInv
<1>2. wire # <<>> /\ wire' = t /\ up /\ UNCHANGED <<shares, online, up, flatJob>>
  BY DEF StreamEvent, OnLives, FoldLives, OnPosition, OnPositions, OnOpenOrders, OnStreamBreak,
         Receive, Idle, outside, brokerVars, adapterVars
<1>3. /\ \A q : TellsLast(wire, q) => \/ TellsLast(t, q)
                                      \/ Tells(h) /\ h.qty = q /\ Calm(t)
      /\ BreaksLast(wire) => BreaksLast(t) \/ (Breaks(h) /\ NoLists(t))
      /\ NoLists(wire) => NoLists(t) /\ ~Lists(h)
      /\ Calm(wire) => Calm(t) /\ Still(h)
      /\ Paired(t)
      /\ Calm(t) /\ h.ev = "BrokerPosition" => NoLists(t)
  BY <1>1, <1>2, TakeFirst
<1>4. CASE OnLives
  <2>1. h.ev = "Lives" /\ FoldLives(h.lives) /\ ready' = ready
    BY <1>4 DEF OnLives, Receive
  <2>2. ~Tells(h) /\ ~Breaks(h)
    BY <2>1 DEF Tells, Breaks
  <2>3. ASSUME Still(h), position = shares PROVE position' = position
    <3>1. \A i \in Orders : h.lives[i].ev # "OrderFilled"
      BY <2>1, <2>3 DEF Still, Fills
    <3>2. FillsDelta(h.lives) = 0
      BY <3>1, NothingFilled
    <3>3. position' = IF ready THEN position + FillsDelta(h.lives) ELSE position
      BY <2>1 DEF FoldLives
    <3> QED BY <1>1, <2>3, <3>2, <3>3
  <2> HIDE DEF h, t
  <2>4. online' => \/ TellsLast(t, shares') \/ BreaksLast(t)
                   \/ up' /\ ~ready' /\ NoLists(t)
                   \/ up' /\ position' = shares' /\ Calm(t)
    BY <1>1, <1>2, <1>3, <2>1, <2>2, <2>3 DEF Tracks
  <2> QED BY <1>1, <1>2, <1>3, <2>4, TakenStep
<1>5. CASE OnPosition
  <2>1. /\ h.ev = "BrokerPosition" /\ ready' = ready
        /\ position' = IF ready THEN h.qty ELSE position
    BY <1>5 DEF OnPosition, Receive
  <2>2. Tells(h) /\ ~Breaks(h) /\ ~Still(h)
    BY <2>1 DEF Tells, Breaks, Still
  <2> HIDE DEF h, t
  <2>3. online' => \/ TellsLast(t, shares') \/ BreaksLast(t)
                   \/ up' /\ ~ready' /\ NoLists(t)
                   \/ up' /\ position' = shares' /\ Calm(t)
    BY <1>1, <1>2, <1>3, <2>1, <2>2 DEF Tracks
  <2> QED BY <1>1, <1>2, <1>3, <2>3, TakenStep
<1>6. CASE OnPositions
  <2>1. h.ev = "BrokerPositions" /\ ready' = ready /\ position' = h.qty
    BY <1>6 DEF OnPositions, Receive
  <2>2. Tells(h) /\ ~Breaks(h) /\ ~Still(h)
    BY <2>1 DEF Tells, Breaks, Still
  <2> HIDE DEF h, t
  <2>3. online' => \/ TellsLast(t, shares') \/ BreaksLast(t)
                   \/ up' /\ ~ready' /\ NoLists(t)
                   \/ up' /\ position' = shares' /\ Calm(t)
    BY <1>1, <1>2, <1>3, <2>1, <2>2 DEF Tracks
  <2> QED BY <1>1, <1>2, <1>3, <2>3, TakenStep
<1>7. CASE OnOpenOrders
  <2>1. h.ev = "BrokerOpenOrders" /\ position' = position
    BY <1>7 DEF OnOpenOrders, Receive
  <2>2. ~Tells(h) /\ ~Breaks(h) /\ Lists(h)
    BY <2>1 DEF Tells, Breaks, Lists
  <2> HIDE DEF h, t
  <2>3. online' => \/ TellsLast(t, shares') \/ BreaksLast(t)
                   \/ up' /\ position' = shares' /\ Calm(t)
    BY <1>1, <1>2, <1>3, <2>1, <2>2 DEF Tracks
  <2> QED BY <1>1, <1>2, <1>3, <2>3, TakenStep
<1>8. ASSUME NEW k \in {"StreamGap", "BrokerConnUp", "BrokerConnDown"}, OnStreamBreak(k)
      PROVE  PosInv'
  <2>1. h.ev = k /\ ready' = FALSE
    BY <1>8 DEF OnStreamBreak, Receive
  <2>2. ~Tells(h) /\ Breaks(h) /\ ~Still(h)
    BY <2>1 DEF Tells, Breaks, Still
  <2> HIDE DEF h, t
  <2>3. online' => \/ TellsLast(t, shares') \/ BreaksLast(t)
                   \/ up' /\ ~ready' /\ NoLists(t)
    BY <1>1, <1>2, <1>3, <2>1, <2>2 DEF Tracks
  <2> QED BY <1>1, <1>2, <1>3, <2>3, TakenStep
<1> QED
  BY <1>4, <1>5, <1>6, <1>7, <1>8 DEF StreamEvent

\* The steps that neither hear nor say anything of the position.
LEMMA IdlePos ==
  ASSUME PosInv, UNCHANGED <<wire, shares, online, up, ready, position, flatJob>>
  PROVE  PosInv'
BY DEF PosInv, Tracks, Paired, TellsLast, BreaksLast, NoLists, Calm, Still, Breaks, Tells, Fills,
       Lists

LEMMA ProcessPos ==
  ASSUME LInv, PosInv, Process, ~up => (online => TellsLast(wire, shares) \/ BreaksLast(wire))
  PROVE  PosInv'
<1>1. CASE Crash \/ ShutdownEngine
  <2>1. wire' = <<>> /\ flatJob'.st = "idle" /\ ~online'
    BY <1>1 DEF Crash, ShutdownEngine, ProcessDies, IdleJob
  <2>2. Paired(<<>>)
    <3>1. Len(<<>>) = 0 /\ \A l \in 1 .. 0 : FALSE
      OBVIOUS
    <3> QED BY <3>1 DEF Paired
  <2> QED BY <2>1, <2>2, WordStep
<1>2. ASSUME NEW ok \in BOOLEAN, Recover(ok) PROVE PosInv'
  <2>1. ~up /\ UNCHANGED <<wire, shares, online, flatJob>>
    BY <1>2 DEF Recover, adapterVars
  <2>2. Paired(wire) /\ flatJob'.st = "idle"
    BY <2>1 DEF PosInv
  <2> QED BY <2>1, <2>2, WordStep
<1> QED
  BY <1>1, <1>2 DEF Process

LEMMA CorePos ==
  ASSUME LInv, PosInv, IsFiniteSet(Orders), "flatten" \notin Commands, Next, ~Outside
  PROVE  PosInv'
<1>1. CASE OrderCommand
  BY ZenonT(40), <1>1, IdlePos DEF OrderCommand, SubmitNative, SubmitHeld, CancelOrder, ReplaceOrder,
     ReplaceHeld, ResumeHeld, venueVars, brokerVars, adapterVars, outside
<1>2. CASE AccountCommand
  BY <1>2, IdlePos DEF AccountCommand, Arm, DisarmMaster, AutoDisarm, KillSwitch, Flatten,
     venueVars, brokerVars, adapterVars, outside
<1>3. CASE JobResult
  <2>1. ~OnSnapshot
    BY DEF OnSnapshot, PosInv
  <2> QED BY <1>3, <2>1, IdlePos DEF JobResult, OnOutcome, brokerVars, adapterVars, outside
<1>4. CASE HeldStep
  BY <1>4, IdlePos DEF HeldStep, EligiblePrint, PrintGap, ExpireHeldOrders, Tick,
     venueVars, brokerVars, adapterVars, outside
<1>5. CASE \E i \in Orders : EvaluateHeld(i)
  BY <1>5, IdlePos DEF EvaluateHeld, brokerVars, adapterVars, outside
<1>6. CASE Process
  BY <1>6, ProcessPos DEF PosInv, Tracks
<1> QED
  BY <1>1, <1>2, <1>3, <1>4, <1>5, <1>6, EventPos DEF Next

-----------------------------------------------------------------------------
(* The theorem *)

LEMMA InitPos == Init => PosInv
<1> SUFFICES ASSUME Init PROVE PosInv
  OBVIOUS
<1>1. wire = <<>> /\ position = Opening /\ shares = Opening /\ up /\ flatJob.st = "idle"
  BY DEF Init, VenueInit, IdleJob
<1>2. Len(<<>>) = 0 /\ \A l \in 1 .. 0 : FALSE
  OBVIOUS
<1> QED
  BY <1>1, <1>2 DEF PosInv, Paired, Tracks, Calm

\* Once the stream is up and drained, the position of a core that trusts it is
\* the broker's, over fills, drops, failed snapshots, crashes and restarts, as
\* long as nobody flattens (applyPositionFill, reconcile, Recover).
THEOREM ReadyIsTrue ==
  ASSUME IsFiniteSet(Orders), "flatten" \notin Commands
  PROVE  Spec => []SettledPosition
<1>1. Init => PosInv
  BY InitPos
<1>2. LInv /\ PosInv /\ [Next]_vars => PosInv'
  <2> SUFFICES ASSUME LInv, PosInv, [Next]_vars PROVE PosInv'
    OBVIOUS
  <2>1. CASE UNCHANGED vars
    BY <2>1, IdlePos DEF vars, venueVars, brokerVars, adapterVars, coreVars
  <2>2. CASE Next /\ Outside
    BY <2>2, OutsidePos
  <2>3. CASE Next /\ ~Outside
    BY <2>3, CorePos
  <2> QED BY <2>1, <2>2, <2>3
<1>3. PosInv => SettledPosition
  <2> SUFFICES ASSUME PosInv, Settled PROVE position = shares
    BY DEF SettledPosition
  <2>1. Len(<<>>) = 0 /\ \A l \in 1 .. 0 : FALSE
    OBVIOUS
  <2>2. ~TellsLast(<<>>, shares) /\ ~BreaksLast(<<>>)
    BY <2>1 DEF TellsLast, BreaksLast
  <2> QED BY <2>2 DEF PosInv, Settled, Tracks
<1> QED
  BY <1>1, <1>2, <1>3, LifeInvariant, PTL DEF Spec

-----------------------------------------------------------------------------
(***************************************************************************)
(* An order the core calls done stays so while the engine runs, as long as *)
(* nobody flattens: every SELL does, and where no answer to a submit is    *)
(* lost, every order.                                                      *)
(***************************************************************************)

\* What may change the status of an order that is done.
Revives(m, i) ==
  m.lives[i].ev \in {"OrderAccepted", "OrderFilled", "OrderRejected"} \/ Listed(m.rows[i])
Inert(i) == {m \in Msgs : ~Revives(m, i)}

\* In the inbox nothing that revives an order is behind what ends it.
EndsLast(w, i) ==
  \A k, l \in 1 .. Len(w) : k < l /\ Ending(w[k].lives[i]) => ~Revives(w[l], i)

\* No list the core has yet to fold reads the order's status as done.
PlainMsgs(i) == {m \in Msgs : PlainRow(m.rows[i])}

\* Nothing says of an order the adapter still tracks that it is done; once the
\* core calls it done, nothing that waits revives it.
Laid(i) ==
  /\ wire \in Seq(PlainMsgs(i)) /\ PlainRow(flatJob.rows[i])
  /\ tracked[i] => posts[i] # 0 /\ Afoot(i)
  /\ ~Undone(i) => wire \in Seq(Inert(i))
  /\ EndsLast(wire, i)
\* A SELL is always a guarded submit or a child, whose lost answer is only a
\* doubt; that of any other submit is taken for a rejection.
Firm == IF "request" \in Upsets THEN Sells ELSE Orders
\* No goroutine holds a snapshot, and none reports the error of a submit that
\* would reject a firm order.
NoLateWord ==
  /\ flatJob.st = "idle"
  /\ \A x \in outcomes : x.kind = "SUBMIT" => x.id \notin Firm
  /\ \A r \in net : r.kind = "SUBMIT" => r.id \notin Sells
\* An order whose status a list read as done, or whose note the adapter wound
\* back, is not spoken of.
Rest == NoLateWord /\ \A i \in Orders \ (misread \cup rewound) : Laid(i)

-----------------------------------------------------------------------------
(* The inbox *)

LEMMA InertMsgs ==
  ASSUME NEW i \in Orders
  PROVE  /\ QuietMsgs(i) \subseteq Inert(i)
         /\ \A k \in MsgKinds : Msg(k) \in Inert(i)
         /\ \A ls \in [Orders -> Life] :
              ls[i].ev \in TameEvents => LivesMsg(ls) \in Inert(i)
         /\ \A j \in Orders, e \in Life :
              (i = j => e.ev \in TameEvents) => LifeMsg(j, e) \in Inert(i)
         /\ \A q \in Int : PositionMsg(q) \in Inert(i)
<1>1. NoEvent.ev = "NoEvent"
  BY DEF NoEvent, LifeEvent
<1>2. QuietMsgs(i) \subseteq Inert(i)
  BY <1>1 DEF QuietMsgs, Inert, Revives
<1>3. ASSUME NEW ls \in [Orders -> Life], ls[i].ev \in TameEvents PROVE LivesMsg(ls) \in Inert(i)
  <2>1. LivesMsg(ls) \in Msgs
    BY MsgTypes
  <2>2. LivesMsg(ls).lives = ls /\ ~Listed(LivesMsg(ls).rows[i])
    BY DEF LivesMsg, Msg, NoRows, NoRow, Listed
  <2> QED BY <1>3, <2>1, <2>2 DEF Inert, Revives, TameEvents
<1>4. ASSUME NEW j \in Orders, NEW e \in Life, i = j => e.ev \in TameEvents
      PROVE  LifeMsg(j, e) \in Inert(i)
  <2>1. NoLives \in [Orders -> Life] /\ NoLives[i] = NoEvent
    BY LifeTypes DEF NoLives
  <2>2. /\ [NoLives EXCEPT ![j] = e] \in [Orders -> Life]
        /\ [NoLives EXCEPT ![j] = e][i] = IF i = j THEN e ELSE NoEvent
    BY <2>1
  <2> QED BY <1>1, <1>3, <1>4, <2>2 DEF LifeMsg, TameEvents
<1> QED
  BY <1>2, <1>3, <1>4, QuietMsgTypes

\* Only a list of the open orders tells a status.
LEMMA PlainOnes ==
  ASSUME NEW i \in Orders
  PROVE  /\ Unending(i) \subseteq PlainMsgs(i) /\ PlainMsgs(i) \subseteq Msgs
         /\ \A k \in MsgKinds : Msg(k) \in PlainMsgs(i)
         /\ \A ls \in [Orders -> Life] : LivesMsg(ls) \in PlainMsgs(i)
         /\ \A j \in Orders, e \in Life : LifeMsg(j, e) \in PlainMsgs(i)
         /\ \A q \in Int : PositionMsg(q) \in PlainMsgs(i)
<1>1. PlainRow(NoRows[i])
  BY DEF PlainRow, NoRows, NoRow
<1>2. /\ \A k : Msg(k).rows = NoRows
      /\ \A ls : LivesMsg(ls).rows = NoRows
      /\ \A j, e : LifeMsg(j, e).rows = NoRows
      /\ \A q : PositionMsg(q).rows = NoRows
  BY DEF Msg, LivesMsg, LifeMsg, PositionMsg
<1> QED
  BY <1>1, <1>2, MsgTypes DEF PlainMsgs, Unending

LEMMA SeqOfParts ==
  ASSUME NEW S, NEW T, NEW s \in Seq(S), \A l \in 1 .. Len(s) : s[l] \in T
  PROVE  s \in Seq(T)
<1>1. Len(s) \in Nat /\ s \in [1 .. Len(s) -> S]
  BY LenProperties
<1>2. s \in [1 .. Len(s) -> T]
  BY <1>1
<1> QED
  BY <1>1, <1>2, SeqDef

\* A message put at the end.
LEMMA EndsLastPut ==
  ASSUME NEW i \in Orders, NEW w \in Seq(Msgs), EndsLast(w, i), NEW m \in Msgs,
         m \in Inert(i) \/ w \in Seq(Unending(i))
  PROVE  EndsLast(Append(w, m), i)
<1> DEFINE a == Append(w, m)
<1>1. /\ Len(w) \in Nat /\ Len(a) = Len(w) + 1 /\ a[Len(w) + 1] = m
      /\ \A l \in 1 .. Len(w) : a[l] = w[l]
  BY SeqParts
<1>2. w \in Seq(Unending(i)) => \A l \in 1 .. Len(w) : ~Ending(w[l].lives[i])
  BY SeqParts DEF Unending
<1> HIDE DEF a
<1>3. ASSUME NEW k \in 1 .. Len(a), NEW l \in 1 .. Len(a), k < l, Ending(a[k].lives[i])
      PROVE  ~Revives(a[l], i)
  <2>1. k \in 1 .. Len(w) /\ a[k] = w[k]
    BY <1>1, <1>3
  <2>2. CASE l = Len(w) + 1
    BY <1>1, <1>2, <1>3, <2>1, <2>2 DEF Inert
  <2>3. CASE l # Len(w) + 1
    <3>1. l \in 1 .. Len(w) /\ a[l] = w[l]
      BY <1>1, <2>3
    <3> QED BY <1>3, <2>1, <3>1 DEF EndsLast
  <2> QED BY <2>2, <2>3
<1> QED
  BY <1>3 DEF EndsLast, a

\* The head taken off: behind one that ended the order nothing revives it.
LEMMA EndsLastTake ==
  ASSUME NEW i \in Orders, NEW w \in Seq(Msgs), EndsLast(w, i), w # <<>>
  PROVE  /\ EndsLast(Tail(w), i)
         /\ Ending(Head(w).lives[i]) => Tail(w) \in Seq(Inert(i))
<1> DEFINE t == Tail(w)
<1>1. /\ Len(w) \in Nat /\ Len(w) > 0 /\ t \in Seq(Msgs) /\ Len(t) = Len(w) - 1
      /\ Head(w) = w[1] /\ \A l \in 1 .. Len(t) : t[l] = w[l + 1] /\ t[l] \in Msgs
  BY SeqParts
<1> HIDE DEF t
<1>2. \A l \in 1 .. Len(t) : l + 1 \in 1 .. Len(w) /\ 1 < l + 1
  BY <1>1
<1>3. ASSUME NEW k \in 1 .. Len(t), NEW l \in 1 .. Len(t), k < l, Ending(t[k].lives[i])
      PROVE  ~Revives(t[l], i)
  <2>1. k + 1 < l + 1 /\ k + 1 \in 1 .. Len(w) /\ l + 1 \in 1 .. Len(w)
    BY <1>2, <1>3
  <2> QED BY <1>1, <1>3, <2>1 DEF EndsLast
<1>4. ASSUME Ending(Head(w).lives[i]) PROVE t \in Seq(Inert(i))
  <2>1. 1 \in 1 .. Len(w)
    BY <1>1
  <2>2. \A l \in 1 .. Len(t) : t[l] \in Inert(i)
    BY <1>1, <1>2, <1>4, <2>1 DEF EndsLast, Inert
  <2> QED BY <1>1, <2>2, SeqOfParts
<1> QED
  BY <1>3, <1>4 DEF EndsLast, t

-----------------------------------------------------------------------------
(* The broker, the requests and the stream *)

\* Of an order that is neither at the broker nor tracked nothing new is said.
Free(i) == ~AtBroker(i) /\ ~tracked[i]
Said(i, w) == /\ w \in Seq(PlainMsgs(i)) /\ EndsLast(w, i)
              /\ Free(i) /\ wire \in Seq(Inert(i)) => w \in Seq(Inert(i))
LEMMA PutSaid ==
  ASSUME NEW i \in Orders, NEW w, Said(i, w), NEW m \in PlainMsgs(i),
         m \in Inert(i) \/ (~Free(i) /\ w \in Seq(Unending(i)))
  PROVE  Said(i, Append(w, m))
<1>0. w \in Seq(Msgs) /\ m \in Msgs
  BY PlainOnes, SeqRises DEF Said
<1>1. Append(w, m) \in Seq(PlainMsgs(i)) /\ EndsLast(Append(w, m), i)
  BY <1>0, EndsLastPut, AppendProperties DEF Said
<1>2. m \in Inert(i) /\ w \in Seq(Inert(i)) => Append(w, m) \in Seq(Inert(i))
  BY AppendProperties
<1> QED
  BY <1>1, <1>2 DEF Said

\* What a step outside the core leaves: the inbox said right, and what is still
\* tracked either at the broker or not told to be done.
Kept(i) ==
  /\ Said(i, wire')
  /\ tracked'[i] => \/ AtBroker(i)'
                    \/ tracked[i] /\ (wire \in Seq(Unending(i)) => wire' \in Seq(Unending(i)))
Heard(i) == Said(i, wire) /\ (Free(i) \/ wire \in Seq(Unending(i)))

\* A frame about an open order, with the position or without.
LEMMA FrameKept ==
  ASSUME LInv, NEW i \in Orders, Alone(i), Heard(i), NEW j \in Orders, OpenAt(j),
         NEW v, venue' = [venue EXCEPT ![j] = v], NEW e \in Life, NEW s \in Int,
         Frame(j, v, <<LifeMsg(j, e)>>) \/ Frame(j, v, <<LifeMsg(j, e), PositionMsg(s)>>)
  PROVE  Kept(i)
<1> DEFINE m == LifeMsg(j, e)
           p == PositionMsg(s)
<1>1. wire \in Seq(Msgs) /\ VenueTypeOK
  BY LInvFacts DEF VenueTypeOK
<1>2. /\ m \in Msgs /\ p \in Inert(i) /\ p \in Unending(i) /\ p \in Msgs
      /\ m \in PlainMsgs(i) /\ p \in PlainMsgs(i)
  BY MsgTypes, InertMsgs, UnendingMsgs, PlainOnes
<1>3. i # j => m \in Inert(i) /\ m \in Unending(i)
  BY InertMsgs, UnendingMsgs
<1> HIDE DEF m, p
<1>4. wire \o <<m>> = Append(wire, m) /\ wire \o <<m, p>> = Append(Append(wire, m), p)
  BY <1>1, <1>2, PutOne, PutTwo
<1>5. i = j => ~Free(i)
  BY DEF Free, AtBroker
<1>6. Said(i, Append(wire, m)) /\ Said(i, Append(Append(wire, m), p))
  BY <1>2, <1>3, <1>5, PutSaid DEF Heard
<1>7. Said(i, wire')
  BY <1>4, <1>6 DEF Frame, Heard, m, p
<1>8. ASSUME tracked'[i], ~AtBroker(i)' PROVE tracked[i]
        /\ (wire \in Seq(Unending(i)) => wire' \in Seq(Unending(i)))
  <2>1. CASE ~online
    BY <1>8, <2>1 DEF Frame
  <2>2. CASE online /\ i # j
    <3>1. tracked'[i] = tracked[i]
      BY <1>1, <2>2 DEF Frame, VenueTypeOK
    <3>2. wire' = Append(wire, m) \/ wire' = Append(Append(wire, m), p)
      BY <1>4, <2>2 DEF Frame, m, p
    <3>3. ASSUME wire \in Seq(Unending(i))
          PROVE  /\ Append(wire, m) \in Seq(Unending(i))
                 /\ Append(Append(wire, m), p) \in Seq(Unending(i))
      <4>1. Append(wire, m) \in Seq(Unending(i))
        BY <1>3, <2>2, <3>3, AppendProperties
      <4> QED BY <1>2, <4>1, AppendProperties
    <3> QED BY <1>8, <3>1, <3>2, <3>3
  <2>3. CASE online /\ i = j
    <3>1. tracked'[i] = (v.st = "open") /\ venue'[i] = v
      BY <1>1, <2>3 DEF Frame, VenueTypeOK
    <3> QED BY <1>8, <3>1 DEF AtBroker, OpenAt
  <2> QED BY <2>1, <2>2, <2>3
<1> QED
  BY <1>7, <1>8 DEF Kept

\* A message put at the end of which the adapter takes no note.
LEMMA MessageKept ==
  ASSUME LInv, NEW i \in Orders, Heard(i), NEW m \in Msgs,
         wire' = wire \/ wire' = Append(wire, m),
         m \in Inert(i) \/ ~Free(i), m \in Unending(i),
         tracked'[i] => tracked[i] \/ AtBroker(i)'
  PROVE  Kept(i)
<1>1. Said(i, wire')
  BY PutSaid, PlainOnes DEF Heard
<1>2. wire \in Seq(Unending(i)) => wire' \in Seq(Unending(i))
  BY AppendProperties
<1> QED
  BY <1>1, <1>2 DEF Kept

LEMMA BrokerKept ==
  ASSUME LInv, NEW i \in Orders, Alone(i), Heard(i), NEW j \in Orders, Fill(j) \/ VenueExpires(j)
  PROVE  Kept(i)
<1>0. VenueTypeOK /\ venue[j] \in VenueOrder
  BY LInvFacts DEF VenueTypeOK
<1>1. CASE Fill(j)
  <2> DEFINE v == [venue[j] EXCEPT
                     !.exec = @ + 1,
                     !.st = IF venue[j].exec + 1 = venue[j].qty THEN "filled" ELSE "open"]
             s == IF j \in Sells THEN shares - 1 ELSE shares + 1
             e == FillEvent(v.exec, v.qty - v.exec)
  <2>1. /\ OpenAt(j) /\ venue' = [venue EXCEPT ![j] = v] /\ venue[j].exec < venue[j].qty
        /\ Frame(j, v, <<LifeMsg(j, e), PositionMsg(s)>>)
    BY <1>1 DEF Fill
  <2>2. v.exec = venue[j].exec + 1 /\ v.qty = venue[j].qty
        /\ venue[j].exec \in Nat /\ venue[j].qty \in Nat /\ venue[j].qty <= MaxQty
    BY <1>0, QtyAssumption DEF VenueOrder, Qtys
  <2>3. v.exec \in Qtys /\ v.qty - v.exec \in Qtys
    BY <2>1, <2>2, QtyAssumption DEF Qtys
  <2>4. e \in Life
    BY <2>3, LifeTypes
  <2>5. s \in Int
    BY <1>0 DEF VenueTypeOK
  <2> HIDE DEF v, s, e
  <2> QED BY <2>1, <2>4, <2>5, FrameKept
<1>2. CASE VenueExpires(j)
  <2> DEFINE v == [venue[j] EXCEPT !.st = "expired"]
             e == LifeEvent("OrderExpired")
  <2>1. OpenAt(j) /\ venue' = [venue EXCEPT ![j] = v] /\ Frame(j, v, <<LifeMsg(j, e)>>)
    BY <1>2 DEF VenueExpires
  <2>2. e \in Life /\ 0 \in Int
    BY LifeTypes DEF LifeKinds
  <2> HIDE DEF v, e
  <2> QED BY <2>1, <2>2, FrameKept
<1> QED
  BY <1>1, <1>2

LEMMA DeliverKept ==
  ASSUME LInv, NEW i \in Orders, i \notin rewound', Alone(i), Heard(i),
         NEW r \in net \cup landed, Deliver(r)
  PROVE  Kept(i)
<1>0. VenueTypeOK /\ r.id \in Orders /\ r.qty \in Qtys
  BY LInvFacts DEF VenueTypeOK, Requests
<1>1. ASSUME r \in net, r.kind \in SubmitKinds, r.id = i PROVE ~Free(i)
  BY <1>1 DEF Free, AtBroker, Alone, SubmitInFlight
<1>2. ASSUME NEW k \in {"OrderAccepted", "OrderRejected"}, r \in net, r.kind \in SubmitKinds,
             wire' = wire \/ wire' = Append(wire, LifeMsg(r.id, LifeEvent(k))),
             tracked'[i] => tracked[i] \/ AtBroker(i)'
      PROVE  Kept(i)
  <2>1. LifeEvent(k) \in Life /\ ~Ending(LifeEvent(k))
    BY LifeTypes DEF LifeKinds, Ending, LifeEvent
  <2> DEFINE m == LifeMsg(r.id, LifeEvent(k))
  <2>2. m \in Msgs /\ m \in Unending(i) /\ (r.id # i => m \in Inert(i))
    BY <1>0, <2>1, MsgTypes, InertMsgs, UnendingMsgs
  <2> HIDE DEF m
  <2> QED BY <1>1, <1>2, <2>2, MessageKept DEF m
<1>3. CASE SubmitLands(r)
  <2>1. tracked'[i] => tracked[i] \/ AtBroker(i)'
    <3>1. CASE i # r.id
      BY <1>0, <1>3, <3>1 DEF SubmitLands, VenueTypeOK
    <3>2. CASE i = r.id
      BY <1>0, <1>3, <3>2 DEF SubmitLands, VenueTypeOK, Landed, AtBroker, OpenAt
    <3> QED BY <3>1, <3>2
  <2> QED BY <1>2, <1>3, <2>1 DEF SubmitLands
<1>4. CASE SubmitFails(r)
  BY <1>2, <1>4 DEF SubmitFails
<1>5. CASE ActionLands(r)
  <2> DEFINE v == IF r.kind = "CANCEL" THEN [venue[r.id] EXCEPT !.st = "canceled"]
                                       ELSE [venue[r.id] EXCEPT !.qty = r.qty]
             e == IF r.kind = "CANCEL" THEN LifeEvent("OrderCanceled") ELSE ReplaceEvent(r.qty)
  <2>1. OpenAt(r.id) /\ venue' = [venue EXCEPT ![r.id] = v] /\ Frame(r.id, v, <<LifeMsg(r.id, e)>>)
    BY <1>5 DEF ActionLands, CanDo
  <2>2. e \in Life /\ 0 \in Int
    BY <1>0, LifeTypes DEF LifeKinds
  <2> HIDE DEF v, e
  <2> QED BY <1>0, <2>1, <2>2, FrameKept
<1>6. CASE ActionFails(r)
  <2>1. UNCHANGED <<wire, tracked>>
    BY <1>6 DEF ActionFails, NoFrame
  <2> QED BY <2>1 DEF Kept, Heard
<1>7. CASE SubmitReturns(r)
  <2>1. UNCHANGED <<wire, venue>> /\ (r.id = i => OpenAt(i))
    BY <1>7 DEF SubmitReturns
  <2>2. r.id # i => tracked'[i] = tracked[i]
    BY <1>0, <1>7 DEF SubmitReturns, VenueTypeOK
  <2> QED BY <2>1, <2>2 DEF Kept, Heard, AtBroker, OpenAt
<1> QED
  BY <1>3, <1>4, <1>5, <1>6, <1>7 DEF Deliver

\* What a reconcile says: it ends an order only if that is over, and lists it
\* only if it is open.
LEMMA ReconcileKept ==
  ASSUME LInv, NEW i \in Orders, i \notin misread', Alone(i), Heard(i), Connect,
         ReconcileSucceeds
  PROVE  Kept(i)
<1>0. VenueTypeOK /\ wire \in Seq(Msgs)
  BY LInvFacts DEF VenueTypeOK
<1>a. PICK rows \in Readings :
        /\ i \notin OddIn(rows)
        /\ wire' = Append(wire, Msg("BrokerConnUp")) \o ReconcileMsgs(rows)
        /\ tracked'[i] => OpenAt(i) \/ (tracked[i] /\ ~connected)
  BY DEF ReconcileSucceeds, Read
<1> DEFINE p == [Msg("BrokerPositions") EXCEPT !.qty = shares]
           o == [Msg("BrokerOpenOrders") EXCEPT !.rows = rows]
           g == Msg("StreamGap")
           f == LivesMsg(MissedFills)
           e == LivesMsg(MissedEnds)
           u == Msg("BrokerConnUp")
           c == Append(wire, u)
           x == Append(c, g)
           y == Append(x, f)
           z == Append(y, e)
           m == IF connected THEN z ELSE c
           n == Append(m, p)
<1>1. /\ p \in Msgs /\ o \in Msgs
      /\ \A w \in Seq(Msgs) :
           w \o ReconcileMsgs(rows) =
             Append(Append(IF connected THEN Append(Append(Append(w, g), f), e) ELSE w, p), o)
  BY <1>0, ReconcilePuts
<1>2. /\ g \in Inert(i) /\ g \in Unending(i) /\ g \in Msgs
      /\ u \in Inert(i) /\ u \in Unending(i) /\ u \in Msgs
  BY InertMsgs, UnendingMsgs, MsgTypes DEF MsgKinds
<1>3. p \in Inert(i) /\ p \in Unending(i) /\ o \in Unending(i) /\ (~OpenAt(i) => o \in Inert(i))
  <2>1. ~Ending(NoEvent) /\ NoLives[i] = NoEvent /\ NoEvent.ev = "NoEvent"
        /\ ~Listed(NoRows[i])
    BY DEF Ending, NoEvent, LifeEvent, NoLives, NoRows, NoRow, Listed
  <2>2. p.lives = NoLives /\ p.rows = NoRows /\ o.lives = NoLives /\ o.rows = rows
    BY DEF Msg
  <2>3. (~OpenAt(i) => ~Listed(rows[i])) /\ PlainRow(rows[i])
    BY <1>a, ReadingsTell DEF NoRow, Listed, OddIn, PlainRow
  <2> HIDE DEF p, o
  <2> QED BY <1>1, <2>1, <2>2, <2>3 DEF Inert, Unending, Revives, PlainRow
<1>4. /\ e \in Msgs /\ e \in Inert(i) /\ (OpenAt(i) => e \in Unending(i))
      /\ e \in PlainMsgs(i)
  <2>1. MissedEnds \in [Orders -> Life]
    BY <1>0, MissedTypes
  <2>2. MissedEnds[i].ev \in TameEvents
    BY DEF MissedEnds, TameEvents, LifeEvent, NoEvent
  <2>3. OpenAt(i) => ~Ending(MissedEnds[i])
    BY DEF MissedEnds, Missed, Ending, NoEvent, LifeEvent
  <2> QED BY <2>1, <2>2, <2>3, MsgTypes, InertMsgs, UnendingMsgs, PlainOnes
<1>5. /\ f \in Msgs /\ (Free(i) => f \in Inert(i)) /\ (OpenAt(i) => f \in Unending(i))
      /\ f \in PlainMsgs(i)
  <2>1. MissedFills \in [Orders -> Life]
    BY <1>0, MissedTypes
  <2>2. Free(i) => MissedFills[i].ev \in TameEvents
    BY DEF MissedFills, Missed, Compared, Free, AtBroker, TameEvents, LifeEvent, NoEvent
  <2>3. ASSUME OpenAt(i) PROVE ~Ending(MissedFills[i])
    <3>1. CASE (Compared(i) \/ Missed(i)) /\ venue[i].exec > seenQty[i]
      <4>1. venue[i].exec \in Nat /\ venue[i].qty \in Nat /\ seenQty[i] \in Nat
        BY <1>0, QtyAssumption DEF VenueTypeOK, VenueOrder, Qtys
      <4>2. Minus(venue[i].qty, venue[i].exec) # 0
        BY <2>3, <3>1, <4>1 DEF Alone, Minus
      <4>3. MissedFills[i] = FillEvent(venue[i].exec, Minus(venue[i].qty, venue[i].exec))
        BY <3>1 DEF MissedFills
      <4>4. \A k, l : FillEvent(k, l).ev = "OrderFilled" /\ FillEvent(k, l).leaves = l
        BY DEF FillEvent, LifeEvent
      <4> QED BY <4>2, <4>3, <4>4 DEF Ending
    <3>2. CASE ~((Compared(i) \/ Missed(i)) /\ venue[i].exec > seenQty[i])
      BY <3>2 DEF MissedFills, NoEvent, LifeEvent, Ending
    <3> QED BY <3>1, <3>2
  <2> QED BY <2>1, <2>2, <2>3, MsgTypes, InertMsgs, UnendingMsgs, PlainOnes
<1>p. {g, u, p, o} \subseteq PlainMsgs(i)
  BY <1>2, <1>3, PlainOnes
<1>6. wire' = Append(n, o)
  <2>1. c \in Seq(Msgs)
    BY <1>0, <1>2, AppendProperties
  <2>2. wire' = c \o ReconcileMsgs(rows)
    BY <1>a
  <2> HIDE DEF c, p, o, g, f, e
  <2> QED BY <1>1, <2>1, <2>2
<1> HIDE DEF p, o, g, f, e, u
<1>7. OpenAt(i) => ~Free(i)
  BY DEF Free, AtBroker
<1>8. Said(i, c) /\ (wire \in Seq(Unending(i)) => c \in Seq(Unending(i)))
  BY <1>p, <1>2, PutSaid, AppendProperties DEF Heard
<1> HIDE DEF c
<1>9. Said(i, x) /\ (wire \in Seq(Unending(i)) => x \in Seq(Unending(i)))
  BY <1>p, <1>2, <1>8, PutSaid, AppendProperties
<1> HIDE DEF x
<1>10. Said(i, y) /\ (wire \in Seq(Unending(i)) /\ OpenAt(i) => y \in Seq(Unending(i)))
  BY <1>p, <1>5, <1>9, PutSaid, AppendProperties DEF Heard
<1> HIDE DEF y
<1>11. Said(i, z) /\ (wire \in Seq(Unending(i)) /\ OpenAt(i) => z \in Seq(Unending(i)))
  BY <1>p, <1>4, <1>10, PutSaid, AppendProperties
<1> HIDE DEF z
<1>12. /\ Said(i, m)
       /\ wire \in Seq(Unending(i)) /\ (OpenAt(i) \/ ~connected) => m \in Seq(Unending(i))
  BY <1>8, <1>11
<1> HIDE DEF m
<1>13. /\ Said(i, n)
       /\ wire \in Seq(Unending(i)) /\ (OpenAt(i) \/ ~connected) => n \in Seq(Unending(i))
  BY <1>p, <1>1, <1>3, <1>12, PutSaid, AppendProperties
<1> HIDE DEF n
<1>14. Said(i, wire')
  BY <1>p, <1>1, <1>3, <1>6, <1>7, <1>13, PutSaid DEF Heard
<1>15. wire \in Seq(Unending(i)) /\ ~connected => wire' \in Seq(Unending(i))
  BY <1>3, <1>6, <1>13, AppendProperties
<1>16. tracked'[i] => AtBroker(i)' \/ (tracked[i] /\ ~connected)
  <2>2. UNCHANGED venue
    BY DEF Connect
  <2> QED BY <1>a, <2>2 DEF AtBroker, OpenAt
<1> QED
  BY <1>14, <1>15, <1>16 DEF Kept

\* The stream and the goroutine of a Flatten.
LEMMA StreamKept ==
  ASSUME LInv, NEW i \in Orders, i \notin misread', Alone(i), Heard(i),
         CloseFills \/ Drop \/ Connect \/ FlattenCloses \/ FlattenReads
  PROVE  Kept(i)
<1>1. CASE Connect /\ ReconcileSucceeds
  BY <1>1, ReconcileKept
<1>2. CASE FlattenCloses \/ FlattenReads
  <2>1. UNCHANGED <<wire, tracked>>
    BY <1>2 DEF FlattenCloses, FlattenReads, adapterVars
  <2> QED BY <2>1 DEF Kept, Heard
<1>3. CASE CloseFills \/ Drop \/ (Connect /\ ReconcileFails)
  <2>1. /\ UNCHANGED tracked
        /\ \/ wire' = wire
           \/ \E m \in {PositionMsg(0), Msg("BrokerConnDown"), Msg("BrokerConnUp")} :
                wire' = Append(wire, m)
    BY <1>3 DEF CloseFills, Drop, Connect, ReconcileFails, adapterVars
  <2>2. \A m \in {PositionMsg(0), Msg("BrokerConnDown"), Msg("BrokerConnUp")} :
          m \in Msgs /\ m \in Inert(i) /\ m \in Unending(i)
    BY MsgTypes, InertMsgs, UnendingMsgs DEF MsgKinds
  <2>3. CASE wire' = wire
    BY <2>1, <2>3 DEF Kept, Heard
  <2>4. ASSUME NEW m \in {PositionMsg(0), Msg("BrokerConnDown"), Msg("BrokerConnUp")},
               wire' = Append(wire, m)
        PROVE  Kept(i)
    BY <2>1, <2>2, <2>4, MessageKept
  <2> QED BY <2>1, <2>3, <2>4
<1> QED
  BY <1>1, <1>2, <1>3 DEF Connect

-----------------------------------------------------------------------------
(* The core *)

LEMMA NoLateWordStays ==
  ASSUME LInv, NoLateWord, "flatten" \notin Commands, Next
  PROVE  NoLateWord'
<1> USE DEF NoLateWord
<1> DEFINE Plain(R) == \A r \in R : r.kind = "SUBMIT" => r.id \notin Sells
<1>0. VenueTypeOK /\ "CANCEL" # "SUBMIT" /\ "REPLACE" # "SUBMIT"
  BY LInvFacts
<1>1. \A ids : Plain(Cancels(ids))
  BY DEF Cancels, Request
<1>2. \A R : Plain(R) /\ Send(R) => Plain(net')
  BY DEF Send
<1>3. \A i, q : \A k \in {"GUARDED", "CHILD", "REPLACE"} : Plain({Request(k, i, q)})
  BY DEF Request
<1>4. Plain({})
  OBVIOUS
<1>5. Plain(net)
  OBVIOUS
<1>6. ASSUME UNCHANGED <<flatJob, outcomes>>, Plain(net') PROVE NoLateWord'
  BY <1>6
<1> HIDE DEF Plain
<1>7. ASSUME NEW i \in Orders, SubmitNative(i) PROVE NoLateWord'
  <2>1. ASSUME NEW q, ~Guarded(i) PROVE Plain({Request("SUBMIT", i, q)})
    BY <2>1 DEF Plain, Request, Guarded
  <2>2. ASSUME NEW q PROVE Plain({Request(IF Guarded(i) THEN "GUARDED" ELSE "SUBMIT", i, q)})
    BY <1>3, <2>1
  <2>3. UNCHANGED net
        \/ \E q : Send({Request(IF Guarded(i) THEN "GUARDED" ELSE "SUBMIT", i, q)})
    BY <1>7 DEF SubmitNative
  <2>4. Plain(net')
    BY <1>2, <1>5, <2>2, <2>3
  <2>5. UNCHANGED <<flatJob, outcomes>>
    BY <1>7 DEF SubmitNative
  <2> QED BY <1>6, <2>4, <2>5
<1>8. ASSUME NEW i \in Orders, CancelOrder(i) \/ ReplaceOrder(i) PROVE NoLateWord'
  <2>1. UNCHANGED <<flatJob, outcomes>>
        /\ \/ \E ids : Send(Cancels(ids))
           \/ Send({})
           \/ \E q : Send({Request("REPLACE", i, q)})
    BY <1>8 DEF CancelOrder, ReplaceOrder
  <2> QED BY <1>1, <1>2, <1>3, <1>4, <1>6, <2>1
<1>9. CASE \E i \in Orders : SubmitHeld(i) \/ ReplaceHeld(i) \/ ResumeHeld(i)
  BY <1>5, <1>6, <1>9 DEF SubmitHeld, ReplaceHeld, ResumeHeld, venueVars
<1>10. CASE AccountCommand
  <2>1. UNCHANGED <<flatJob, outcomes>> /\ (UNCHANGED net \/ \E ids : Send(Cancels(ids)))
    BY <1>10 DEF AccountCommand, Arm, DisarmMaster, AutoDisarm, KillSwitch, Flatten, venueVars
  <2> QED BY <1>1, <1>2, <1>5, <1>6, <2>1
<1>11. CASE StreamEvent
  <2>1. UNCHANGED <<flatJob, outcomes>> /\ (UNCHANGED net \/ \E ids : Send(Cancels(ids)))
    BY <1>11 DEF StreamEvent, OnLives, FoldLives, OnPosition, OnPositions, OnOpenOrders,
       OnStreamBreak
  <2> QED BY <1>1, <1>2, <1>5, <1>6, <2>1
<1>12. CASE JobResult
  <2>1. PICK x \in outcomes : OnOutcome(x)
    BY <1>12 DEF JobResult, OnSnapshot
  <2>2. UNCHANGED flatJob /\ outcomes' \subseteq outcomes
        /\ (Send({}) \/ \E ids : Send(Cancels(ids)))
    BY <2>1 DEF OnOutcome
  <2>3. Plain(net')
    BY <1>1, <1>2, <1>4, <2>2
  <2> QED BY <2>2, <2>3 DEF Plain
<1>13. CASE HeldStep
  <2>1. UNCHANGED <<flatJob, outcomes>> /\ (UNCHANGED net \/ \E ids : Send(Cancels(ids)))
    BY <1>13 DEF HeldStep, EligiblePrint, PrintGap, ExpireHeldOrders, Tick, venueVars
  <2> QED BY <1>1, <1>2, <1>5, <1>6, <2>1
<1>14. ASSUME NEW j \in Orders, EvaluateHeld(j) PROVE NoLateWord'
  <2>1. UNCHANGED <<flatJob, outcomes>>
        /\ (UNCHANGED net \/ \E q : Send({Request("CHILD", j, q)}))
    BY <1>14 DEF EvaluateHeld
  <2> QED BY <1>2, <1>3, <1>5, <1>6, <2>1
<1>15. CASE Process
  <2>1. IdleJob.st = "idle"
    BY DEF IdleJob
  <2>2. CASE Crash \/ ShutdownEngine
    <3>1. PICK last : ProcessDies(last) /\ Plain(last)
      BY <1>1, <1>4, <2>2 DEF Crash, ShutdownEngine
    <3>2. \E sent \in SUBSET (net \cup last) : net' = {Dead(r) : r \in sent}
      BY <3>1 DEF ProcessDies
    <3>3. \A r : (r.kind = "SUBMIT" => r.id \notin Sells)
                  => (Dead(r).kind = "SUBMIT" => Dead(r).id \notin Sells)
      <4> SUFFICES ASSUME NEW r, Dead(r).kind = "SUBMIT", Dead(r).id \in Sells
                   PROVE  r.kind = "SUBMIT" /\ r.id \in Sells
        OBVIOUS
      <4> QED BY DEF Dead
    <3>4. Plain(net')
      BY <1>5, <3>1, <3>2, <3>3 DEF Plain
    <3> QED BY <2>1, <3>1, <3>4 DEF ProcessDies, Plain
  <2>3. CASE \E ok \in BOOLEAN : Recover(ok)
    <3>0. PICK ok \in BOOLEAN : Recover(ok)
      BY <2>3
    <3>a. PICK rows \in (IF ok THEN Readings ELSE {NoRows}) : RecoverWith(rows)
      BY <3>0, RecoverReads
    <3>b. NoNewSubmit
      BY <3>a, SendsNoSubmit DEF RecoverWith
    <3>1. UNCHANGED <<flatJob, outcomes>> /\ NoNewSubmit
      BY <3>0, <3>b DEF Recover
    <3>2. Plain(net')
      BY <1>5, <3>1 DEF NoNewSubmit, SubmitKinds, Plain
    <3> QED BY <1>6, <3>1, <3>2
  <2> QED BY <1>15, <2>2, <2>3 DEF Process
<1>16. ASSUME NEW r \in net \cup landed, Deliver(r) PROVE NoLateWord'
  <2>1. UNCHANGED flatJob /\ net' \subseteq net
    BY <1>16 DEF Deliver, SubmitLands, SubmitReturns, SubmitFails, ActionLands, ActionFails,
       RestOfVenue, Finish
  <2>2. \/ outcomes' = outcomes
        \/ \E ok : /\ r.kind # "SUBMIT" \/ (r \in net /\ "request" \in Upsets)
                   /\ Answered(r, ok)
    BY <1>0, <1>16 DEF Deliver, SubmitLands, SubmitReturns, SubmitFails, ActionLands, ActionFails,
       Unanswered, Upset
  <2>3. \A ok : Outcome(r, ok).kind = r.kind /\ Outcome(r, ok).id = r.id
    BY DEF Outcome
  <2>4. r \in net /\ r.kind = "SUBMIT" /\ "request" \in Upsets => r.id \notin Firm
    BY <1>16 DEF Firm
  <2> QED BY <2>1, <2>2, <2>3, <2>4 DEF Answered
<1>17. CASE BrokerNext \/ Drop \/ Connect \/ FlattenCloses \/ FlattenReads
  <2>1. UNCHANGED <<net, outcomes>> /\ (UNCHANGED flatJob \/ FlattenCloses \/ FlattenReads)
    BY <1>17 DEF BrokerNext, Fill, VenueExpires, CloseFills, Drop, Connect, FlattenCloses,
       FlattenReads
  <2> QED BY <2>1 DEF FlattenCloses, FlattenReads
<1> QED
  BY <1>7, <1>8, <1>9, <1>10, <1>11, <1>12, <1>13, <1>14, <1>15, <1>16, <1>17
  DEF Next, Outside, OrderCommand

\* Only the adapter writes what it tracks.
LEMMA CoreTracks ==
  ASSUME Next, ~Outside, ~Crash, ~ShutdownEngine
  PROVE  UNCHANGED tracked
<1>1. CASE OrderCommand \/ AccountCommand
  BY ZenonT(40), <1>1 DEF OrderCommand, SubmitNative, SubmitHeld, CancelOrder, ReplaceOrder, ReplaceHeld,
     ResumeHeld, AccountCommand, Arm, DisarmMaster, AutoDisarm, KillSwitch, Flatten, venueVars,
     adapterVars, outside
<1>2. CASE StreamEvent \/ JobResult
  BY <1>2 DEF StreamEvent, OnLives, OnPosition, OnPositions, OnOpenOrders, OnStreamBreak,
     JobResult, OnSnapshot, OnOutcome, adapterVars, outside
<1>3. CASE HeldStep \/ \E j \in Orders : EvaluateHeld(j)
  BY <1>3 DEF HeldStep, EligiblePrint, PrintGap, ExpireHeldOrders, Tick, EvaluateHeld, venueVars,
     adapterVars, outside
<1>4. CASE \E ok \in BOOLEAN : Recover(ok)
  BY <1>4 DEF Recover, adapterVars
<1> QED
  BY <1>1, <1>2, <1>3, <1>4 DEF Next, Process

\* An inbox with nothing in it.
LEMMA EmptyLaid ==
  ASSUME NEW i \in Orders, wire = <<>>, ~tracked[i], PlainRow(flatJob.rows[i])
  PROVE  Laid(i)
<1>1. Len(<<>>) = 0 /\ <<>> \in Seq(Inert(i)) /\ <<>> \in Seq(PlainMsgs(i))
  BY EmptySeq
<1> QED
  BY <1>1 DEF Laid, EndsLast

\* An order the core ends on its own was never POSTed; the others it ends as
\* the message it takes says, behind which nothing revives them.
LEMMA CoreLaid ==
  ASSUME TInv, NEW i \in Orders, i \notin misread', Laid(i), Next, ~Outside, IInv'
  PROVE  Laid(i)'
<1>0. LInv /\ wire \in Seq(Msgs) /\ posts[i] \in Nat
  BY LInvFacts DEF TInv, VenueTypeOK
<1>p. /\ wire \in Seq(PlainMsgs(i)) /\ PlainRow(flatJob.rows[i])
      /\ PlainRow(flatJob'.rows[i])
  BY <1>0, CoreJob DEF Laid
<1>q. wire # <<>> => PlainRow(Head(wire).rows[i]) /\ Tail(wire) \in Seq(PlainMsgs(i))
  BY <1>p, HeadTailProperties DEF PlainMsgs
<1>1. CASE Crash \/ ShutdownEngine
  <2>1. wire' = <<>> /\ ~tracked'[i]
    BY <1>1 DEF Crash, ShutdownEngine, ProcessDies
  <2>2. Len(<<>>) = 0 /\ <<>> \in Seq(Inert(i)) /\ <<>> \in Seq(PlainMsgs(i))
    BY EmptySeq
  <2> QED BY <1>p, <2>1, <2>2 DEF Laid, EndsLast, Inert, Revives, PlainMsgs, PlainRow, Listed
<1>2. CASE ~Crash /\ ~ShutdownEngine
  <2>1. UNCHANGED tracked
    BY <1>2, CoreTracks
  <2>2. wire' = wire \/ wire' = <<>> \/ (wire # <<>> /\ wire' = Tail(wire))
    BY <1>0, CoreInbox
  <2>3. Local(i) \/ Begins(i) \/ Sends(i)
    BY <1>0, NextMoves DEF Moves
  <2>4. ASSUME tracked'[i] PROVE posts'[i] # 0 /\ Afoot(i)'
    <3>1. posts[i] # 0 /\ Afoot(i)
      BY <2>1, <2>4 DEF Laid
    <3>2. Undone(i)' /\ wire' \in Seq(Unending(i)) /\ PlainRow(flatJob'.rows[i])
      BY <1>0, <3>1, AfootStays
    <3>3. posts'[i] # 0
      BY <2>3, <3>1 DEF Local, Begins, Sends
    <3> QED BY <3>2, <3>3 DEF Afoot, Undone, Unending, Ending, PlainRow, Listed
  <2>5. ASSUME ~Undone(i)' PROVE wire' \in Seq(Inert(i))
    <3>1. CASE ~Undone(i)
      <4>1. wire \in Seq(Inert(i))
        BY <3>1 DEF Laid
      <4> QED BY <2>2, <4>1, HeadTailProperties, EmptySeq
    <3>2. CASE posts'[i] = 0
      <4>1. wire' \in Seq(QuietMsgs(i))
        BY <3>2 DEF IInv, CustodyInv, Quiet, QuietMsgs
      <4> QED BY <4>1, InertMsgs, SeqRises
    <3>3. CASE Undone(i) /\ posts'[i] # 0
      <4>1. ~Sends(i)
        BY <1>0, <2>5, SentIsAfoot DEF Afoot, Undone
      <4>2. posts[i] # 0
        BY <2>3, <3>3, <4>1 DEF Local, Begins
      <4>3. wire # <<>> /\ wire' = Tail(wire) /\ Ending(Head(wire).lives[i])
        BY <1>0, <1>p, <1>q, <2>5, <3>3, <4>2, CoreUndone
      <4> QED BY <1>0, <4>3, EndsLastTake DEF Laid
    <3> QED BY <3>1, <3>2, <3>3
  <2>6. EndsLast(wire', i)
    <3>1. EndsLast(<<>>, i)
      BY EmptySeq DEF EndsLast
    <3> QED BY <1>0, <2>2, <3>1, EndsLastTake DEF Laid
  <2>7. wire' \in Seq(PlainMsgs(i))
    BY <1>p, <1>q, <2>2, EmptySeq
  <2> QED BY <1>p, <2>4, <2>5, <2>6, <2>7 DEF Laid, EndsLast, Revives, Inert, PlainMsgs, PlainRow, Listed
<1> QED
  BY <1>1, <1>2

LEMMA OutsideLaid ==
  ASSUME TInv, NEW i \in Orders, i \notin misread' \cup rewound', Laid(i), Outside, IInv', Truth'
  PROVE  Laid(i)'
<1>0. LInv /\ wire \in Seq(Msgs) /\ Alone(i) /\ (AtBroker(i) => Afoot(i))
  BY LInvFacts, MisreadGrows DEF TInv, Truth, VenueTypeOK, Next
<1>p. PlainRow(flatJob'.rows[i])
  BY OutsideJob DEF Laid
<1>1. ~Free(i) => Afoot(i)
  BY <1>0 DEF Free, Laid
<1>2. Heard(i)
  BY <1>0, <1>1 DEF Heard, Said, Laid, Afoot
<1>3. Kept(i)
  BY <1>0, <1>2, BrokerKept, DeliverKept, StreamKept DEF Outside, BrokerNext
<1>4. UNCHANGED <<orders, logged, posts>>
  BY DEF Outside, coreVars, bookVars
<1>5. ASSUME tracked'[i] PROVE posts'[i] # 0 /\ Afoot(i)'
  <2>1. CASE AtBroker(i)'
    <3>1. posts'[i] # 0
      BY <2>1 DEF IInv, CustodyInv, Quiet, AtBroker, OpenAt, NoVenueOrder
    <3> QED BY <2>1, <3>1 DEF Truth
  <2>2. CASE ~AtBroker(i)'
    <3>1. tracked[i] /\ (wire \in Seq(Unending(i)) => wire' \in Seq(Unending(i)))
      BY <1>3, <1>5, <2>2 DEF Kept
    <3>2. posts[i] # 0 /\ Afoot(i)
      BY <3>1 DEF Laid
    <3> QED BY <1>p, <1>4, <3>1, <3>2 DEF Afoot, Unending, Ending, PlainRow, Listed
  <2> QED BY <2>1, <2>2
<1>6. ASSUME ~Undone(i)' PROVE wire' \in Seq(Inert(i))
  <2>1. ~Undone(i)
    BY <1>4, <1>6 DEF Undone
  <2>2. Free(i) /\ wire \in Seq(Inert(i))
    BY <1>1, <2>1 DEF Laid, Afoot, Undone
  <2> QED BY <1>3, <2>2 DEF Kept, Said
<1>7. EndsLast(wire', i)
  BY <1>3 DEF Kept, Said
<1>8. wire' \in Seq(PlainMsgs(i))
  BY <1>3 DEF Kept, Said
<1> QED
  BY <1>p, <1>5, <1>6, <1>7, <1>8 DEF Laid, EndsLast, Revives, Inert, PlainMsgs, PlainRow, Listed

-----------------------------------------------------------------------------
(* The theorem *)

\* A tame change leaves the status of an order that is done.
LEMMA ApplyTame ==
  ASSUME NEW o \in Order, NEW c, Tame(c), o.status \in Done
  PROVE  Apply(o, c).status = o.status
<1> USE DEF Order
<1>1. FoldLife(o, c.life) \in Order
  BY FoldLifeType DEF Tame
<1>2. Apply(o, c).status = FoldLife(o, c.life).status
  BY <1>1 DEF Apply, Done
<1>3. ~Working(o)
  BY DEF Working, WorkingStatus, Done
<1>4. CASE c.life.ev = "NoEvent"
  BY <1>2, <1>4 DEF FoldLife
<1>5. CASE c.life.ev = "OrderCanceled"
  BY <1>2, <1>3, <1>5 DEF FoldLife, FoldCanceled, Ended
<1>6. CASE c.life.ev = "OrderExpired"
  BY <1>2, <1>3, <1>6 DEF FoldLife, FoldExpired, Ended
<1>7. CASE c.life.ev = "OrderReplaced"
  BY <1>2, <1>3, <1>7 DEF FoldLife, FoldReplaced
<1> QED
  BY <1>4, <1>5, <1>6, <1>7 DEF Tame, TameEvents

LEMMA TameStays ==
  ASSUME LInv, NEW i \in Orders, orders[i].status \in Done, NEW chg, AppendAndFold(chg),
         Tame(chg[i])
  PROVE  orders'[i].status = orders[i].status
<1>1. orders[i] \in Order /\ orders'[i] = Apply(orders[i], chg[i])
  BY LInvFacts DEF AppendAndFold
<1> QED
  BY <1>1, ApplyTame

LEMMA OnlyTameStays ==
  ASSUME LInv, NEW i \in Orders, orders[i].status \in Done, NEW j, NEW c,
         AppendAndFold(Only(j, c)), i = j => Tame(c)
  PROVE  orders'[i].status = orders[i].status
<1>1. Tame(Only(j, c)[i])
  BY HandlersTame DEF Only
<1> QED
  BY <1>1, TameStays

\* The commands, the prints and the timers: each is refused for an order that
\* is done, or changes it tamely.
LEMMA CommandsKeepDone ==
  ASSUME LInv, NEW i \in Orders, orders[i].status \in Done,
         OrderCommand \/ AccountCommand \/ HeldStep \/ \E j \in Orders : EvaluateHeld(j)
  PROVE  orders'[i].status = orders[i].status
<1>0. orders[i].status # "NONE" /\ ~Working(orders[i]) /\ BookTypeOK
  BY LInvFacts DEF Done, Working, WorkingStatus
<1>1. ASSUME NEW j \in Orders, SubmitNative(j) \/ SubmitHeld(j)
      PROVE  orders'[i].status = orders[i].status
  <2>1. j # i
    BY <1>0, <1>1 DEF SubmitNative, SubmitHeld
  <2>2. \E o : AppendSubmitted(j, o)
    BY <1>1 DEF SubmitNative, SubmitHeld
  <2> QED BY <1>0, <2>1, <2>2 DEF AppendSubmitted, BookTypeOK
<1>2. ASSUME NEW j \in Orders, CancelOrder(j) \/ ReplaceOrder(j)
      PROVE  orders'[i].status = orders[i].status
  <2>1. \E c : AppendAndFold(Only(j, c)) /\ Tame(c)
    BY <1>2, HandlersTame DEF CancelOrder, ReplaceOrder
  <2> QED BY <2>1, OnlyTameStays
<1>3. ASSUME NEW j \in Orders, ReplaceHeld(j)
      PROVE  orders'[i].status = orders[i].status
  <2>1. PICK q \in 1 .. MaxQty : AppendAndFold(Only(j, LifeChange(ReplaceEvent(q))))
    BY <1>3 DEF ReplaceHeld
  <2>2. q \in Qtys
    BY QtyAssumption DEF Qtys
  <2>3. ReplaceEvent(q) \in Life /\ ReplaceEvent(q).ev \in TameEvents
    BY <2>2, LifeTypes DEF ReplaceEvent, LifeEvent, TameEvents
  <2>4. Tame(LifeChange(ReplaceEvent(q)))
    BY <2>3, HandlersTame
  <2> QED BY <2>1, <2>4, OnlyTameStays
<1>4. ASSUME NEW j \in Orders, ResumeHeld(j)
      PROVE  orders'[i].status = orders[i].status
  <2>1. i # j /\ \E c : AppendAndFold(Only(j, c))
    BY <1>0, <1>4 DEF ResumeHeld
  <2> QED BY <2>1, OnlyTameStays
<1>5. CASE AccountCommand \/ HeldStep
  <2>1. Tame(Disarm(orders[i], FALSE))
    <3>1. FALSE \in BOOLEAN
      OBVIOUS
    <3> QED BY <3>1, HandlersTame, Zenon
  <2>2. CASE Arm \/ AutoDisarm \/ EligiblePrint \/ Tick
    BY <2>2 DEF Arm, AutoDisarm, EligiblePrint, Tick, bookVars
  <2>3. CASE DisarmMaster
    <3> DEFINE chg == [j \in Orders |-> Disarm(orders[j], FALSE)]
    <3>1. AppendAndFold(chg) /\ chg[i] = Disarm(orders[i], FALSE)
      BY <2>3 DEF DisarmMaster
    <3> HIDE DEF chg
    <3> QED BY <2>1, <3>1, TameStays
  <2>4. CASE KillSwitch \/ ExpireHeldOrders
    <3>1. \E chg : AppendAndFold(chg) /\ chg[i] \in {Kill(orders[i]), Expire(orders[i])}
      BY <2>4 DEF KillSwitch, ExpireHeldOrders
    <3> QED BY <3>1, HandlersTame, TameStays
  <2>5. CASE Flatten \/ PrintGap
    <3>1. \E chg : AppendAndFold(chg) /\ chg[i] \in {Pause(orders[i]), NoChange}
      BY <2>5 DEF Flatten, PrintGap
    <3> QED BY <3>1, HandlersTame, TameStays
  <2> QED BY <1>5, <2>2, <2>3, <2>4, <2>5 DEF AccountCommand, HeldStep
<1>6. ASSUME NEW j \in Orders, EvaluateHeld(j)
      PROVE  orders'[i].status = orders[i].status
  <2>1. \E c : AppendAndFold(Only(j, c)) /\ (i = j => c = NoChange)
    BY <1>0, <1>6 DEF EvaluateHeld, Live
  <2> QED BY <2>1, HandlersTame, OnlyTameStays
<1> QED
  BY <1>1, <1>2, <1>3, <1>4, <1>5, <1>6 DEF OrderCommand

\* The broker events and the results: the next one revives no order that is done.
LEMMA EventsKeepDone ==
  ASSUME TInv, Rest, NEW i \in Orders \ (misread \cup rewound), i \in Firm,
         orders[i].status \in Done, StreamEvent \/ JobResult
  PROVE  orders'[i].status = orders[i].status
<1>0. LInv /\ VenueTypeOK /\ orders[i] \in Order
  BY LInvFacts DEF TInv
<1>1. wire \in Seq(Inert(i))
  BY DEF Rest, Laid, Undone
<1>2. ASSUME wire # <<>> PROVE Head(wire) \in Inert(i)
  BY <1>1, <1>2, HeadTailProperties
<1>3. CASE OnLives
  <2>1. wire # <<>> /\ FoldLives(Head(wire).lives)
    BY <1>3 DEF OnLives, Receive
  <2>2. Head(wire).lives[i] \in Life /\ Head(wire).lives[i].ev \in TameEvents
    BY <1>2, <2>1 DEF Inert, Revives, Msgs, Life, LifeKinds, TameEvents
  <2>3. \E chg : AppendAndFold(chg) /\ chg[i] = OnLife(orders[i], Head(wire).lives[i])
    BY <2>1 DEF FoldLives
  <2> QED BY <1>0, <2>2, <2>3, HandlersTame, TameStays
<1>4. CASE OnPosition \/ OnPositions
  BY <1>4 DEF OnPosition, OnPositions, bookVars
<1>5. CASE OnOpenOrders
  <2> DEFINE rows == Head(wire).rows
  <2>1. wire # <<>> /\ Reconcile(rows, ConfirmListed(rows), TRUE)
    BY <1>5 DEF OnOpenOrders, Receive
  <2>2. ~Listed(rows[i])
    BY <1>2, <2>1 DEF Inert, Revives
  <2> HIDE DEF rows
  <2>3. Overlay(orders[i], rows[i]) = orders[i] /\ ConfirmListed(rows)[i] = NoChange
    BY <2>2 DEF Overlay, ConfirmListed
  <2>4. orders'[i] = Apply(orders[i], NoChange)
    BY <2>1, <2>3 DEF Reconcile
  <2> QED BY <1>0, <2>4, HandlersTame, ApplyTame
<1>6. ASSUME NEW k, OnStreamBreak(k) PROVE orders'[i].status = orders[i].status
  <2>1. \E chg : AppendAndFold(chg) /\ chg[i] = Pause(orders[i])
    BY <1>6 DEF OnStreamBreak
  <2> QED BY <1>0, <2>1, HandlersTame, TameStays
<1>7. ~OnSnapshot
  BY DEF OnSnapshot, Rest, NoLateWord
<1>8. ASSUME NEW x \in outcomes, OnOutcome(x) PROVE orders'[i].status = orders[i].status
  <2>1. AppendAndFold(Only(x.id, OnOutcomeChange(x)))
    BY <1>8 DEF OnOutcome
  <2>2. x.kind \in RequestKinds /\ (i = x.id => x.kind # "SUBMIT")
    BY <1>0 DEF VenueTypeOK, Outcomes, Rest, NoLateWord
  <2>3. Tame(OnSubmitOutcome(x)) /\ Tame(OnActionOutcome(x)) /\ Tame(OnActivationOutcome(x))
    BY HandlersTame DEF OnSubmitOutcome, OnActionOutcome, OnActivationOutcome
  <2>4. i = x.id => Tame(OnOutcomeChange(x))
    BY <2>2, <2>3 DEF OnOutcomeChange, RequestKinds, SubmitKinds
  <2> QED BY <1>0, <2>1, <2>4, OnlyTameStays
<1> QED
  BY <1>3, <1>4, <1>5, <1>6, <1>7, <1>8 DEF StreamEvent, JobResult

\* Rest holds in every state, with what it stands on.
LEMMA RestInvariant ==
  ASSUME "flatten" \notin Commands
  PROVE  Spec => [](TInv /\ Rest)
<1>1. Init => Rest /\ Truth
  <2> SUFFICES ASSUME Init PROVE Rest
    BY InitTruth
  <2>1. /\ wire = <<>> /\ tracked = [i \in Orders |-> FALSE] /\ outcomes = {}
        /\ net = {} /\ flatJob = IdleJob
    BY DEF Init, VenueInit
  <2>2. IdleJob.st = "idle" /\ \A i \in Orders : PlainRow(IdleJob.rows[i])
    BY DEF IdleJob, NoRows, NoRow, PlainRow
  <2> QED BY <2>1, <2>2, EmptyLaid DEF Rest, NoLateWord
<1>2. LInv /\ Truth /\ IInv' /\ [Next]_vars => Truth'
  BY NextTruth DEF TInv
<1>3. LInv /\ Truth /\ Rest /\ IInv' /\ Truth' /\ [Next]_vars => Rest'
  <2> SUFFICES ASSUME LInv, Truth, Rest, IInv', Truth', [Next]_vars PROVE Rest'
    OBVIOUS
  <2>1. CASE UNCHANGED vars
    BY ZenonT(40), <2>1 DEF vars, venueVars, brokerVars, adapterVars, coreVars, bookVars, Rest,
       NoLateWord, Laid, Afoot, Undone, Unending, Ending, Inert, Revives, EndsLast, PlainMsgs,
       PlainRow, Listed
  <2>2. CASE Next
    <3>1. NoLateWord'
      BY <2>2, NoLateWordStays DEF Rest
    <3>2. ASSUME NEW i \in Orders \ (misread' \cup rewound') PROVE Laid(i)'
      <4>1. Laid(i)
        BY MisreadGrows DEF Rest
      <4> QED BY <2>2, <4>1, CoreLaid, OutsideLaid DEF TInv
    <3> QED BY <3>1, <3>2 DEF Rest
  <2> QED BY <2>1, <2>2
<1>4. Spec => []LInv
  BY LifeInvariant
<1>5. LInv => IInv
  BY DEF LInv
<1>6. LInv /\ Truth => TInv
  BY DEF TInv
<1> QED
  BY <1>1, <1>2, <1>3, <1>4, <1>5, <1>6, PTL DEF Spec

\* No step of a running engine revives a firm order.
LEMMA FirmStays ==
  ASSUME TInv, Rest, [Next]_vars, NEW i \in Orders \ (misread \cup rewound), i \in Firm, up, up',
         orders[i].status \in Done
  PROVE  orders'[i].status = orders[i].status
<1>1. CASE UNCHANGED vars
  BY <1>1 DEF vars, coreVars, bookVars
<1>2. CASE OrderCommand \/ AccountCommand \/ HeldStep \/ \E j \in Orders : EvaluateHeld(j)
  BY <1>2, CommandsKeepDone DEF TInv
<1>3. CASE StreamEvent \/ JobResult
  BY <1>3, EventsKeepDone
<1>4. CASE Process
  BY <1>4 DEF Process, Crash, ShutdownEngine, MemoryLost, Recover
<1>5. CASE Outside
  BY <1>5 DEF Outside, coreVars, bookVars
<1> QED
  BY <1>1, <1>2, <1>3, <1>4, <1>5 DEF Next

\* A SELL the core calls filled, canceled or expired keeps that status while the
\* process runs (State.Apply, ReconcileOpenOrders), whatever answers are lost:
\* postSubmit only ever doubts the submit of a SELL.  Nobody may flatten, whose
\* snapshot is applied behind newer events.  Two things in the code do revive
\* an order, and are left out: a list that reads its status as done while it is
\* open (misread), and a SubmitOrder that returns after its end (rewound).
THEOREM DoneSellsStay ==
  ASSUME "flatten" \notin Commands
  PROVE  Spec => [][\A i \in Sells \ (misread \cup rewound) :
                       up /\ up' /\ orders[i].status \in Done
                         => orders'[i].status = orders[i].status]_vars
<1> DEFINE Keeps == \A i \in Sells \ (misread \cup rewound) :
                      up /\ up' /\ orders[i].status \in Done => orders'[i].status = orders[i].status
<1>1. \A i \in Sells : i \in Orders /\ i \in Firm
  BY IdsAssumption DEF Firm
<1>2. TInv /\ Rest /\ [Next]_vars => [Keeps]_vars
  BY <1>1, FirmStays
<1> QED
  BY <1>2, RestInvariant, PTL DEF Spec

\* So does every order, but the same two, as long as no answer to a submit is
\* lost, which postSubmit takes for a rejection of an order that is not guarded,
\* or every order is a SELL.
THEOREM DoneStays ==
  ASSUME "flatten" \notin Commands, "request" \notin Upsets \/ Orders \subseteq Sells
  PROVE  Spec => NeverRevived
<1> DEFINE Keeps == \A i \in Orders \ (misread \cup rewound) :
                      up /\ up' /\ orders[i].status \in Done => orders'[i].status = orders[i].status
<1>1. \A i \in Orders : i \in Firm
  BY DEF Firm
<1>2. TInv /\ Rest /\ [Next]_vars => [Keeps]_vars
  BY <1>1, FirmStays
<1>3. NeverRevived <=> [][Keeps]_vars
  BY DEF NeverRevived, Done
<1> QED
  BY <1>2, <1>3, RestInvariant, PTL DEF Spec
=============================================================================
