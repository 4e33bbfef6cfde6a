--------------------------- MODULE ExecCoreProofs ---------------------------
(***************************************************************************)
(* What the execution core keeps for every set of orders, every size and   *)
(* every bound: type correctness, and the custody of a submission.         *)
(***************************************************************************)
EXTENDS ExecProps, TLAPS, SequenceTheorems

-----------------------------------------------------------------------------
(* The folds and the handlers' changes stay in their domains. *)

\* The lifecycle event constructors build lifecycle events (events.go).
LEMMA LifeTypes ==
  /\ NoEvent \in Life
  /\ \A k \in LifeKinds : LifeEvent(k) \in Life
  /\ \A c, l \in Qtys : FillEvent(c, l) \in Life
  /\ \A q \in Qtys : ReplaceEvent(q) \in Life
<1>1. 0 \in Qtys
  BY QtyAssumption DEF Qtys
<1>2. \A k \in LifeKinds : LifeEvent(k) \in Life
  BY <1>1 DEF LifeEvent, Life
<1>3. NoEvent \in Life
  BY <1>2 DEF NoEvent, LifeKinds
<1>4. LifeEvent("OrderFilled") \in Life /\ LifeEvent("OrderReplaced") \in Life
  BY <1>2 DEF LifeKinds
<1>5. \A c, l \in Qtys : FillEvent(c, l) \in Life
  BY <1>4 DEF FillEvent, Life
<1>6. \A q \in Qtys : ReplaceEvent(q) \in Life
  BY <1>4 DEF ReplaceEvent, Life
<1> QED
  BY <1>2, <1>3, <1>5, <1>6

\* The fold of a lifecycle event (State.Apply) keeps an order in its domain.
LEMMA FoldLifeType ==
  ASSUME NEW o \in Order, NEW e \in Life
  PROVE  FoldLife(o, e) \in Order
<1> USE QtyAssumption DEF Order, Status, WorkingStatus, Action, ActionPhases
<1>1. /\ \A k \in ActionKinds : Confirm(o.action, k) \in Action
      /\ Fail(o.action) \in Action
  BY DEF Confirm, Fail, Pending
<1>2. CASE e.ev = "NoEvent"
  BY <1>2 DEF FoldLife
<1>3. CASE e.ev = "OrderAccepted"
  BY <1>1, <1>3 DEF FoldLife, FoldAccepted, ActionKinds
<1>4. CASE e.ev = "OrderRejected"
  BY <1>1, <1>4 DEF FoldLife, FoldRejected
<1>5. CASE e.ev = "OrderFilled"
  BY <1>1, <1>5 DEF FoldLife, FoldFilled, ActionKinds, Life
<1>6. CASE e.ev = "OrderCanceled"
  <2>1. Confirm(Confirm(o.action, "SUBMIT"), "CANCEL") \in Action
    BY DEF Confirm, Pending, ActionKinds
  <2> QED BY <1>6, <2>1 DEF FoldLife, FoldCanceled, Ended
<1>7. CASE e.ev = "OrderExpired"
  <2>1. Fail(Confirm(o.action, "SUBMIT")) \in Action
    BY DEF Confirm, Fail, Pending, ActionKinds
  <2> QED BY <1>7, <2>1 DEF FoldLife, FoldExpired, Ended
<1>8. CASE e.ev = "OrderReplaced"
  <2>1. Minus(e.qty, o.exec) \in Qtys
    BY DEF Minus, Life, Qtys
  <2> QED BY ZenonT(40), <1>1, <1>8, <2>1 DEF FoldLife, FoldReplaced, Life, ActionKinds, Working
<1> QED
  BY <1>2, <1>3, <1>4, <1>5, <1>6, <1>7, <1>8 DEF Life, LifeKinds

\* Folding what a handler persists (appendAndFold) keeps an order in its domain.
LEMMA ApplyType ==
  ASSUME NEW o \in Order, NEW c \in Change
  PROVE  Apply(o, c) \in Order
<1>1. FoldLife(o, c.life) \in Order
  BY FoldLifeType DEF Change
<1>2. SetAction(FoldLife(o, c.life).action, c.action) \in Action
  BY <1>1 DEF SetAction, Change, Order
<1>3. SetHeld(FoldLife(o, c.life).held, c.held) \in Held
  BY <1>1 DEF SetHeld, Change, Order
<1> QED
  BY <1>1, <1>2, <1>3 DEF Apply, Order

\* The empty values are in their domains.
LEMMA EmptyTypes ==
  /\ 0 \in Qtys /\ 0 \in 0 .. MaxClock
  /\ NoAction \in Action /\ KeepAction \in Action
  /\ NoHeld \in Held /\ KeepHeld \in Held
  /\ NoChange \in Change /\ NoOrder \in Order
<1>1. 0 \in Qtys /\ 0 \in 0 .. MaxClock
  BY QtyAssumption, ClockAssumption DEF Qtys
<1>2. NoAction \in Action
  BY <1>1 DEF NoAction, Action, ActionKinds, ActionPhases
<1>3. KeepAction \in Action
  BY <1>2 DEF KeepAction, Action, ActionKinds
<1>4. NoHeld \in Held
  BY <1>1 DEF NoHeld, Held, HeldPhases, Pretrigger
<1>5. KeepHeld \in Held
  BY <1>4 DEF KeepHeld, Held, HeldPhases
<1>6. NoChange \in Change
  BY <1>3, <1>5, LifeTypes DEF NoChange, Change
<1>7. NoOrder \in Order
  BY <1>1, <1>2, <1>4 DEF NoOrder, Order, Status
<1> QED
  BY <1>1, <1>2, <1>3, <1>4, <1>5, <1>6, <1>7

\* The change constructors build changes.
LEMMA ChangeTypes ==
  /\ \A e \in Life : LifeChange(e) \in Change
  /\ \A a \in Action : ActionChange(a) \in Change
  /\ \A h \in Held : HeldChange(h) \in Change
  /\ \A k \in ActionKinds, q \in Qtys : Requested(k, q) \in Action
BY EmptyTypes DEF LifeChange, ActionChange, HeldChange, Requested, Change, Action, ActionPhases

\* The custody changes of held_lifecycle.go are changes.
LEMMA HeldChangeTypes ==
  ASSUME NEW o \in Order
  PROVE  /\ \A p \in HeldPhases : HeldTo(o, p) \in Change
         /\ Pause(o) \in Change
         /\ AskCancel(o) \in Change
         /\ ConfirmSell(o) \in Change
<1>1. ASSUME NEW p \in HeldPhases PROVE HeldTo(o, p) \in Change
  <2>1. [o.held EXCEPT !.phase = p, !.cancelRequested = FALSE] \in Held
    BY DEF Order, Held
  <2> QED BY <2>1, ChangeTypes DEF HeldTo
<1>2. Pause(o) \in Change
  BY <1>1, EmptyTypes DEF Pause, HeldPhases, Pretrigger
<1>3. AskCancel(o) \in Change
  <2>1. [o.held EXCEPT !.phase = "CANCEL_REQUESTED", !.cancelRequested = TRUE,
                       !.cancelSent = @ \/ o.held.phase # "ACTIVATING"] \in Held
    BY DEF Order, Held, HeldPhases
  <2>2. Requested("CANCEL", 0) \in Action
    BY ChangeTypes, EmptyTypes DEF ActionKinds
  <2> QED BY <2>1, <2>2, EmptyTypes DEF AskCancel, Change
<1>4. ConfirmSell(o) \in Change
  <2>1. [o.action EXCEPT !.phase = "CONFIRMED"] \in Action
    BY DEF Order, Action, ActionPhases
  <2> QED BY <2>1, EmptyTypes, ChangeTypes DEF ConfirmSell
<1> QED
  BY <1>1, <1>2, <1>3, <1>4

\* What every command, timer and lifecycle event does to an order is a change.
LEMMA HandlerTypes ==
  ASSUME NEW o \in Order
  PROVE  /\ Cancel(o) \in Change
         /\ \A k \in BOOLEAN : Disarm(o, k) \in Change
         /\ Kill(o) \in Change
         /\ Expire(o) \in Change
         /\ Shutdown(o) \in Change
         /\ \A e \in Life : OnLife(o, e) \in Change
<1>1. /\ LifeChange(LifeEvent("OrderCanceled")) \in Change
      /\ LifeChange(LifeEvent("OrderExpired")) \in Change
      /\ ActionChange(Requested("CANCEL", 0)) \in Change
  BY LifeTypes, ChangeTypes, EmptyTypes DEF LifeKinds, ActionKinds
<1>2. HeldTo(o, "PAUSED") \in Change
  BY HeldChangeTypes DEF HeldPhases, Pretrigger
<1>3. Cancel(o) \in Change
  BY <1>1, EmptyTypes, HeldChangeTypes DEF Cancel
<1>4. \A k \in BOOLEAN : Disarm(o, k) \in Change
  BY <1>1, <1>2, EmptyTypes, HeldChangeTypes DEF Disarm
<1>5. Kill(o) \in Change
  BY <1>3, <1>4, EmptyTypes DEF Kill
<1>6. Expire(o) \in Change
  BY <1>1, EmptyTypes, HeldChangeTypes DEF Expire
<1>7. Shutdown(o) \in Change
  <2>1. [o.held EXCEPT !.phase = "CANCEL_REQUESTED",
                       !.cancelRequested = TRUE, !.cancelSent = TRUE] \in Held
    BY DEF Order, Held, HeldPhases
  <2>2. [NoChange EXCEPT
           !.action = Requested("CANCEL", 0),
           !.held = [o.held EXCEPT !.phase = "CANCEL_REQUESTED",
                                   !.cancelRequested = TRUE, !.cancelSent = TRUE]] \in Change
    BY <2>1, EmptyTypes, ChangeTypes DEF Change, ActionKinds
  <2> QED BY <1>2, <2>2, EmptyTypes, HeldChangeTypes DEF Shutdown
<1>8. ASSUME NEW e \in Life PROVE OnLife(o, e) \in Change
  <2>1. ChildAccepted(o) \in Held
    BY DEF ChildAccepted, Order, Held, HeldPhases
  <2>2. ConfirmSell(o).action \in Action
    BY HeldChangeTypes DEF Change
  <2> QED BY <2>1, <2>2, EmptyTypes DEF OnLife, Change
<1> QED
  BY <1>3, <1>4, <1>5, <1>6, <1>7, <1>8

\* A row gives a status (restOrderStatusDomain).
LEMMA RowStatus ==
  ASSUME NEW r \in Row
  PROVE  /\ ListedAs(r) \in Status /\ ListedAs(r) # "NONE"
         /\ r.as = "open" => ListedAs(r) \in WorkingStatus
<1>1. r.exec \in Nat /\ r.as \in OddStatus \cup {"open"}
  BY QtyAssumption DEF Row, Qtys
<1>2. r.exec = 0 \/ r.exec > 0
  BY <1>1
<1>3. CASE r.as = "open"
  BY <1>2, <1>3 DEF ListedAs, Status, WorkingStatus
<1>4. CASE r.as # "open"
  BY <1>1, <1>4 DEF ListedAs, OddStatus, Status, WorkingStatus
<1> QED
  BY <1>3, <1>4

\* A broker row overlaid on an order (ReconcileOpenOrders) gives an order.
LEMMA OverlayType ==
  ASSUME NEW o \in Order, NEW r \in Row
  PROVE  Overlay(o, r) \in Order
<1>1. Minus(r.qty, r.exec) \in Qtys
  BY QtyAssumption DEF Minus, Row, Qtys
<1>2. ListedAs(r) \in Status /\ r.qty \in Qtys /\ r.exec \in Qtys
  BY RowStatus DEF Row
<1> QED
  BY <1>1, <1>2 DEF Overlay, Order

\* and leaves its custody alone: a listed order takes the status and the sizes
\* of its row.
LEMMA OverlayFacts ==
  ASSUME NEW o \in Order, NEW r \in Row
  PROVE  /\ Overlay(o, r).held = o.held /\ Overlay(o, r).action = o.action
         /\ Listed(r) => /\ Overlay(o, r).status = ListedAs(r)
                         /\ Overlay(o, r).qty = r.qty /\ Overlay(o, r).exec = r.exec
                         /\ Overlay(o, r).leaves = Minus(r.qty, r.exec)
         /\ ~Listed(r) => Overlay(o, r) = o
BY DEF Overlay, Order

-----------------------------------------------------------------------------
(* Type correctness *)

\* The broker never executes more than it was asked for: without it the
\* quantities of a fill event would leave their domain.
VenueSound == \A i \in Orders : venue[i].exec <= venue[i].qty
TypeInv == TypeOK /\ VenueSound

BookTypeOK ==
  /\ orders \in [Orders -> Order]
  /\ logged \in [Orders -> Order]
  /\ actionLog \in [Orders -> Action]

\* What appendAndFold leaves of the book is in its domain.
LEMMA AppendType ==
  ASSUME BookTypeOK, NEW chg \in [Orders -> Change], AppendAndFold(chg)
  PROVE  BookTypeOK'
<1>1. ASSUME NEW i \in Orders PROVE Apply(orders[i], chg[i]) \in Order
  BY ApplyType DEF BookTypeOK
<1>2. ASSUME NEW i \in Orders PROVE Apply(logged[i], chg[i]) \in Order
  BY ApplyType DEF BookTypeOK
<1>3. ASSUME NEW i \in Orders PROVE chg[i].action \in Action
  BY DEF Change
<1> QED
  BY <1>1, <1>2, <1>3 DEF AppendAndFold, BookTypeOK

\* One handler's change of one order is a change for every order.
LEMMA OnlyType ==
  ASSUME NEW i \in Orders, NEW c \in Change
  PROVE  Only(i, c) \in [Orders -> Change]
BY EmptyTypes DEF Only

\* A broker list overlaid on the book leaves it in its domain.
LEMMA ReconcileType ==
  ASSUME BookTypeOK, NEW rows \in [Orders -> Row], NEW chg \in [Orders -> Change],
         NEW adopt \in BOOLEAN, Reconcile(rows, chg, adopt)
  PROVE  BookTypeOK'
<1>1. ASSUME NEW i \in Orders PROVE Apply(Overlay(orders[i], rows[i]), chg[i]) \in Order
  BY ApplyType, OverlayType DEF BookTypeOK
<1>2. ASSUME NEW i \in Orders
      PROVE  Apply(IF adopt /\ logged[i].status = "NONE" THEN Overlay(logged[i], rows[i])
                                                         ELSE logged[i], chg[i]) \in Order
  BY ApplyType, OverlayType DEF BookTypeOK
<1>3. ASSUME NEW i \in Orders PROVE chg[i].action \in Action
  BY DEF Change
<1> QED
  BY <1>1, <1>2, <1>3 DEF Reconcile, BookTypeOK

\* The initial state is well typed.
LEMMA InitType == Init => TypeInv
<1> SUFFICES ASSUME Init PROVE TypeInv
  OBVIOUS
<1>1. NoVenueOrder \in VenueOrder
  BY EmptyTypes DEF NoVenueOrder, VenueOrder, VenueStates
<1>2. IdleJob \in FlatJobs
  <2>1. NoRow \in Row
    BY EmptyTypes DEF NoRow, Row
  <2>2. NoRows \in [Orders -> Row]
    BY <2>1 DEF NoRows
  <2> QED BY <2>2 DEF IdleJob, FlatJobs, JobStates
<1>3. VenueTypeOK
  <2>0. VenueInit
    BY DEF Init
  <2>1. shares \in Int /\ closing \in BOOLEAN /\ upsets \in 0 .. MaxUpsets
    <3>1. 0 \in 0 .. MaxUpsets
      BY UpsetAssumption
    <3> QED BY <2>0, <3>1, OpeningAssumption DEF VenueInit
  <2>2. venue \in [Orders -> VenueOrder] /\ flatJob \in FlatJobs
    BY <1>1, <1>2, <2>0 DEF VenueInit
  <2>3. net \subseteq Requests /\ outcomes \subseteq Outcomes /\ wire \in Seq(Msgs)
    BY <2>0, EmptySeq DEF VenueInit
  <2>4. /\ online \in BOOLEAN /\ connected \in BOOLEAN
        /\ tracked \in [Orders -> BOOLEAN] /\ counted \in [Orders -> BOOLEAN]
        /\ seenQty \in [Orders -> Qtys] /\ landed \subseteq Requests
        /\ misread \subseteq Orders /\ rewound \subseteq Orders
    BY <2>0, EmptyTypes DEF VenueInit
  <2> QED BY <2>1, <2>2, <2>3, <2>4 DEF VenueTypeOK
<1>4. CoreTypeOK
  BY EmptyTypes DEF Init, CoreTypeOK, NoPrint, Prints
<1>5. VenueSound
  <2>1. VenueInit
    BY DEF Init
  <2>2. ASSUME NEW i \in Orders PROVE venue[i].exec <= venue[i].qty
    BY <2>1 DEF VenueInit, NoVenueOrder
  <2> QED BY <2>2 DEF VenueSound
<1> QED
  BY <1>3, <1>4, <1>5 DEF TypeInv, TypeOK

\* The stream events the adapter builds are stream events.
LEMMA MsgTypes ==
  /\ \A k \in MsgKinds : Msg(k) \in Msgs
  /\ \A ls \in [Orders -> Life] : LivesMsg(ls) \in Msgs
  /\ \A i \in Orders, e \in Life : LifeMsg(i, e) \in Msgs
  /\ \A q \in Int : PositionMsg(q) \in Msgs
<1>1. NoLives \in [Orders -> Life]
  BY LifeTypes DEF NoLives
<1>2. NoRows \in [Orders -> Row]
  <2>1. NoRow \in Row
    BY EmptyTypes DEF NoRow, Row
  <2> QED BY <2>1 DEF NoRows
<1>3. ASSUME NEW k \in MsgKinds PROVE Msg(k) \in Msgs
  BY <1>1, <1>2 DEF Msg, Msgs
<1>4. ASSUME NEW ls \in [Orders -> Life] PROVE LivesMsg(ls) \in Msgs
  <2>1. Msg("Lives") \in Msgs
    BY <1>3 DEF MsgKinds
  <2> QED BY <2>1 DEF LivesMsg, Msgs
<1>5. ASSUME NEW i \in Orders, NEW e \in Life PROVE LifeMsg(i, e) \in Msgs
  <2>1. [NoLives EXCEPT ![i] = e] \in [Orders -> Life]
    BY <1>1
  <2> QED BY <1>4, <2>1 DEF LifeMsg
<1>6. ASSUME NEW q \in Int PROVE PositionMsg(q) \in Msgs
  <2>1. Msg("BrokerPosition") \in Msgs
    BY <1>3 DEF MsgKinds
  <2> QED BY <2>1 DEF PositionMsg, Msgs
<1> QED
  BY <1>3, <1>4, <1>5, <1>6

\* A broker list (Snapshot) is a list of rows.
LEMMA RowsType ==
  ASSUME VenueTypeOK
  PROVE  Readings \subseteq [Orders -> Row] /\ NoRows \in [Orders -> Row]
<1>1. NoRow \in Row
  BY EmptyTypes DEF NoRow, Row
<1>2. ASSUME NEW as \in [Orders -> {"open"} \cup Oddly], NEW i \in Orders
      PROVE  [qty |-> venue[i].qty, exec |-> venue[i].exec, as |-> as[i]] \in Row
  BY OddAssumption DEF VenueTypeOK, VenueOrder, Row
<1>3. ASSUME NEW as \in [Orders -> {"open"} \cup Oddly] PROVE RowsAs(as) \in [Orders -> Row]
  BY <1>1, <1>2 DEF RowsAs
<1> QED
  BY <1>1, <1>3 DEF Readings, NoRows

\* A list names the open orders with the broker's sizes.
LEMMA ReadingsTell ==
  ASSUME NEW rows \in Readings, NEW i \in Orders
  PROVE  /\ OpenAt(i) => rows[i].qty = venue[i].qty /\ rows[i].exec = venue[i].exec
         /\ ~OpenAt(i) => rows[i] = NoRow
<1>1. PICK as \in [Orders -> {"open"} \cup Oddly] : rows = RowsAs(as)
  BY DEF Readings
<1> QED
  BY <1>1 DEF RowsAs

\* A frame of the stream (handleUpdate) leaves the adapter well typed.
LEMMA FrameType ==
  ASSUME VenueTypeOK, NEW i \in Orders, NEW v \in VenueOrder, NEW msgs \in Seq(Msgs),
         Frame(i, v, msgs)
  PROVE  /\ wire' \in Seq(Msgs)
         /\ tracked' \in [Orders -> BOOLEAN]
         /\ counted' \in [Orders -> BOOLEAN]
         /\ seenQty' \in [Orders -> Qtys]
<1>1. wire' \in Seq(Msgs)
  <2>1. wire \o msgs \in Seq(Msgs)
    BY ConcatProperties DEF VenueTypeOK
  <2> QED BY <2>1 DEF Frame, VenueTypeOK
<1>2. tracked' \in [Orders -> BOOLEAN] /\ counted' \in [Orders -> BOOLEAN]
  BY DEF Frame, VenueTypeOK
<1>3. seenQty' \in [Orders -> Qtys]
  BY DEF Frame, VenueTypeOK, VenueOrder
<1> QED
  BY <1>1, <1>2, <1>3

\* A fill at the broker.
LEMMA FillType ==
  ASSUME TypeInv, NEW i \in Orders, Fill(i)
  PROVE  VenueTypeOK' /\ VenueSound'
<1> DEFINE v == [venue[i] EXCEPT
                   !.exec = @ + 1,
                   !.st = IF venue[i].exec + 1 = venue[i].qty THEN "filled" ELSE "open"]
           s == IF i \in Sells THEN shares - 1 ELSE shares + 1
<1> USE DEF TypeInv, TypeOK
<1>1. venue[i] \in VenueOrder /\ venue[i].exec < venue[i].qty /\ shares \in Int
  BY DEF Fill, VenueTypeOK
<1>2. v \in VenueOrder /\ v.exec \in Qtys /\ v.qty - v.exec \in Qtys /\ v.exec <= v.qty
  <2>1. venue[i].qty \in Nat /\ venue[i].exec \in Nat /\ venue[i].qty <= MaxQty
    BY <1>1, QtyAssumption DEF VenueOrder, Qtys
  <2>2. v.exec = venue[i].exec + 1 /\ v.qty = venue[i].qty /\ v.st \in VenueStates
    BY <1>1 DEF VenueOrder, VenueStates
  <2>3. v.exec \in Qtys /\ v.qty - v.exec \in Qtys /\ v.exec <= v.qty
    BY <1>1, <2>1, <2>2, QtyAssumption DEF Qtys
  <2>4. v \in VenueOrder
    BY <1>1, <2>2, <2>3 DEF VenueOrder
  <2> QED BY <2>3, <2>4
<1>3. s \in Int
  BY <1>1
<1>4. <<LifeMsg(i, FillEvent(v.exec, v.qty - v.exec)), PositionMsg(s)>> \in Seq(Msgs)
  BY <1>2, <1>3, MsgTypes, LifeTypes
<1>5. Frame(i, v, <<LifeMsg(i, FillEvent(v.exec, v.qty - v.exec)), PositionMsg(s)>>)
  BY DEF Fill
<1>6. /\ wire' \in Seq(Msgs)
      /\ tracked' \in [Orders -> BOOLEAN]
      /\ counted' \in [Orders -> BOOLEAN]
      /\ seenQty' \in [Orders -> Qtys]
  BY <1>2, <1>4, <1>5, FrameType
<1>7. venue' = [venue EXCEPT ![i] = v] /\ shares' = s
  BY DEF Fill
<1>8. venue' \in [Orders -> VenueOrder] /\ shares' \in Int
  BY <1>2, <1>3, <1>7 DEF VenueTypeOK
<1>9. VenueSound'
  BY <1>2, <1>7 DEF VenueSound, VenueTypeOK
<1>10. /\ UNCHANGED <<closing, net, landed, outcomes, flatJob, online, connected, upsets>>
       /\ NoneMisread
  BY DEF Fill
<1> QED
  BY <1>6, <1>8, <1>9, <1>10 DEF VenueTypeOK, NoneMisread

\* An order the broker ends on its own, and the close-all of a Flatten.
LEMMA BrokerType ==
  ASSUME TypeInv, BrokerNext
  PROVE  VenueTypeOK' /\ VenueSound'
<1> USE DEF TypeInv, TypeOK
<1>1. CASE \E i \in Orders : Fill(i)
  BY <1>1, FillType
<1>2. ASSUME NEW i \in Orders, VenueExpires(i) PROVE VenueTypeOK' /\ VenueSound'
  <2> DEFINE v == [venue[i] EXCEPT !.st = "expired"]
  <2>1. v \in VenueOrder /\ v.exec = venue[i].exec /\ v.qty = venue[i].qty
    BY DEF VenueTypeOK, VenueOrder, VenueStates
  <2>2. <<LifeMsg(i, LifeEvent("OrderExpired"))>> \in Seq(Msgs)
    BY MsgTypes, LifeTypes DEF LifeKinds
  <2>3. /\ venue' = [venue EXCEPT ![i] = v]
        /\ Frame(i, v, <<LifeMsg(i, LifeEvent("OrderExpired"))>>)
        /\ Upset("expire")
        /\ UNCHANGED <<shares, closing, net, landed, outcomes, flatJob, online, connected>>
        /\ NoneMisread
    BY <1>2 DEF VenueExpires
  <2>4. /\ wire' \in Seq(Msgs)
        /\ tracked' \in [Orders -> BOOLEAN]
        /\ counted' \in [Orders -> BOOLEAN]
        /\ seenQty' \in [Orders -> Qtys]
    BY <2>1, <2>2, <2>3, FrameType
  <2>5. venue' \in [Orders -> VenueOrder] /\ VenueSound'
    BY <2>1, <2>3 DEF VenueTypeOK, VenueSound
  <2>6. upsets' \in 0 .. MaxUpsets
    BY <2>3, UpsetAssumption DEF Upset, VenueTypeOK
  <2> QED BY <2>3, <2>4, <2>5, <2>6 DEF VenueTypeOK, NoneMisread
<1>3. CASE CloseFills
  <2>1. Append(wire, PositionMsg(0)) \in Seq(Msgs)
    BY MsgTypes, AppendProperties DEF VenueTypeOK
  <2>2. wire' \in Seq(Msgs)
    BY <1>3, <2>1 DEF CloseFills, VenueTypeOK
  <2>3. shares' \in Int
    BY <1>3 DEF CloseFills
  <2>4. closing' \in BOOLEAN
    BY <1>3 DEF CloseFills
  <2>5. UNCHANGED <<venue, net, outcomes, flatJob, adapterVars, upsets>> /\ NoneMisread
    BY <1>3 DEF CloseFills
  <2> QED BY <2>2, <2>3, <2>4, <2>5 DEF VenueTypeOK, VenueSound, adapterVars, NoneMisread
<1> QED
  BY <1>1, <1>2, <1>3 DEF BrokerNext

\* One more failure stays within MaxUpsets.
LEMMA UpsetType ==
  ASSUME VenueTypeOK, NEW k, Upset(k)
  PROVE  upsets' \in 0 .. MaxUpsets
BY UpsetAssumption DEF Upset, VenueTypeOK

\* The effect and the answer of a request.
LEMMA DeliverType ==
  ASSUME TypeInv, NEW r \in net \cup landed, Deliver(r)
  PROVE  VenueTypeOK' /\ VenueSound'
<1> USE DEF TypeInv, TypeOK
<1>1. r \in Requests /\ r.id \in Orders /\ r.qty \in Qtys
  BY DEF VenueTypeOK, Requests
<1>2. \A ok \in BOOLEAN : Answered(r, ok) => outcomes' \subseteq Outcomes
  BY <1>1 DEF Answered, VenueTypeOK, Outcome, Outcomes, Requests
<1>3. Finish(r) => net' \subseteq Requests
  BY DEF Finish, VenueTypeOK
<1>4. 0 <= r.qty /\ 0 \in Qtys
  BY <1>1, QtyAssumption DEF Qtys
<1>5. CASE SubmitLands(r)
  <2>1. Landed(r) \in VenueOrder /\ Landed(r).exec <= Landed(r).qty
    BY <1>1, <1>4 DEF Landed, VenueOrder, VenueStates
  <2>2. venue' \in [Orders -> VenueOrder] /\ VenueSound'
    BY <1>1, <1>5, <2>1 DEF SubmitLands, VenueTypeOK, VenueSound
  <2>3. Append(wire, LifeMsg(r.id, LifeEvent("OrderAccepted"))) \in Seq(Msgs)
    BY <1>1, MsgTypes, LifeTypes, AppendProperties DEF VenueTypeOK, LifeKinds
  <2>4. wire' \in Seq(Msgs)
    BY <1>5, <2>3 DEF SubmitLands, VenueTypeOK
  <2>5. tracked' \in [Orders -> BOOLEAN]
    BY <1>1, <1>5 DEF SubmitLands, VenueTypeOK, Requests
  <2>6. upsets' \in 0 .. MaxUpsets
    BY <1>5, UpsetType DEF SubmitLands, VenueTypeOK
  <2>7. outcomes' \subseteq Outcomes
    BY <1>2, <1>5 DEF SubmitLands, Unanswered, VenueTypeOK
  <2>8. net' \subseteq Requests
    BY <1>3, <1>5 DEF SubmitLands
  <2>9. landed' \subseteq Requests
    BY <1>1, <1>5 DEF SubmitLands, VenueTypeOK
  <2>10. UNCHANGED <<counted, seenQty, rewound>> /\ RestOfVenue
    BY <1>5 DEF SubmitLands
  <2> QED
    BY <2>2, <2>4, <2>5, <2>6, <2>7, <2>8, <2>9, <2>10 DEF RestOfVenue, VenueTypeOK
<1>9. CASE SubmitReturns(r)
  <2>1. landed' \subseteq Requests
    BY <1>9 DEF SubmitReturns, VenueTypeOK
  <2>2. /\ tracked' \in [Orders -> BOOLEAN] /\ counted' \in [Orders -> BOOLEAN]
        /\ seenQty' \in [Orders -> Qtys]
    BY <1>1, <1>4, <1>9 DEF SubmitReturns, VenueTypeOK
  <2>3. rewound' \subseteq Orders
    BY <1>1, <1>9 DEF SubmitReturns, VenueTypeOK
  <2>4. outcomes' \subseteq Outcomes
    BY <1>2, <1>9 DEF SubmitReturns, Unanswered, VenueTypeOK
  <2>5. UNCHANGED <<venue, net, wire, upsets>> /\ RestOfVenue
    BY <1>9 DEF SubmitReturns
  <2> QED BY <2>1, <2>2, <2>3, <2>4, <2>5 DEF RestOfVenue, VenueTypeOK, VenueSound
<1>6. CASE SubmitFails(r)
  <2>1. Append(wire, LifeMsg(r.id, LifeEvent("OrderRejected"))) \in Seq(Msgs)
    BY <1>1, MsgTypes, LifeTypes, AppendProperties DEF VenueTypeOK, LifeKinds
  <2>2. wire' \in Seq(Msgs)
    BY <1>6, <2>1 DEF SubmitFails, VenueTypeOK
  <2>3. upsets' \in 0 .. MaxUpsets
    BY <1>6, UpsetType DEF SubmitFails
  <2>4. outcomes' \subseteq Outcomes
    BY <1>2, <1>6 DEF SubmitFails, Unanswered, VenueTypeOK
  <2>5. net' \subseteq Requests
    BY <1>3, <1>6 DEF SubmitFails
  <2> QED
    BY <1>6, <2>2, <2>3, <2>4, <2>5 DEF SubmitFails, RestOfVenue, VenueTypeOK, VenueSound
<1>7. CASE ActionLands(r)
  <2> DEFINE v == IF r.kind = "CANCEL" THEN [venue[r.id] EXCEPT !.st = "canceled"]
                                       ELSE [venue[r.id] EXCEPT !.qty = r.qty]
             e == IF r.kind = "CANCEL" THEN LifeEvent("OrderCanceled") ELSE ReplaceEvent(r.qty)
  <2>1. /\ venue' = [venue EXCEPT ![r.id] = v]
        /\ Frame(r.id, v, <<LifeMsg(r.id, e)>>)
        /\ r.kind # "CANCEL" => r.qty > venue[r.id].exec
    BY <1>7 DEF ActionLands, CanDo
  <2>2. venue[r.id] \in VenueOrder /\ venue[r.id].exec <= venue[r.id].qty
    BY <1>1 DEF VenueTypeOK, VenueSound
  <2>3. v \in VenueOrder
    BY <1>1, <2>2 DEF VenueOrder, VenueStates
  <2>4. v.exec <= v.qty
    BY <1>1, <2>1, <2>2, QtyAssumption DEF VenueOrder, Qtys
  <2>5. e \in Life
    BY <1>1, LifeTypes DEF LifeKinds
  <2>6. <<LifeMsg(r.id, e)>> \in Seq(Msgs)
    BY <1>1, <2>5, MsgTypes
  <2>7. /\ wire' \in Seq(Msgs)
        /\ tracked' \in [Orders -> BOOLEAN]
        /\ counted' \in [Orders -> BOOLEAN]
        /\ seenQty' \in [Orders -> Qtys]
    BY <1>1, <2>1, <2>3, <2>6, FrameType
  <2>8. venue' \in [Orders -> VenueOrder] /\ VenueSound'
    BY <1>1, <2>1, <2>3, <2>4 DEF VenueTypeOK, VenueSound
  <2>9. outcomes' \subseteq Outcomes /\ upsets' \in 0 .. MaxUpsets /\ net' \subseteq Requests
    BY <1>2, <1>3, <1>7, UpsetType DEF ActionLands, Unanswered, VenueTypeOK
  <2> QED
    BY <1>7, <2>7, <2>8, <2>9 DEF ActionLands, RestOfVenue, VenueTypeOK
<1>8. CASE ActionFails(r)
  <2>1. outcomes' \subseteq Outcomes /\ net' \subseteq Requests
    BY <1>2, <1>3, <1>8 DEF ActionFails
  <2>2. upsets' \in 0 .. MaxUpsets
    BY <1>8, UpsetType DEF ActionFails, VenueTypeOK
  <2> QED
    BY <1>8, <2>1, <2>2 DEF ActionFails, NoFrame, RestOfVenue, VenueTypeOK, VenueSound
<1> QED
  BY <1>5, <1>6, <1>7, <1>8, <1>9 DEF Deliver

\* The goroutine of a Flatten, the stream and a dying process.
LEMMA StreamType ==
  ASSUME TypeInv, FlattenCloses \/ FlattenReads \/ Drop \/ Connect
  PROVE  VenueTypeOK' /\ VenueSound'
<1> USE DEF TypeInv, TypeOK
<1>1. CASE FlattenCloses
  <2>1. flatJob' \in FlatJobs
    BY <1>1 DEF FlattenCloses, VenueTypeOK, FlatJobs, JobStates
  <2>2. closing' \in BOOLEAN
    BY <1>1 DEF FlattenCloses, VenueTypeOK
  <2>3. upsets' \in 0 .. MaxUpsets
    BY <1>1, UpsetType DEF FlattenCloses, VenueTypeOK
  <2>4. UNCHANGED <<venue, shares, net, outcomes, wire, adapterVars>> /\ NoneMisread
    BY <1>1 DEF FlattenCloses
  <2> QED BY <2>1, <2>2, <2>3, <2>4 DEF VenueTypeOK, VenueSound, adapterVars, NoneMisread
<1>2. CASE FlattenReads
  <2>1. \A rows \in Readings : [st |-> "done", rows |-> rows, qty |-> shares] \in FlatJobs
    BY RowsType DEF VenueTypeOK, FlatJobs, JobStates
  <2>2. IdleJob \in FlatJobs
    BY RowsType DEF IdleJob, FlatJobs, JobStates
  <2>3. flatJob' \in FlatJobs
    BY <1>2, <2>1, <2>2 DEF FlattenReads
  <2>4. upsets' \in 0 .. MaxUpsets /\ misread' \subseteq Orders /\ rewound' = rewound
    BY <1>2, UpsetType DEF FlattenReads, VenueTypeOK, Read, OddIn, NoneMisread
  <2>5. UNCHANGED <<venue, shares, closing, net, outcomes, wire, adapterVars>>
    BY <1>2 DEF FlattenReads
  <2> QED BY <2>3, <2>4, <2>5 DEF VenueTypeOK, VenueSound, adapterVars
<1>3. CASE Drop
  <2>1. Append(wire, Msg("BrokerConnDown")) \in Seq(Msgs)
    BY MsgTypes, AppendProperties DEF VenueTypeOK, MsgKinds
  <2>2. upsets' \in 0 .. MaxUpsets
    BY <1>3, UpsetType DEF Drop
  <2>3. online' \in BOOLEAN
    BY <1>3 DEF Drop
  <2>4. wire' \in Seq(Msgs)
    BY <1>3, <2>1 DEF Drop
  <2>5. /\ UNCHANGED <<venue, shares, closing, net, landed, outcomes, flatJob, connected, tracked,
                      counted, seenQty>>
        /\ NoneMisread
    BY <1>3 DEF Drop
  <2> QED BY <2>2, <2>3, <2>4, <2>5 DEF VenueTypeOK, VenueSound, NoneMisread
<1>4. CASE Connect
  <2>1. Append(wire, Msg("BrokerConnUp")) \in Seq(Msgs)
    BY MsgTypes, AppendProperties DEF VenueTypeOK, MsgKinds
  <2>2. MissedFills \in [Orders -> Life]
    <3>1. ASSUME NEW i \in Orders
          PROVE  FillEvent(venue[i].exec, Minus(venue[i].qty, venue[i].exec)) \in Life
      <4>1. venue[i].exec \in Qtys /\ venue[i].qty \in Qtys
        BY DEF VenueTypeOK, VenueOrder
      <4>2. Minus(venue[i].qty, venue[i].exec) \in Qtys
        BY <4>1, QtyAssumption DEF Minus, Qtys
      <4> QED BY <4>1, <4>2, LifeTypes
    <3> QED BY <3>1, LifeTypes DEF MissedFills
  <2>3. MissedEnds \in [Orders -> Life]
    <3>1. LifeEvent("OrderCanceled") \in Life /\ LifeEvent("OrderExpired") \in Life
      BY LifeTypes DEF LifeKinds
    <3> QED BY <3>1, LifeTypes DEF MissedEnds
  <2>4. <<Msg("StreamGap"), LivesMsg(MissedFills), LivesMsg(MissedEnds)>> \in Seq(Msgs)
    BY <2>2, <2>3, MsgTypes DEF MsgKinds
  <2>5. [Msg("BrokerPositions") EXCEPT !.qty = shares] \in Msgs
    <3>1. Msg("BrokerPositions") \in Msgs
      BY MsgTypes DEF MsgKinds
    <3> QED BY <3>1 DEF Msgs, VenueTypeOK
  <2>6. ASSUME NEW rows \in Readings
        PROVE  Append(wire, Msg("BrokerConnUp")) \o ReconcileMsgs(rows) \in Seq(Msgs)
    <3>1. [Msg("BrokerOpenOrders") EXCEPT !.rows = rows] \in Msgs
      <4>1. Msg("BrokerOpenOrders") \in Msgs /\ rows \in [Orders -> Row]
        BY MsgTypes, RowsType DEF MsgKinds
      <4> QED BY <4>1 DEF Msgs
    <3>2. <<[Msg("BrokerPositions") EXCEPT !.qty = shares],
            [Msg("BrokerOpenOrders") EXCEPT !.rows = rows]>> \in Seq(Msgs)
      BY <2>5, <3>1
    <3>3. <<>> \in Seq(Msgs)
      BY EmptySeq
    <3>4. ReconcileMsgs(rows) \in Seq(Msgs)
      BY <2>4, <3>2, <3>3, ConcatProperties DEF ReconcileMsgs
    <3> QED BY <2>1, <3>4, ConcatProperties
  <2>7. CASE ReconcileSucceeds
    <3>1. PICK rows \in Readings :
            /\ Read(rows)
            /\ wire' = Append(wire, Msg("BrokerConnUp")) \o ReconcileMsgs(rows)
            /\ connected' = TRUE
            /\ tracked' = [i \in Orders |-> IF OpenAt(i) THEN rows[i].as \in {"open", "REPLACED"}
                                                         ELSE tracked[i] /\ ~connected]
            /\ counted' = [i \in Orders |->
                            counted[i] \/ OpenAt(i) \/ (Missed(i) /\ venue[i].exec > 0)]
            /\ seenQty' = [i \in Orders |-> IF OpenAt(i) \/ Missed(i) THEN venue[i].exec ELSE seenQty[i]]
      BY <2>7 DEF ReconcileSucceeds
    <3>2. wire' \in Seq(Msgs)
      BY <2>6, <3>1
    <3>3. tracked' \in [Orders -> BOOLEAN]
      <4>1. ASSUME NEW i \in Orders
            PROVE  (IF OpenAt(i) THEN rows[i].as \in {"open", "REPLACED"}
                                 ELSE tracked[i] /\ ~connected) \in BOOLEAN
        <5>1. tracked[i] \in BOOLEAN /\ (tracked[i] /\ ~connected) \in BOOLEAN
          BY Zenon DEF VenueTypeOK
        <5>2. (rows[i].as \in {"open", "REPLACED"}) \in BOOLEAN
          OBVIOUS
        <5>3. CASE OpenAt(i)
          BY <5>2, <5>3, Zenon
        <5>4. CASE ~OpenAt(i)
          BY <5>1, <5>4, Zenon
        <5> QED BY <5>3, <5>4
      <4> QED BY <3>1, <4>1
    <3>4. counted' \in [Orders -> BOOLEAN]
      BY <3>1 DEF VenueTypeOK, OpenAt, Missed
    <3>5. seenQty' \in [Orders -> Qtys]
      BY <3>1 DEF VenueTypeOK, VenueOrder
    <3>6. upsets' = upsets /\ misread' \subseteq Orders /\ rewound' = rewound
      BY <3>1 DEF VenueTypeOK, Read, OddIn
    <3>7. /\ UNCHANGED <<venue, shares, closing, net, landed, outcomes, flatJob>>
          /\ online' = TRUE
      BY <1>4 DEF Connect
    <3> QED BY <3>1, <3>2, <3>3, <3>4, <3>5, <3>6, <3>7 DEF VenueTypeOK, VenueSound
  <2>8. CASE ReconcileFails
    <3>1. /\ wire' \in Seq(Msgs)
          /\ UNCHANGED <<connected, tracked, counted, seenQty>>
          /\ NoneMisread
      BY <2>1, <2>8 DEF ReconcileFails
    <3>2. upsets' \in 0 .. MaxUpsets
      BY <2>8, UpsetType DEF ReconcileFails
    <3>3. /\ UNCHANGED <<venue, shares, closing, net, landed, outcomes, flatJob>>
          /\ online' = TRUE
      BY <1>4 DEF Connect
    <3> QED BY <3>1, <3>2, <3>3 DEF VenueTypeOK, VenueSound, NoneMisread
  <2> QED BY <1>4, <2>7, <2>8 DEF Connect
<1> QED
  BY <1>1, <1>2, <1>3, <1>4

\* Every step taken outside the core.
LEMMA OutsideType ==
  ASSUME TypeInv, Outside
  PROVE  TypeInv'
<1>1. VenueTypeOK' /\ VenueSound'
  BY BrokerType, StreamType, DeliverType DEF Outside
<1>2. CoreTypeOK'
  BY DEF Outside, coreVars, bookVars, clockVars, TypeInv, TypeOK, CoreTypeOK
<1> QED
  BY <1>1, <1>2 DEF TypeInv, TypeOK

\* A handler leaves the broker and the adapter alone, so what it leaves of the
\* requests, the results and the inbox decides.
LEMMA HandlerVenueType ==
  ASSUME TypeInv, UNCHANGED outside,
         net' \subseteq Requests, outcomes' \subseteq Outcomes,
         flatJob' \in FlatJobs, wire' \in Seq(Msgs)
  PROVE  VenueTypeOK' /\ VenueSound'
BY DEF TypeInv, TypeOK, VenueTypeOK, VenueSound, outside, brokerVars, adapterVars

\* The requests a handler starts are requests.
LEMMA SendType ==
  ASSUME VenueTypeOK
  PROVE  /\ \A ids \in SUBSET Orders : Send(Cancels(ids)) => net' \subseteq Requests
         /\ \A k \in RequestKinds, i \in Orders, q \in Qtys :
              Send({Request(k, i, q)}) => net' \subseteq Requests
         /\ Send({}) => net' \subseteq Requests
<1>1. \A k \in RequestKinds, i \in Orders, q \in Qtys : Request(k, i, q) \in Requests
  BY DEF Request, Requests
<1>2. \A ids \in SUBSET Orders : Cancels(ids) \subseteq Requests
  BY <1>1, EmptyTypes DEF Cancels, RequestKinds, SubmitKinds
<1> QED
  BY <1>1, <1>2 DEF Send, VenueTypeOK

\* An order as a submission creates it.
LEMMA NewOrderType ==
  /\ \A q \in Qtys, a \in Action, h \in Held : NewOrder(q, a, h) \in Order
  /\ \A q \in Qtys : BlockedOrder(q) \in Order
<1>1. NoOrder \in Order
  BY EmptyTypes
<1> QED
  BY <1>1 DEF NewOrder, BlockedOrder, Order, Status, WorkingStatus

\* The commands that submit an order (handleSubmit).
LEMMA SubmitType ==
  ASSUME TypeInv, NEW i \in Orders, SubmitNative(i) \/ SubmitHeld(i)
  PROVE  TypeInv'
<1> USE DEF TypeInv, TypeOK
<1>0. VenueTypeOK /\ CoreTypeOK /\ BookTypeOK
  BY DEF CoreTypeOK, BookTypeOK
<1>1. \A q \in 1 .. MaxQty : q \in Qtys
  BY QtyAssumption DEF Qtys
<1>2. ASSUME NEW o \in Order, AppendSubmitted(i, o) PROVE BookTypeOK'
  BY <1>0, <1>2 DEF AppendSubmitted, BookTypeOK
<1>3. CASE SubmitNative(i)
  <2>1. PICK q \in 1 .. MaxQty, gate \in BOOLEAN :
          LET guarded == Guarded(i)
              a == IF guarded THEN Requested("SUBMIT", 0) ELSE NoAction
          IN  /\ IF armed /\ gate
                 THEN /\ guarded => LeavesOk(i, q)
                      /\ AppendSubmitted(i, NewOrder(q, a, NoHeld))
                      /\ Send({Request(IF guarded THEN "GUARDED" ELSE "SUBMIT", i, q)})
                      /\ posts' = [posts EXCEPT ![i] = @ + 1]
                 ELSE /\ AppendSubmitted(i, BlockedOrder(q))
                      /\ UNCHANGED <<net, posts>>
              /\ UNCHANGED <<outside, outcomes, flatJob, wire, up, position, ready,
                             flattenPending, armed, clockVars, scan>>
    BY <1>3 DEF SubmitNative
  <2> DEFINE a == IF Guarded(i) THEN Requested("SUBMIT", 0) ELSE NoAction
  <2>2. q \in Qtys /\ a \in Action
    BY <1>1, EmptyTypes, ChangeTypes DEF ActionKinds
  <2>3. NewOrder(q, a, NoHeld) \in Order /\ BlockedOrder(q) \in Order
    BY <2>2, EmptyTypes, NewOrderType
  <2>4. BookTypeOK'
    BY <1>2, <2>1, <2>3
  <2>5. net' \subseteq Requests
    BY <1>0, <2>1, <2>2, SendType DEF VenueTypeOK, RequestKinds, SubmitKinds
  <2>6. posts' \in [Orders -> Nat]
    BY <2>1 DEF CoreTypeOK
  <2>7. UNCHANGED <<outside, outcomes, flatJob, wire, up, position, ready,
                    flattenPending, armed, clockVars, scan>>
    BY <2>1
  <2>8. VenueTypeOK' /\ VenueSound'
    BY <2>5, <2>7, HandlerVenueType DEF VenueTypeOK
  <2> QED BY <2>4, <2>6, <2>7, <2>8 DEF CoreTypeOK, BookTypeOK, clockVars
<1>4. CASE SubmitHeld(i)
  <2> DEFINE h == [NoHeld EXCEPT !.phase = "WAITING", !.after = now]
  <2>1. PICK q \in 1 .. MaxQty, gate \in BOOLEAN :
          /\ IF armed /\ gate
             THEN /\ Guarded(i) => LeavesOk(i, q)
                  /\ AppendSubmitted(i, NewOrder(q, NoAction, h))
                  /\ ScanCached(i)
             ELSE /\ AppendSubmitted(i, BlockedOrder(q))
                  /\ UNCHANGED scan
          /\ i \in HeldIds
          /\ UNCHANGED <<venueVars, up, position, ready, flattenPending, armed,
                         clockVars, posts>>
    BY <1>4 DEF SubmitHeld
  <2>2. h \in Held
    BY EmptyTypes DEF CoreTypeOK, Held, HeldPhases, Pretrigger
  <2>3. NewOrder(q, NoAction, h) \in Order /\ BlockedOrder(q) \in Order
    BY <1>1, <2>2, EmptyTypes, NewOrderType
  <2>4. BookTypeOK'
    BY <1>2, <2>1, <2>3
  <2>5. scan' \subseteq HeldIds
    BY <2>1 DEF ScanCached, CoreTypeOK
  <2>6. VenueTypeOK' /\ VenueSound'
    BY <2>1 DEF VenueTypeOK, VenueSound, venueVars, brokerVars, adapterVars
  <2>7. UNCHANGED <<up, position, ready, flattenPending, armed, clockVars, posts>>
    BY <2>1
  <2> QED BY <2>4, <2>5, <2>6, <2>7 DEF CoreTypeOK, BookTypeOK, clockVars
<1> QED
  BY <1>3, <1>4

\* A handler that changes the book, the requests and scalars of the core.
LEMMA HandlerCoreType ==
  ASSUME CoreTypeOK, BookTypeOK',
         up' \in BOOLEAN, ready' \in BOOLEAN, flattenPending' \in BOOLEAN,
         armed' \in BOOLEAN, UNCHANGED <<clockVars, scan, posts>>
  PROVE  CoreTypeOK'
BY DEF CoreTypeOK, BookTypeOK, clockVars

\* The commands about an order that exists (handleCancel, handleReplaceSingle,
\* handleResumeHeld).
LEMMA OrderCommandType ==
  ASSUME TypeInv, OrderCommand
  PROVE  TypeInv'
<1> USE DEF TypeInv, TypeOK
<1>0. VenueTypeOK /\ CoreTypeOK /\ BookTypeOK
  BY DEF CoreTypeOK, BookTypeOK
<1>1. \A q \in 1 .. MaxQty : q \in Qtys
  BY QtyAssumption DEF Qtys
<1>2. CASE \E i \in Orders : SubmitNative(i) \/ SubmitHeld(i)
  BY <1>2, SubmitType
<1>3. ASSUME NEW i \in Orders, CancelOrder(i) PROVE TypeInv'
  <2>1. Only(i, Cancel(orders[i])) \in [Orders -> Change]
    BY HandlerTypes, OnlyType DEF CoreTypeOK
  <2>2. BookTypeOK'
    BY <1>0, <1>3, <2>1, AppendType DEF CancelOrder
  <2>4. net' \subseteq Requests
    BY <1>0, <1>3, SendType DEF CancelOrder
  <2>5. UNCHANGED <<outside, outcomes, flatJob, wire, up, position, ready,
                    flattenPending, armed, clockVars, scan, posts>>
    BY <1>3 DEF CancelOrder
  <2>6. VenueTypeOK' /\ VenueSound'
    BY <2>4, <2>5, HandlerVenueType DEF VenueTypeOK
  <2>7. CoreTypeOK'
    BY <2>2, <2>5, HandlerCoreType DEF CoreTypeOK
  <2> QED BY <2>6, <2>7
<1>4. ASSUME NEW i \in Orders, ReplaceOrder(i) PROVE TypeInv'
  <2>1. PICK q \in 1 .. MaxQty :
          /\ AppendAndFold(Only(i, ActionChange(Requested("REPLACE", q))))
          /\ Send({Request("REPLACE", i, q)})
          /\ UNCHANGED <<outside, outcomes, flatJob, wire, up, position, ready,
                         flattenPending, armed, clockVars, scan, posts>>
    BY <1>4 DEF ReplaceOrder
  <2>2. Only(i, ActionChange(Requested("REPLACE", q))) \in [Orders -> Change]
    BY <1>1, ChangeTypes, OnlyType DEF ActionKinds
  <2>3. BookTypeOK'
    BY <1>0, <2>1, <2>2, AppendType
  <2>4. net' \subseteq Requests
    BY <1>0, <1>1, <2>1, SendType DEF RequestKinds
  <2>5. VenueTypeOK' /\ VenueSound'
    BY <2>1, <2>4, HandlerVenueType DEF VenueTypeOK
  <2>6. CoreTypeOK'
    BY <2>1, <2>3, HandlerCoreType DEF CoreTypeOK
  <2> QED BY <2>5, <2>6
<1>5. ASSUME NEW i \in Orders, ReplaceHeld(i) PROVE TypeInv'
  <2>1. PICK q \in 1 .. MaxQty, hits \in BOOLEAN :
          /\ i \in HeldIds
          /\ AppendAndFold(Only(i, LifeChange(ReplaceEvent(q))))
          /\ lastPrint' = [lastPrint EXCEPT !.hit = IF hits THEN @ \cup {i} ELSE @ \ {i}]
          /\ scan' = IF FreshPrint /\ hits THEN {i} ELSE {}
          /\ UNCHANGED <<venueVars, up, position, ready, flattenPending, armed, now,
                         lastGap, printHealthy, posts>>
    BY <1>5 DEF ReplaceHeld
  <2>2. Only(i, LifeChange(ReplaceEvent(q))) \in [Orders -> Change]
    BY <1>1, LifeTypes, ChangeTypes, OnlyType
  <2>3. BookTypeOK'
    BY <1>0, <2>1, <2>2, AppendType
  <2>4. lastPrint' \in Prints
    BY <2>1 DEF CoreTypeOK, Prints
  <2>5. scan' \subseteq HeldIds
    BY <2>1
  <2>6. VenueTypeOK' /\ VenueSound'
    BY <2>1 DEF VenueTypeOK, VenueSound, venueVars, brokerVars, adapterVars
  <2>7. UNCHANGED <<up, position, ready, flattenPending, armed, now, lastGap, printHealthy, posts>>
    BY <2>1
  <2> QED BY <2>3, <2>4, <2>5, <2>6, <2>7 DEF CoreTypeOK, BookTypeOK
<1>6. ASSUME NEW i \in Orders, ResumeHeld(i) PROVE TypeInv'
  <2> DEFINE c == IF now >= Deadline THEN LifeChange(LifeEvent("OrderExpired"))
                  ELSE HeldChange([orders[i].held EXCEPT !.phase = "WAITING",
                                     !.cancelRequested = FALSE, !.after = now])
  <2>1. c \in Change
    <3>1. orders[i].held \in Held /\ now \in 0 .. MaxClock
      BY DEF CoreTypeOK, Order
    <3>2. [orders[i].held EXCEPT !.phase = "WAITING", !.cancelRequested = FALSE, !.after = now]
            \in Held
      BY <3>1 DEF Held, HeldPhases, Pretrigger
    <3> QED BY <3>2, LifeTypes, ChangeTypes DEF LifeKinds
  <2>2. /\ AppendAndFold(Only(i, c))
        /\ UNCHANGED <<venueVars, up, position, ready, flattenPending, armed,
                       clockVars, scan, posts>>
    BY <1>6 DEF ResumeHeld
  <2>3. BookTypeOK'
    BY <1>0, <2>1, <2>2, OnlyType, AppendType
  <2>4. VenueTypeOK' /\ VenueSound'
    BY <2>2 DEF VenueTypeOK, VenueSound, venueVars, brokerVars, adapterVars
  <2>5. CoreTypeOK'
    BY <2>2, <2>3, HandlerCoreType DEF CoreTypeOK
  <2> QED BY <2>4, <2>5
<1> QED
  BY <1>2, <1>3, <1>4, <1>5, <1>6 DEF OrderCommand

\* The commands about the account (handleArm, handleKill, handleFlatten).
LEMMA AccountCommandType ==
  ASSUME TypeInv, AccountCommand
  PROVE  TypeInv'
<1> USE DEF TypeInv, TypeOK
<1>0. VenueTypeOK /\ CoreTypeOK /\ BookTypeOK
  BY DEF CoreTypeOK, BookTypeOK
<1>1. CASE Arm
  <2>1. armed' \in BOOLEAN /\ BookTypeOK'
    BY <1>0, <1>1 DEF Arm, bookVars, BookTypeOK
  <2>2. UNCHANGED <<venueVars, up, position, ready, flattenPending, clockVars, scan, posts>>
    BY <1>1 DEF Arm
  <2>3. VenueTypeOK' /\ VenueSound'
    BY <2>2 DEF VenueTypeOK, VenueSound, venueVars, brokerVars, adapterVars
  <2>4. CoreTypeOK'
    BY <2>1, <2>2, HandlerCoreType DEF CoreTypeOK
  <2> QED BY <2>3, <2>4
<1>2. CASE DisarmMaster
  <2>1. [i \in Orders |-> Disarm(orders[i], FALSE)] \in [Orders -> Change]
    BY HandlerTypes DEF CoreTypeOK
  <2>2. armed' \in BOOLEAN
    BY <1>2 DEF DisarmMaster
  <2>3. BookTypeOK'
    BY <1>0, <1>2, <2>1, AppendType DEF DisarmMaster
  <2>4. UNCHANGED <<venueVars, up, position, ready, flattenPending, clockVars, scan, posts>>
    BY <1>2 DEF DisarmMaster
  <2>5. VenueTypeOK' /\ VenueSound'
    BY <2>4 DEF VenueTypeOK, VenueSound, venueVars, brokerVars, adapterVars
  <2>6. CoreTypeOK'
    BY <2>2, <2>3, <2>4, HandlerCoreType DEF CoreTypeOK
  <2> QED BY <2>5, <2>6
<1>3. CASE AutoDisarm
  <2>1. armed' \in BOOLEAN
    BY <1>3 DEF AutoDisarm
  <2>2. upsets' \in 0 .. MaxUpsets
    BY <1>3, UpsetType DEF AutoDisarm
  <2>3. UNCHANGED <<venue, shares, closing, net, outcomes, flatJob, wire, adapterVars, up,
                    bookVars, position, ready, flattenPending, clockVars, scan, posts,
                    misread, rewound>>
    BY <1>3 DEF AutoDisarm, NoneMisread
  <2>4. VenueTypeOK' /\ VenueSound'
    BY <2>2, <2>3 DEF VenueTypeOK, VenueSound, adapterVars
  <2>5. CoreTypeOK'
    BY <1>0, <2>1, <2>3, HandlerCoreType DEF CoreTypeOK, bookVars, BookTypeOK
  <2> QED BY <2>4, <2>5
<1>4. CASE KillSwitch
  <2>1. [i \in Orders |-> Kill(orders[i])] \in [Orders -> Change]
    BY HandlerTypes DEF CoreTypeOK
  <2>2. armed' \in BOOLEAN
    BY <1>4 DEF KillSwitch
  <2>3. BookTypeOK'
    BY <1>0, <1>4, <2>1, AppendType DEF KillSwitch
  <2>4. net' \subseteq Requests
    BY <1>0, <1>4, SendType DEF KillSwitch
  <2>5. UNCHANGED <<outside, outcomes, flatJob, wire, up, position, ready,
                    flattenPending, clockVars, scan, posts>>
    BY <1>4 DEF KillSwitch
  <2>6. VenueTypeOK' /\ VenueSound'
    BY <2>4, <2>5, HandlerVenueType DEF VenueTypeOK
  <2>7. CoreTypeOK'
    BY <2>2, <2>3, <2>5, HandlerCoreType DEF CoreTypeOK
  <2> QED BY <2>6, <2>7
<1>5. CASE Flatten
  <2>1. [i \in Orders |-> IF Guarded(i) THEN Pause(orders[i]) ELSE NoChange]
          \in [Orders -> Change]
    BY HeldChangeTypes, EmptyTypes DEF CoreTypeOK
  <2>2. BookTypeOK'
    BY <1>0, <1>5, <2>1, AppendType DEF Flatten
  <2>3. flattenPending' \in BOOLEAN
    BY <1>5 DEF Flatten
  <2>4. ready' \in BOOLEAN
    BY <1>5 DEF Flatten
  <2>5. flatJob' \in FlatJobs
    <3>1. IdleJob \in FlatJobs
      BY RowsType DEF IdleJob, FlatJobs, JobStates
    <3> QED BY <1>5, <3>1 DEF Flatten, FlatJobs, JobStates
  <2>6. UNCHANGED <<outside, net, outcomes, wire, up, position, armed, clockVars, scan, posts>>
    BY <1>5 DEF Flatten
  <2>7. VenueTypeOK' /\ VenueSound'
    BY <2>5, <2>6, HandlerVenueType DEF VenueTypeOK
  <2>8. CoreTypeOK'
    BY <2>2, <2>3, <2>4, <2>6, HandlerCoreType DEF CoreTypeOK
  <2> QED BY <2>7, <2>8
<1> QED
  BY <1>1, <1>2, <1>3, <1>4, <1>5 DEF AccountCommand

\* A handler of the inbox's first event: the event and what is left of the inbox.
LEMMA ReceiveType ==
  ASSUME VenueTypeOK, NEW k, Receive(k)
  PROVE  Head(wire) \in Msgs /\ wire' \in Seq(Msgs)
<1>1. wire \in Seq(Msgs) /\ wire # <<>>
  BY DEF VenueTypeOK, Receive
<1> QED
  BY <1>1, HeadTailProperties DEF Receive

\* The confirmations of a broker list (confirmSellSubmit) are changes.
LEMMA ConfirmListedType ==
  ASSUME CoreTypeOK, NEW rows \in [Orders -> Row]
  PROVE  ConfirmListed(rows) \in [Orders -> Change]
<1>1. ASSUME NEW i \in Orders PROVE ConfirmSell(Overlay(orders[i], rows[i])) \in Change
  BY OverlayType, HeldChangeTypes DEF CoreTypeOK
<1> QED
  BY <1>1, EmptyTypes DEF ConfirmListed

\* The broker events (handleBrokerEvent).
LEMMA StreamEventType ==
  ASSUME TypeInv, StreamEvent
  PROVE  TypeInv'
<1> USE DEF TypeInv, TypeOK
<1>0. VenueTypeOK /\ CoreTypeOK /\ BookTypeOK
  BY DEF CoreTypeOK, BookTypeOK
<1>1. \A r, p : ClearFlatten(r, p) => flattenPending' \in BOOLEAN
  <2>1. SUFFICES ASSUME NEW r, NEW p, ClearFlatten(r, p) PROVE flattenPending' \in BOOLEAN
    OBVIOUS
  <2>2. flattenPending' = (flattenPending /\ ~(r /\ p = 0))
    BY <2>1 DEF ClearFlatten
  <2>3. (flattenPending /\ ~(r /\ p = 0)) \in BOOLEAN
    OBVIOUS
  <2> QED BY <2>2, <2>3
<1>2. CASE OnLives
  <2>1. Head(wire) \in Msgs /\ wire' \in Seq(Msgs)
    BY <1>0, <1>2, ReceiveType DEF OnLives
  <2> DEFINE ls == Head(wire).lives
  <2>2. FoldLives(ls)
    BY <1>2 DEF OnLives
  <2>3. ls \in [Orders -> Life]
    BY <2>1 DEF Msgs
  <2> HIDE DEF ls
  <2>4. [i \in Orders |-> OnLife(orders[i], ls[i])] \in [Orders -> Change]
    BY <2>3, HandlerTypes DEF CoreTypeOK
  <2>5. BookTypeOK'
    BY <1>0, <2>2, <2>4, AppendType DEF FoldLives
  <2>6. net' \subseteq Requests
    BY <1>0, <2>2, SendType DEF FoldLives
  <2>7. flattenPending' \in BOOLEAN
    BY <1>1, <2>2 DEF FoldLives
  <2>8. UNCHANGED <<outside, outcomes, flatJob, up, ready, armed, clockVars, scan, posts>>
    BY <1>2 DEF OnLives
  <2>9. VenueTypeOK' /\ VenueSound'
    BY <2>1, <2>6, <2>8, HandlerVenueType DEF VenueTypeOK
  <2>10. CoreTypeOK'
    BY <2>5, <2>7, <2>8, HandlerCoreType DEF CoreTypeOK
  <2> QED BY <2>9, <2>10
<1>3. CASE OnPosition
  <2>1. wire' \in Seq(Msgs)
    BY <1>0, <1>3, ReceiveType DEF OnPosition
  <2>2. flattenPending' \in BOOLEAN
    BY <1>1, <1>3 DEF OnPosition
  <2>3. UNCHANGED <<outside, net, outcomes, flatJob, up, bookVars, ready, armed,
                    clockVars, scan, posts>>
    BY <1>3 DEF OnPosition
  <2>4. VenueTypeOK' /\ VenueSound'
    BY <2>1, <2>3, HandlerVenueType DEF VenueTypeOK
  <2>5. CoreTypeOK'
    BY <1>0, <2>2, <2>3, HandlerCoreType DEF CoreTypeOK, bookVars, BookTypeOK
  <2> QED BY <2>4, <2>5
<1>4. CASE OnPositions
  <2>1. wire' \in Seq(Msgs)
    BY <1>0, <1>4, ReceiveType DEF OnPositions
  <2>2. UNCHANGED <<outside, net, outcomes, flatJob, up, bookVars, ready, flattenPending,
                    armed, clockVars, scan, posts>>
    BY <1>4 DEF OnPositions
  <2>3. VenueTypeOK' /\ VenueSound'
    BY <2>1, <2>2, HandlerVenueType DEF VenueTypeOK
  <2>4. CoreTypeOK'
    BY <1>0, <2>2, HandlerCoreType DEF CoreTypeOK, bookVars, BookTypeOK
  <2> QED BY <2>3, <2>4
<1>5. CASE OnOpenOrders
  <2> DEFINE rows == Head(wire).rows
  <2>1. Head(wire) \in Msgs /\ wire' \in Seq(Msgs)
    BY <1>0, <1>5, ReceiveType DEF OnOpenOrders
  <2>2. rows \in [Orders -> Row]
    BY <2>1 DEF Msgs
  <2>3. Reconcile(rows, ConfirmListed(rows), TRUE)
    BY <1>5 DEF OnOpenOrders
  <2>4. ready' \in BOOLEAN
    BY <1>5 DEF OnOpenOrders
  <2>5. flattenPending' \in BOOLEAN
    BY <1>1, <1>5 DEF OnOpenOrders
  <2>6. UNCHANGED <<outside, net, outcomes, flatJob, up, position, armed, clockVars,
                    scan, posts>>
    BY <1>5 DEF OnOpenOrders
  <2> HIDE DEF rows
  <2>7. BookTypeOK'
    BY <1>0, <2>2, <2>3, ConfirmListedType, ReconcileType
  <2>8. VenueTypeOK' /\ VenueSound'
    BY <2>1, <2>6, HandlerVenueType DEF VenueTypeOK
  <2>9. CoreTypeOK'
    BY <2>4, <2>5, <2>6, <2>7, HandlerCoreType DEF CoreTypeOK
  <2> QED BY <2>8, <2>9
<1>6. ASSUME NEW k, OnStreamBreak(k) PROVE TypeInv'
  <2>1. wire' \in Seq(Msgs)
    BY <1>0, <1>6, ReceiveType DEF OnStreamBreak
  <2>2. [i \in Orders |-> Pause(orders[i])] \in [Orders -> Change]
    BY HeldChangeTypes DEF CoreTypeOK
  <2>3. BookTypeOK'
    BY <1>0, <1>6, <2>2, AppendType DEF OnStreamBreak
  <2>4. ready' \in BOOLEAN
    BY <1>6 DEF OnStreamBreak
  <2>5. printHealthy' \in BOOLEAN
    <3>1. printHealthy' = (printHealthy /\ k # "BrokerConnDown")
      BY <1>6 DEF OnStreamBreak
    <3>2. (printHealthy /\ k # "BrokerConnDown") \in BOOLEAN
      OBVIOUS
    <3> QED BY <3>1, <3>2
  <2>6. UNCHANGED <<outside, net, outcomes, flatJob, up, position, flattenPending, armed,
                    now, lastGap, lastPrint, scan, posts>>
    BY <1>6 DEF OnStreamBreak
  <2>7. VenueTypeOK' /\ VenueSound'
    BY <2>1, <2>6, HandlerVenueType DEF VenueTypeOK
  <2>8. CoreTypeOK'
    BY <2>3, <2>4, <2>5, <2>6 DEF CoreTypeOK, BookTypeOK
  <2> QED BY <2>7, <2>8
<1> QED
  BY <1>2, <1>3, <1>4, <1>5, <1>6 DEF StreamEvent

\* What the result of a request changes of its order is a change.
LEMMA OutcomeChangeType ==
  ASSUME CoreTypeOK, NEW x \in Outcomes
  PROVE  OnOutcomeChange(x) \in Change
<1> DEFINE o == orders[x.id]
<1>1. x.id \in Orders
  BY DEF Outcomes
<1>2. o \in Order /\ o.action \in Action /\ o.held \in Held
  BY <1>1 DEF CoreTypeOK, Order
<1> HIDE DEF o
<1>3. \A p \in ActionPhases : ActionChange([o.action EXCEPT !.phase = p]) \in Change
  BY <1>2, ChangeTypes DEF Action
<1>4. OnSubmitOutcome(x) \in Change
  BY <1>3, EmptyTypes DEF OnSubmitOutcome, o, ActionPhases
<1>5. OnActionOutcome(x) \in Change
  BY <1>3, EmptyTypes DEF OnActionOutcome, o, ActionPhases
<1>6. [o.held EXCEPT !.phase = "UNKNOWN", !.cancelSent = @ \/ CancelNow(o)] \in Held
  BY <1>2 DEF Held, HeldPhases
<1>7. OnActivationOutcome(x) \in Change
  BY <1>6, EmptyTypes, ChangeTypes DEF OnActivationOutcome, o
<1>8. OnLife(o, LifeEvent("OrderRejected")) \in Change
  BY <1>2, HandlerTypes, LifeTypes DEF LifeKinds
<1> QED
  BY <1>4, <1>5, <1>7, <1>8 DEF OnOutcomeChange, o, Outcomes, RequestKinds, SubmitKinds

\* The results of the request goroutines and of a Flatten.
LEMMA JobResultType ==
  ASSUME TypeInv, JobResult
  PROVE  TypeInv'
<1> USE DEF TypeInv, TypeOK
<1>0. VenueTypeOK /\ CoreTypeOK /\ BookTypeOK
  BY DEF CoreTypeOK, BookTypeOK
<1>1. \A r, p : ClearFlatten(r, p) => flattenPending' \in BOOLEAN
  <2>1. SUFFICES ASSUME NEW r, NEW p, ClearFlatten(r, p) PROVE flattenPending' \in BOOLEAN
    OBVIOUS
  <2>2. flattenPending' = (flattenPending /\ ~(r /\ p = 0))
    BY <2>1 DEF ClearFlatten
  <2>3. (flattenPending /\ ~(r /\ p = 0)) \in BOOLEAN
    OBVIOUS
  <2> QED BY <2>2, <2>3
<1>2. CASE OnSnapshot
  <2>1. flatJob.rows \in [Orders -> Row]
    BY DEF VenueTypeOK, FlatJobs
  <2>2. BookTypeOK'
    BY <1>0, <1>2, <2>1, ConfirmListedType, ReconcileType DEF OnSnapshot
  <2>3. ready' \in BOOLEAN
    BY <1>2 DEF OnSnapshot
  <2>4. flattenPending' \in BOOLEAN
    BY <1>1, <1>2 DEF OnSnapshot
  <2>5. flatJob' \in FlatJobs
    BY <1>2, RowsType DEF OnSnapshot, IdleJob, FlatJobs, JobStates
  <2>6. UNCHANGED <<outside, net, outcomes, wire, up, armed, clockVars, scan, posts>>
    BY <1>2 DEF OnSnapshot
  <2>7. VenueTypeOK' /\ VenueSound'
    BY <2>5, <2>6, HandlerVenueType DEF VenueTypeOK
  <2>8. CoreTypeOK'
    BY <2>2, <2>3, <2>4, <2>6, HandlerCoreType DEF CoreTypeOK
  <2> QED BY <2>7, <2>8
<1>3. ASSUME NEW x \in outcomes, OnOutcome(x) PROVE TypeInv'
  <2>1. x \in Outcomes /\ x.id \in Orders
    BY DEF VenueTypeOK, Outcomes
  <2>3. OnOutcomeChange(x) \in Change
    BY <1>0, <2>1, OutcomeChangeType
  <2>4. BookTypeOK'
    BY <1>0, <1>3, <2>1, <2>3, OnlyType, AppendType DEF OnOutcome
  <2>5. net' \subseteq Requests
    BY <1>0, <1>3, <2>1, SendType DEF OnOutcome
  <2>6. outcomes' \subseteq Outcomes
    BY <1>3 DEF OnOutcome, VenueTypeOK
  <2>7. flattenPending' \in BOOLEAN
    BY <1>1, <1>3 DEF OnOutcome, CoreTypeOK
  <2>8. UNCHANGED <<outside, flatJob, wire, up, position, ready, armed, clockVars, scan, posts>>
    BY <1>3 DEF OnOutcome
  <2>9. VenueTypeOK' /\ VenueSound'
    BY <2>5, <2>6, <2>8, HandlerVenueType DEF VenueTypeOK
  <2>10. CoreTypeOK'
    BY <2>4, <2>7, <2>8, HandlerCoreType DEF CoreTypeOK
  <2> QED BY <2>9, <2>10
<1> QED
  BY <1>2, <1>3 DEF JobResult

\* Prints, their loop over the held orders, the held timer and the clock.
LEMMA HeldStepType ==
  ASSUME TypeInv, HeldStep \/ \E i \in Orders : EvaluateHeld(i)
  PROVE  TypeInv'
<1> USE DEF TypeInv, TypeOK
<1>0. VenueTypeOK /\ CoreTypeOK /\ BookTypeOK
  BY DEF CoreTypeOK, BookTypeOK
<1>1. CASE EligiblePrint
  <2>1. PICK recv \in 1 .. MaxClock, hit \in SUBSET HeldIds :
          /\ lastPrint' = [recv |-> recv, hit |-> hit]
          /\ IF now - recv <= MaxAge
             THEN /\ printHealthy' = TRUE
                  /\ scan' = {i \in HeldIds : Live(orders[i]) /\ recv > orders[i].held.after}
             ELSE UNCHANGED <<printHealthy, scan>>
          /\ UNCHANGED <<venueVars, up, bookVars, position, ready, flattenPending, armed,
                         now, lastGap, posts>>
    BY <1>1 DEF EligiblePrint
  <2>2. lastPrint' \in Prints
    <3>1. recv \in 0 .. MaxClock
      BY ClockAssumption
    <3> QED BY <2>1, <3>1 DEF Prints
  <2>3. printHealthy' \in BOOLEAN
    BY <2>1 DEF CoreTypeOK
  <2>4. scan' \subseteq HeldIds
    BY <2>1 DEF CoreTypeOK
  <2>5. UNCHANGED <<up, bookVars, position, ready, flattenPending, armed, now, lastGap, posts>>
    BY <2>1
  <2>6. VenueTypeOK' /\ VenueSound'
    BY <2>1 DEF VenueTypeOK, VenueSound, venueVars, brokerVars, adapterVars
  <2> QED BY <2>2, <2>3, <2>4, <2>5, <2>6 DEF CoreTypeOK, bookVars
<1>2. CASE PrintGap
  <2>1. [i \in Orders |-> Pause(orders[i])] \in [Orders -> Change]
    BY HeldChangeTypes DEF CoreTypeOK
  <2>2. BookTypeOK'
    BY <1>0, <1>2, <2>1, AppendType DEF PrintGap
  <2>3. lastGap' \in 0 .. MaxClock
    <3>1. lastGap' \in lastGap .. now
      BY <1>2 DEF PrintGap
    <3>2. lastGap \in 0 .. MaxClock /\ now \in 0 .. MaxClock
      BY DEF CoreTypeOK
    <3> QED BY <3>1, <3>2, ClockAssumption
  <2>4. lastPrint' \in Prints
    BY <1>2, EmptyTypes DEF PrintGap, NoPrint, Prints
  <2>5. printHealthy' \in BOOLEAN
    BY <1>2 DEF PrintGap
  <2>6. UNCHANGED <<venueVars, up, position, ready, flattenPending, armed, now, scan, posts>>
    BY <1>2 DEF PrintGap
  <2>7. VenueTypeOK' /\ VenueSound'
    BY <2>6 DEF VenueTypeOK, VenueSound, venueVars, brokerVars, adapterVars
  <2> QED BY <2>2, <2>3, <2>4, <2>5, <2>6, <2>7 DEF CoreTypeOK, BookTypeOK
<1>3. CASE ExpireHeldOrders
  <2>1. [i \in Orders |-> Expire(orders[i])] \in [Orders -> Change]
    BY HandlerTypes DEF CoreTypeOK
  <2>2. BookTypeOK'
    BY <1>0, <1>3, <2>1, AppendType DEF ExpireHeldOrders
  <2>3. net' \subseteq Requests
    BY <1>0, <1>3, SendType DEF ExpireHeldOrders
  <2>4. UNCHANGED <<outside, outcomes, flatJob, wire, up, position, ready,
                    flattenPending, armed, clockVars, scan, posts>>
    BY <1>3 DEF ExpireHeldOrders
  <2>5. VenueTypeOK' /\ VenueSound'
    BY <2>3, <2>4, HandlerVenueType DEF VenueTypeOK
  <2>6. CoreTypeOK'
    BY <2>2, <2>4, HandlerCoreType DEF CoreTypeOK
  <2> QED BY <2>5, <2>6
<1>4. CASE Tick
  <2>1. now' \in 0 .. MaxClock
    BY <1>4, ClockAssumption DEF Tick, CoreTypeOK
  <2>2. UNCHANGED <<venueVars, up, bookVars, position, ready, flattenPending, armed,
                    lastGap, lastPrint, printHealthy, scan, posts>>
    BY <1>4 DEF Tick
  <2>3. VenueTypeOK' /\ VenueSound'
    BY <2>2 DEF VenueTypeOK, VenueSound, venueVars, brokerVars, adapterVars
  <2> QED BY <2>1, <2>2, <2>3 DEF CoreTypeOK, bookVars
<1>5. ASSUME NEW i \in Orders, EvaluateHeld(i) PROVE TypeInv'
  <2> DEFINE o == orders[i]
             post == Live(o) /\ now < Deadline /\ i \in lastPrint.hit
             c == CASE ~Live(o) -> NoChange
                    [] Live(o) /\ now >= Deadline -> LifeChange(LifeEvent("OrderExpired"))
                    [] Live(o) /\ now < Deadline /\ ~post -> HeldTo(o, "ARMED")
                    [] post -> ActivationStops(i)
  <2>1. \/ /\ AppendAndFold(Only(i, Activation(o)))
           /\ Send({Request("CHILD", i, o.leaves)})
           /\ posts' = [posts EXCEPT ![i] = @ + 1]
        \/ /\ AppendAndFold(Only(i, c))
           /\ UNCHANGED <<net, posts>>
    BY <1>5 DEF EvaluateHeld
  <2>2. /\ scan' = scan \ {i}
        /\ UNCHANGED <<outside, outcomes, flatJob, wire, up, position, ready,
                       flattenPending, armed, clockVars>>
    BY <1>5 DEF EvaluateHeld
  <2>3. o \in Order /\ o.leaves \in Qtys
    BY DEF CoreTypeOK, Order
  <2>4. Activation(o) \in Change
    <3>1. [o.held EXCEPT !.phase = "ACTIVATING", !.child = TRUE, !.cancelRequested = FALSE]
            \in Held
      BY <2>3 DEF Order, Held, HeldPhases
    <3> QED BY <3>1, ChangeTypes DEF Activation
  <2>5. HeldTo(o, "PAUSED") \in Change /\ HeldTo(o, "ARMED") \in Change
    BY <2>3, HeldChangeTypes DEF HeldPhases, Pretrigger
  <2>6. /\ LifeChange(LifeEvent("OrderExpired")) \in Change
        /\ LifeChange(LifeEvent("OrderRejected")) \in Change
    BY LifeTypes, ChangeTypes DEF LifeKinds
  <2>7. c \in Change
    <3>1. ActivationStops(i) \in Change
      BY <2>5, <2>6 DEF ActivationStops
    <3>2. now \in Int /\ Deadline \in Int
      BY HeldTimeAssumption DEF CoreTypeOK
    <3>3. ~(now >= Deadline) <=> now < Deadline
      BY <3>2
    <3>4. \/ ~Live(o) /\ c = NoChange
          \/ Live(o) /\ now >= Deadline /\ c = LifeChange(LifeEvent("OrderExpired"))
          \/ Live(o) /\ now < Deadline /\ ~post /\ c = HeldTo(o, "ARMED")
          \/ post /\ c = ActivationStops(i)
      BY <3>3
    <3> HIDE DEF c
    <3> QED BY <2>5, <2>6, <3>1, <3>4, EmptyTypes
  <2> HIDE DEF o, c
  <2>8. BookTypeOK'
    BY <1>0, <2>1, <2>4, <2>7, OnlyType, AppendType
  <2>9. net' \subseteq Requests
    BY <1>0, <2>1, <2>3, SendType DEF RequestKinds, SubmitKinds, VenueTypeOK
  <2>10. posts' \in [Orders -> Nat] /\ scan' \subseteq HeldIds
    BY <2>1, <2>2 DEF CoreTypeOK
  <2>11. VenueTypeOK' /\ VenueSound'
    BY <2>2, <2>9, HandlerVenueType DEF VenueTypeOK
  <2>12. CoreTypeOK'
    BY <2>2, <2>8, <2>10 DEF CoreTypeOK, BookTypeOK, clockVars
  <2> QED BY <2>11, <2>12
<1> QED
  BY <1>1, <1>2, <1>3, <1>4, <1>5 DEF HeldStep

\* What a process that dies leaves of the broker and the adapter.
LEMMA ProcessDiesType ==
  ASSUME VenueTypeOK, NEW last \in SUBSET Requests, ProcessDies(last)
  PROVE  /\ net' \subseteq Requests /\ outcomes' \subseteq Outcomes
         /\ closing' \in BOOLEAN /\ flatJob' \in FlatJobs /\ wire' \in Seq(Msgs)
         /\ online' \in BOOLEAN /\ connected' \in BOOLEAN
         /\ tracked' \in [Orders -> BOOLEAN] /\ counted' \in [Orders -> BOOLEAN]
         /\ seenQty' \in [Orders -> Qtys] /\ landed' = {}
         /\ misread' = misread /\ rewound' = rewound
<1>1. net' \subseteq Requests
  <2>1. PICK sent \in SUBSET (net \cup last) : net' = {Dead(r) : r \in sent}
    BY DEF ProcessDies
  <2>2. \A r \in Requests : Dead(r) \in Requests
    BY DEF Dead, Requests
  <2> QED BY <2>1, <2>2 DEF VenueTypeOK
<1>2. closing' \in BOOLEAN
  BY DEF ProcessDies, VenueTypeOK
<1>3. flatJob' \in FlatJobs
  BY RowsType DEF ProcessDies, IdleJob, FlatJobs, JobStates
<1>4. online' \in BOOLEAN
  BY DEF ProcessDies
<1>5. connected' \in BOOLEAN
  BY DEF ProcessDies
<1>6. outcomes' \subseteq Outcomes /\ wire' \in Seq(Msgs)
  BY EmptySeq DEF ProcessDies
<1>7. /\ tracked' \in [Orders -> BOOLEAN] /\ counted' \in [Orders -> BOOLEAN]
      /\ seenQty' \in [Orders -> Qtys]
  BY EmptyTypes DEF ProcessDies
<1>8. landed' = {} /\ misread' = misread /\ rewound' = rewound
  BY DEF ProcessDies, NoneMisread
<1> QED
  BY <1>1, <1>2, <1>3, <1>4, <1>5, <1>6, <1>7, <1>8

\* What a process that dies leaves of the core, besides the book.
LEMMA MemoryLostType ==
  ASSUME CoreTypeOK, MemoryLost, BookTypeOK'
  PROVE  CoreTypeOK'
<1>1. up' \in BOOLEAN
  BY DEF MemoryLost
<1>2. ready' \in BOOLEAN
  BY DEF MemoryLost
<1>3. armed' \in BOOLEAN
  BY DEF MemoryLost
<1>4. printHealthy' \in BOOLEAN
  BY DEF MemoryLost
<1>5. lastGap' \in 0 .. MaxClock /\ lastPrint' \in Prints
  BY EmptyTypes DEF MemoryLost, NoPrint, Prints
<1>6. scan' \subseteq HeldIds
  BY DEF MemoryLost
<1>7. UNCHANGED <<flattenPending, now, posts>>
  BY DEF MemoryLost
<1> QED
  BY <1>1, <1>2, <1>3, <1>4, <1>5, <1>6, <1>7 DEF CoreTypeOK, BookTypeOK

\* Recover restores an action and a custody.
LEMMA RecoveredType ==
  ASSUME CoreTypeOK, NEW i \in Orders, NEW m \in Order, NEW found \in BOOLEAN
  PROVE  /\ RecoveredAction(i, m, found) \in Action
         /\ RecoveredHeld(m, found) \in Held
<1>1. logged[i] \in Order /\ logged[i].action \in Action /\ actionLog[i] \in Action
  BY DEF CoreTypeOK, Order
<1>2. \A a \in Action, p \in ActionPhases : [a EXCEPT !.phase = p] \in Action
  BY DEF Action
<1>3. \A a \in Action : Doubt(a) \in Action
  BY <1>2 DEF Doubt, ActionPhases
<1>4. FirstDoubt(logged[i]) \in Action
  BY <1>1, <1>3 DEF FirstDoubt
<1>5. RestoredAction(i, m) \in Action
  BY <1>1, <1>3, <1>4 DEF RestoredAction, LastLogged
<1>6. RecoveredAction(i, m, found) \in Action
  BY <1>2, <1>5 DEF RecoveredAction, ActionPhases
<1>7. RecoveredHeld(m, found) \in Held
  <2>1. m.held \in Held
    BY DEF Order
  <2>2. \A p \in HeldPhases : [m.held EXCEPT !.phase = p] \in Held
    BY <2>1 DEF Held
  <2>3. [m.held EXCEPT !.phase = IF found THEN @ ELSE "UNKNOWN",
                       !.cancelRequested = TRUE, !.cancelSent = @ \/ found] \in Held
    BY <2>1 DEF Held, HeldPhases
  <2> QED BY <2>1, <2>2, <2>3 DEF RecoveredHeld, HeldPhases, Pretrigger
<1> QED
  BY <1>6, <1>7

\* A restart reads one list, or none.
LEMMA RecoverReads ==
  ASSUME NEW ok \in BOOLEAN, Recover(ok)
  PROVE  \E rows \in (IF ok THEN Readings ELSE {NoRows}) :
            /\ misread' = misread \cup OddIn(rows)
            /\ RecoverWith(rows)
<1>1. OddIn(NoRows) = {}
  BY DEF OddIn, NoRows, NoRow
<1> QED
  BY <1>1 DEF Recover, Read, NoneMisread

\* A crash, a shutdown and a restart.
LEMMA ProcessType ==
  ASSUME TypeInv, Process
  PROVE  TypeInv'
<1> USE DEF TypeInv, TypeOK
<1>0. VenueTypeOK /\ CoreTypeOK /\ BookTypeOK
  BY DEF CoreTypeOK, BookTypeOK
<1>1. CASE Crash
  <2>1. ProcessDies({}) /\ MemoryLost /\ UNCHANGED <<venue, shares, logged, actionLog>>
    BY <1>1 DEF Crash
  <2>2. upsets' \in 0 .. MaxUpsets
    BY <1>1, UpsetType DEF Crash
  <2>3. VenueTypeOK' /\ VenueSound'
    BY <1>0, <2>1, <2>2, ProcessDiesType DEF VenueTypeOK, VenueSound
  <2>4. BookTypeOK'
    BY <1>0, <1>1, <2>1 DEF Crash, BookTypeOK
  <2> QED BY <2>1, <2>3, <2>4, MemoryLostType
<1>2. CASE ShutdownEngine
  <2> DEFINE last == Cancels({i \in Orders : ShutdownCancels(orders[i])})
  <2>1. /\ AppendAndFold([i \in Orders |-> Shutdown(orders[i])])
        /\ ProcessDies(last)
        /\ MemoryLost
        /\ UNCHANGED <<venue, shares, upsets>>
    BY <1>2 DEF ShutdownEngine
  <2>2. last \subseteq Requests
    <3>1. \A i \in Orders : Request("CANCEL", i, 0) \in Requests
      BY EmptyTypes DEF Request, Requests, RequestKinds
    <3> QED BY <3>1 DEF Cancels
  <2> HIDE DEF last
  <2>3. VenueTypeOK' /\ VenueSound'
    BY <1>0, <2>1, <2>2, ProcessDiesType DEF VenueTypeOK, VenueSound
  <2>4. [i \in Orders |-> Shutdown(orders[i])] \in [Orders -> Change]
    BY HandlerTypes DEF CoreTypeOK
  <2>5. BookTypeOK'
    BY <1>0, <2>1, <2>4, AppendType
  <2> QED BY <2>1, <2>3, <2>5, MemoryLostType
<1>3. ASSUME NEW ok \in BOOLEAN, Recover(ok) PROVE TypeInv'
  <2>0. PICK rows \in (IF ok THEN Readings ELSE {NoRows}) :
          misread' = misread \cup OddIn(rows) /\ RecoverWith(rows)
    BY <1>3, RecoverReads
  <2> DEFINE m == [i \in Orders |-> Overlay(logged[i], rows[i])]
             found(i) == Listed(rows[i])
             act(i) == RecoveredAction(i, m[i], found(i))
             held(i) == RecoveredHeld(m[i], found(i))
             base(i) == IF logged[i].status = "NONE" THEN m[i] ELSE logged[i]
             acted(i) == \/ act(i) # logged[i].action
                         \/ RestoredAction(i, m[i]) # logged[i].action
             sent == {i \in Orders : RecoverSends(i, m[i], found(i))}
  <2>1. /\ upsets' = upsets \/ Upset("snapshot")
        /\ up' = TRUE
        /\ rewound' = rewound
        /\ ready' = ok
        /\ ClearFlatten(ok, position')
        /\ UNCHANGED <<venue, shares, closing, adapterVars, outcomes, flatJob, wire, armed,
                       clockVars, scan, posts>>
    BY <1>3 DEF Recover, Read, NoneMisread
  <2>19. /\ orders' = [i \in Orders |-> [m[i] EXCEPT !.action = act(i), !.held = held(i)]]
         /\ logged' = [i \in Orders |-> [base(i) EXCEPT !.action = act(i), !.held = held(i)]]
         /\ actionLog' = [i \in Orders |-> IF acted(i) THEN act(i) ELSE actionLog[i]]
         /\ Send(Cancels(sent))
    BY <2>0 DEF RecoverWith
  <2>2. rows \in [Orders -> Row]
    BY RowsType
  <2>3. ASSUME NEW i \in Orders PROVE m[i] \in Order /\ base(i) \in Order /\ logged[i] \in Order
    <3>1. logged[i] \in Order
      BY DEF CoreTypeOK
    <3>2. Overlay(logged[i], rows[i]) \in Order
      BY <2>2, <3>1, OverlayType
    <3> QED BY <3>1, <3>2
  <2>4. ASSUME NEW i \in Orders PROVE act(i) \in Action /\ held(i) \in Held
    <3>1. found(i) \in BOOLEAN
      BY DEF Listed
    <3> QED BY <1>0, <2>3, <3>1, RecoveredType
  <2>5. sent \subseteq Orders
    OBVIOUS
  <2> HIDE DEF m, found, act, held, base, acted, sent
  <2>6. orders' \in [Orders -> Order]
    <3>1. ASSUME NEW i \in Orders
          PROVE  [m[i] EXCEPT !.action = act(i), !.held = held(i)] \in Order
      BY <2>3, <2>4 DEF Order
    <3> QED BY <2>19, <3>1
  <2>7. logged' \in [Orders -> Order]
    <3>1. ASSUME NEW i \in Orders
          PROVE  [base(i) EXCEPT !.action = act(i), !.held = held(i)] \in Order
      BY <2>3, <2>4 DEF Order
    <3> QED BY <2>19, <3>1
  <2>8. actionLog' \in [Orders -> Action]
    BY <2>19, <2>4 DEF CoreTypeOK
  <2>9. net' \subseteq Requests
    BY <1>0, <2>19, <2>5, SendType
  <2>10. upsets' \in 0 .. MaxUpsets
    BY <1>0, <2>1, UpsetType DEF VenueTypeOK
  <2>11. flattenPending' \in BOOLEAN
    <3>1. flattenPending' = (flattenPending /\ ~(ok /\ position' = 0))
      BY <2>1 DEF ClearFlatten
    <3>2. (flattenPending /\ ~(ok /\ position' = 0)) \in BOOLEAN
      OBVIOUS
    <3> QED BY <3>1, <3>2
  <2>12. up' \in BOOLEAN
    BY <2>1
  <2>13. ready' \in BOOLEAN
    BY <2>1
  <2>14. UNCHANGED <<venue, shares, closing, adapterVars, outcomes, flatJob, wire, armed,
                     clockVars, scan, posts>>
    BY <2>1
  <2>20. misread' \subseteq Orders /\ rewound' \subseteq Orders
    BY <2>0, <2>1 DEF VenueTypeOK, OddIn
  <2>15. VenueTypeOK' /\ VenueSound'
    BY <2>9, <2>10, <2>14, <2>20 DEF VenueTypeOK, VenueSound, adapterVars
  <2>16. armed' \in BOOLEAN
    BY <2>14 DEF CoreTypeOK
  <2>17. BookTypeOK'
    BY <2>6, <2>7, <2>8 DEF BookTypeOK
  <2>18. CoreTypeOK'
    BY <1>0, <2>11, <2>12, <2>13, <2>14, <2>16, <2>17, HandlerCoreType
  <2> QED BY <2>15, <2>18
<1> QED
  BY <1>1, <1>2, <1>3 DEF Process

\* No step of the engine, of the broker or of the stream leaves the domains.
LEMMA NextType == TypeInv /\ [Next]_vars => TypeInv'
<1> SUFFICES ASSUME TypeInv, [Next]_vars PROVE TypeInv'
  OBVIOUS
<1>1. CASE Next
  BY <1>1, OrderCommandType, AccountCommandType, StreamEventType, JobResultType,
     HeldStepType, ProcessType, OutsideType DEF Next
<1>2. CASE UNCHANGED vars
  BY <1>2 DEF vars, venueVars, brokerVars, adapterVars, coreVars, bookVars, clockVars,
              TypeInv, TypeOK, VenueTypeOK, CoreTypeOK, VenueSound
<1> QED
  BY <1>1, <1>2

\* Every reachable state of the engine and its broker is well typed, and the
\* broker never executes more of an order than its size: no cumulative
\* quantity, leaves quantity or size the core folds is negative or larger
\* than the largest order.
THEOREM TypeCorrect == Spec => [](TypeOK /\ VenueSound)
<1>1. Init => TypeInv
  BY InitType
<1>2. TypeInv /\ [Next]_vars => TypeInv'
  BY NextType
<1>3. TypeInv => TypeOK /\ VenueSound
  BY DEF TypeInv
<1> QED
  BY <1>1, <1>2, <1>3, PTL DEF Spec

-----------------------------------------------------------------------------
(***************************************************************************)
(* The custody of a submission, for every set of orders and every bound:   *)
(* an id is POSTed at most once, never before the log holds it, and never  *)
(* while the core still treats it as local.                                *)
(***************************************************************************)
-----------------------------------------------------------------------------
(* The inductive invariant *)

\* What an order keeps of its custody: the live order and the replayed one
\* agree, a POST leaves its trace in the log, and only one is ever made.
Unlinked(o) == o.held.phase \in Pretrigger => ~o.held.child
Custody(i) ==
  /\ orders[i].held = logged[i].held
  /\ orders[i].status = "NONE" <=> logged[i].status = "NONE"
  /\ posts[i] <= 1
  /\ posts[i] # 0 => /\ logged[i].status # "NONE"
                     /\ i \in HeldIds => logged[i].held.child
  /\ Unlinked(orders[i])
  /\ i \notin HeldIds => orders[i].held = NoHeld

\* Nothing outside the core knows of an order that was never POSTed: no
\* broker order, no request that would create one, no row, no stream event.
QuietMsgs(i) == {m \in Msgs : m.lives[i] = NoEvent /\ ~Listed(m.rows[i])}
Quiet(i) ==
  /\ venue[i] = NoVenueOrder
  /\ ~SubmitInFlight(i)
  /\ ~Listed(flatJob.rows[i])
  /\ wire \in Seq(QuietMsgs(i))
CustodyInv == \A i \in Orders : Custody(i) /\ (posts[i] = 0 => Quiet(i))
IInv == TypeInv /\ CustodyInv

-----------------------------------------------------------------------------
(* What a handler does to one order *)

\* A change that never unlinks a child, never links one to a parent that
\* waits, and gives custody to no native order.
KeepsCustody(o, c) ==
  \/ c.held.phase = "KEEP"
  \/ /\ o.held # NoHeld
     /\ o.held.child => c.held.child
     /\ c.held.phase \in Pretrigger => ~c.held.child

\* A lifecycle event (State.Apply) leaves custody alone and forgets no order.
LEMMA FoldLifeCustody ==
  ASSUME NEW o \in Order, NEW e \in Life
  PROVE  /\ FoldLife(o, e).held = o.held
         /\ o.status # "NONE" => FoldLife(o, e).status # "NONE"
<1> USE DEF Order
<1>1. CASE e.ev = "NoEvent"
  BY <1>1 DEF FoldLife
<1>2. CASE e.ev = "OrderAccepted"
  BY <1>2 DEF FoldLife, FoldAccepted
<1>3. CASE e.ev = "OrderRejected"
  BY <1>3 DEF FoldLife, FoldRejected
<1>4. CASE e.ev = "OrderFilled"
  BY <1>4 DEF FoldLife, FoldFilled
<1>5. CASE e.ev = "OrderCanceled"
  BY <1>5 DEF FoldLife, FoldCanceled, Ended
<1>6. CASE e.ev = "OrderExpired"
  BY <1>6 DEF FoldLife, FoldExpired, Ended
<1>7. CASE e.ev = "OrderReplaced"
  BY <1>7 DEF FoldLife, FoldReplaced
<1> QED
  BY <1>1, <1>2, <1>3, <1>4, <1>5, <1>6, <1>7 DEF Life, LifeKinds

\* Folding a change that keeps custody, on the live order and on the replay.
LEMMA ApplyCustody ==
  ASSUME NEW o \in Order, NEW l \in Order, NEW c \in Change,
         o.held = l.held, o.status = "NONE" <=> l.status = "NONE",
         Unlinked(o), KeepsCustody(o, c)
  PROVE  /\ Apply(o, c).held = Apply(l, c).held
         /\ Apply(o, c).status = "NONE" <=> Apply(l, c).status = "NONE"
         /\ l.status # "NONE" => Apply(l, c).status # "NONE"
         /\ l.held.child => Apply(l, c).held.child
         /\ Unlinked(Apply(o, c))
         /\ o.held = NoHeld => Apply(o, c).held = NoHeld
<1>1. ASSUME NEW x \in Order
      PROVE  /\ x.status # "NONE" => /\ Apply(x, c).held = SetHeld(x.held, c.held)
                                     /\ Apply(x, c).status # "NONE"
             /\ x.status = "NONE" => Apply(x, c) = x
  <2>1. c.life \in Life
    BY DEF Change
  <2>2. /\ FoldLife(x, c.life) \in Order
        /\ FoldLife(x, c.life).held = x.held
        /\ x.status # "NONE" => FoldLife(x, c.life).status # "NONE"
    BY <2>1, FoldLifeType, FoldLifeCustody
  <2> QED BY <2>2 DEF Apply, Order
<1>2. CASE o.status = "NONE"
  BY <1>1, <1>2
<1>3. CASE o.status # "NONE"
  <2>1. /\ Apply(o, c).held = SetHeld(o.held, c.held)
        /\ Apply(l, c).held = SetHeld(o.held, c.held)
        /\ Apply(o, c).status # "NONE" /\ Apply(l, c).status # "NONE"
    BY <1>1, <1>3
  <2>2. CASE c.held.phase = "KEEP"
    BY <2>1, <2>2 DEF SetHeld, Unlinked
  <2>3. CASE c.held.phase # "KEEP"
    BY <2>1, <2>3 DEF SetHeld, Unlinked, KeepsCustody
  <2> QED BY <2>2, <2>3
<1> QED
  BY <1>2, <1>3

\* Every command, timer and event of the core keeps custody; the activation
\* of a held order is the one change that links a child.
LEMMA HandlersKeepCustody ==
  ASSUME NEW o \in Order, Unlinked(o)
  PROVE  /\ KeepsCustody(o, NoChange)
         /\ \A e : KeepsCustody(o, LifeChange(e))
         /\ \A a : KeepsCustody(o, ActionChange(a))
         /\ Live(o) => \A p \in HeldPhases : KeepsCustody(o, HeldTo(o, p))
         /\ KeepsCustody(o, Pause(o))
         /\ KeepsCustody(o, Cancel(o))
         /\ \A k \in BOOLEAN : KeepsCustody(o, Disarm(o, k))
         /\ KeepsCustody(o, Kill(o))
         /\ KeepsCustody(o, Expire(o))
         /\ KeepsCustody(o, Shutdown(o))
         /\ \A e : KeepsCustody(o, OnLife(o, e))
<1> USE DEF KeepsCustody
<1>1. NoChange.held.phase = "KEEP"
  BY DEF NoChange, KeepHeld, NoHeld
<1>2. \A e : LifeChange(e).held.phase = "KEEP"
  BY DEF LifeChange, NoChange, KeepHeld, NoHeld
<1>3. \A a : ActionChange(a).held.phase = "KEEP"
  BY DEF ActionChange, NoChange, KeepHeld, NoHeld
<1>4. o.held \in Held
  BY DEF Order
<1>5. o.held.phase # "NONE" => o.held # NoHeld
  BY DEF NoHeld
<1>6. ASSUME o.held.phase \in Pretrigger, NEW p \in HeldPhases
      PROVE  KeepsCustody(o, HeldTo(o, p))
  <2>1. ~o.held.child /\ o.held # NoHeld
    BY <1>5, <1>6 DEF Unlinked, Pretrigger
  <2>2. HeldTo(o, p).held = [o.held EXCEPT !.phase = p, !.cancelRequested = FALSE]
    BY DEF HeldTo, HeldChange, NoChange
  <2>3. ~HeldTo(o, p).held.child
    BY <1>4, <2>1, <2>2 DEF Held
  <2> QED BY <2>1, <2>3
<1>7. "PAUSED" \in HeldPhases
  BY DEF HeldPhases, Pretrigger
<1>8. Live(o) => o.held.phase \in Pretrigger
  BY DEF Live, Pretrigger
<1>9. KeepsCustody(o, Pause(o))
  BY <1>1, <1>6, <1>7, <1>8 DEF Pause
<1>10. o.held.phase \notin Pretrigger \cup {"NONE"} => KeepsCustody(o, AskCancel(o))
  <2> SUFFICES ASSUME o.held.phase \notin Pretrigger \cup {"NONE"}, ~Unresolved(o, "CANCEL")
               PROVE  KeepsCustody(o, AskCancel(o))
    BY <1>1 DEF AskCancel
  <2>1. AskCancel(o).held =
          [o.held EXCEPT !.phase = "CANCEL_REQUESTED", !.cancelRequested = TRUE,
                         !.cancelSent = @ \/ o.held.phase # "ACTIVATING"]
    BY DEF AskCancel, NoChange
  <2>2. AskCancel(o).held.child = o.held.child /\ AskCancel(o).held.phase = "CANCEL_REQUESTED"
    BY <1>4, <2>1 DEF Held
  <2> QED BY <1>5, <2>2 DEF Pretrigger
<1>11. KeepsCustody(o, Cancel(o))
  BY <1>1, <1>2, <1>3, <1>10 DEF Cancel, IsHeld
<1>12. \A k \in BOOLEAN : KeepsCustody(o, Disarm(o, k))
  BY <1>1, <1>2, <1>6, <1>7, <1>10 DEF Disarm, Pretrigger
<1>13. KeepsCustody(o, Kill(o))
  BY <1>1, <1>11, <1>12 DEF Kill
<1>14. KeepsCustody(o, Expire(o))
  BY <1>1, <1>2, <1>10 DEF Expire, Pretrigger
<1>15. KeepsCustody(o, Shutdown(o))
  <2>1. CASE Live(o)
    <3>1. Shutdown(o) = HeldTo(o, "PAUSED")
      BY <2>1 DEF Shutdown, Live, ShutdownCancels
    <3> QED BY <1>6, <1>7, <1>8, <2>1, <3>1
  <2>2. CASE ~Live(o) /\ Working(o) /\ o.held.phase = "ACTIVATING"
    BY <1>10, <2>2 DEF Shutdown, Pretrigger, ShutdownCancels
  <2>3. CASE ~Live(o) /\ ShutdownCancels(o)
    <3>1. o.held.phase # "ACTIVATING" /\ o.held.phase # "NONE"
      BY <2>3 DEF ShutdownCancels
    <3>2. Shutdown(o).held =
            [o.held EXCEPT !.phase = "CANCEL_REQUESTED",
                           !.cancelRequested = TRUE, !.cancelSent = TRUE]
      BY <2>3, <3>1 DEF Shutdown, NoChange
    <3>3. Shutdown(o).held.child = o.held.child /\ Shutdown(o).held.phase = "CANCEL_REQUESTED"
      BY <1>4, <3>2 DEF Held
    <3> QED BY <1>5, <3>1, <3>3 DEF Pretrigger
  <2>4. CASE ~Live(o) /\ ~ShutdownCancels(o) /\ ~(Working(o) /\ o.held.phase = "ACTIVATING")
    BY <1>1, <2>4 DEF Shutdown
  <2> QED BY <2>1, <2>2, <2>3, <2>4
<1>16. ASSUME NEW e PROVE KeepsCustody(o, OnLife(o, e))
  <2>1. CASE e.ev = "OrderAccepted" /\ ChildAwaited(o)
    <3>1. OnLife(o, e).held = ChildAccepted(o)
      BY <2>1 DEF OnLife
    <3>2. o.held.child /\ o.held # NoHeld
      BY <2>1 DEF ChildAwaited, NoHeld
    <3>3. /\ ChildAccepted(o).child = o.held.child
          /\ ChildAccepted(o).phase \in {"CANCEL_REQUESTED", "WORKING"}
      BY <1>4 DEF ChildAccepted, Held
    <3> QED BY <3>1, <3>2, <3>3 DEF Pretrigger
  <2>2. CASE ~(e.ev = "OrderAccepted" /\ ChildAwaited(o))
    BY <2>2 DEF OnLife, KeepHeld, NoHeld
  <2> QED BY <2>1, <2>2
<1> QED
  BY <1>1, <1>2, <1>3, <1>6, <1>8, <1>9, <1>11, <1>12, <1>13, <1>14, <1>15, <1>16

-----------------------------------------------------------------------------
(* Custody of the book *)

\* appendAndFold of changes that keep custody.
LEMMA AppendCustody ==
  ASSUME BookTypeOK, \A i \in Orders : Custody(i), UNCHANGED posts,
         NEW chg \in [Orders -> Change], AppendAndFold(chg),
         \A i \in Orders : KeepsCustody(orders[i], chg[i])
  PROVE  \A i \in Orders : Custody(i)'
<1>1. ASSUME NEW i \in Orders PROVE Custody(i)'
  <2>1. /\ orders[i] \in Order /\ logged[i] \in Order /\ chg[i] \in Change
        /\ orders[i].held = logged[i].held
        /\ orders[i].status = "NONE" <=> logged[i].status = "NONE"
        /\ Unlinked(orders[i]) /\ KeepsCustody(orders[i], chg[i])
    BY DEF BookTypeOK, Custody
  <2>2. orders'[i] = Apply(orders[i], chg[i]) /\ logged'[i] = Apply(logged[i], chg[i])
    BY DEF AppendAndFold
  <2>3. /\ orders'[i].held = logged'[i].held
        /\ orders'[i].status = "NONE" <=> logged'[i].status = "NONE"
        /\ logged[i].status # "NONE" => logged'[i].status # "NONE"
        /\ logged[i].held.child => logged'[i].held.child
        /\ Unlinked(orders'[i])
        /\ orders[i].held = NoHeld => orders'[i].held = NoHeld
    BY <2>1, <2>2, ApplyCustody
  <2> QED BY <2>3 DEF Custody, Unlinked
<1> QED
  BY <1>1

\* A change of one order that keeps its custody.
LEMMA OnlyCustody ==
  ASSUME BookTypeOK, \A i \in Orders : Custody(i), UNCHANGED posts,
         NEW i \in Orders, NEW c \in Change, KeepsCustody(orders[i], c),
         AppendAndFold(Only(i, c))
  PROVE  \A j \in Orders : Custody(j)'
<1>1. Only(i, c) \in [Orders -> Change]
  BY OnlyType
<1>2. ASSUME NEW j \in Orders PROVE KeepsCustody(orders[j], Only(i, c)[j])
  <2>1. orders[j] \in Order /\ Unlinked(orders[j])
    BY DEF BookTypeOK, Custody
  <2>2. KeepsCustody(orders[j], NoChange)
    BY <2>1, HandlersKeepCustody
  <2> QED BY <2>2 DEF Only
<1> QED
  BY <1>1, <1>2, AppendCustody

\* A broker list overlaid on the book: an order it names is already in the
\* log, whether or not the list is adopted into it.
LEMMA ReconcileCustody ==
  ASSUME BookTypeOK, \A i \in Orders : Custody(i), UNCHANGED posts,
         NEW rows \in [Orders -> Row],
         \A i \in Orders : posts[i] = 0 => ~Listed(rows[i]),
         NEW adopt \in BOOLEAN, Reconcile(rows, ConfirmListed(rows), adopt)
  PROVE  \A i \in Orders : Custody(i)'
<1>1. ASSUME NEW i \in Orders PROVE Custody(i)'
  <2> DEFINE o == Overlay(orders[i], rows[i])
             c == ConfirmListed(rows)[i]
  <2>1. orders[i] \in Order /\ logged[i] \in Order /\ rows[i] \in Row /\ Custody(i)
    BY DEF BookTypeOK
  <2>2. logged[i].status = "NONE" => ~Listed(rows[i])
    BY <2>1 DEF Custody
  <2>3. o \in Order
    BY <2>1, OverlayType
  <2>4. o.held = orders[i].held /\ (o.status = "NONE" <=> orders[i].status = "NONE")
    BY <2>1, <2>2, OverlayFacts, RowStatus DEF Custody
  <2>5. c \in Change /\ c.held.phase = "KEEP"
    <3>1. ConfirmSell(o) \in Change /\ NoChange \in Change
      BY <2>3, HeldChangeTypes, EmptyTypes
    <3>2. NoChange.held.phase = "KEEP" /\ ConfirmSell(o).held.phase = "KEEP"
      BY DEF ConfirmSell, ActionChange, NoChange, KeepHeld, NoHeld
    <3> QED BY <3>1, <3>2 DEF ConfirmListed
  <2>6. Unlinked(o) /\ KeepsCustody(o, c)
    BY <2>1, <2>4, <2>5 DEF Custody, Unlinked, KeepsCustody
  <2>7. orders'[i] = Apply(o, c) /\ logged'[i] = Apply(logged[i], c)
    <3>1. logged'[i] = Apply(IF adopt /\ logged[i].status = "NONE"
                             THEN Overlay(logged[i], rows[i]) ELSE logged[i], c)
      BY DEF Reconcile
    <3>2. logged[i].status = "NONE" => Overlay(logged[i], rows[i]) = logged[i]
      BY <2>2 DEF Overlay
    <3> QED BY <3>1, <3>2 DEF Reconcile
  <2> HIDE DEF o, c
  <2>8. /\ orders'[i].held = logged'[i].held
        /\ orders'[i].status = "NONE" <=> logged'[i].status = "NONE"
        /\ logged[i].status # "NONE" => logged'[i].status # "NONE"
        /\ logged[i].held.child => logged'[i].held.child
        /\ Unlinked(orders'[i])
        /\ o.held = NoHeld => orders'[i].held = NoHeld
    BY <2>1, <2>3, <2>4, <2>5, <2>6, <2>7, ApplyCustody DEF Custody
  <2> QED BY <2>1, <2>4, <2>8 DEF Custody, Unlinked
<1> QED
  BY <1>1

-----------------------------------------------------------------------------
(* Quiet: what happens outside the core *)

\* The stream events that say nothing of order i.
LEMMA QuietMsgTypes ==
  ASSUME NEW i \in Orders
  PROVE  /\ \A k \in MsgKinds : Msg(k) \in QuietMsgs(i)
         /\ \A ls \in [Orders -> Life] : ls[i] = NoEvent => LivesMsg(ls) \in QuietMsgs(i)
         /\ \A j \in Orders \ {i}, e \in Life : LifeMsg(j, e) \in QuietMsgs(i)
         /\ \A q \in Int : PositionMsg(q) \in QuietMsgs(i)
<1>1. \A k : Msg(k).lives[i] = NoEvent /\ ~Listed(Msg(k).rows[i])
  <2>1. ~(0 > 0)
    OBVIOUS
  <2> QED BY <2>1 DEF Msg, NoLives, NoRows, NoRow, Listed
<1>2. \A k \in MsgKinds : Msg(k) \in Msgs
  BY MsgTypes
<1>3. ASSUME NEW ls \in [Orders -> Life], ls[i] = NoEvent PROVE LivesMsg(ls) \in QuietMsgs(i)
  <2>1. LivesMsg(ls) \in Msgs
    BY MsgTypes
  <2>2. LivesMsg(ls).lives = ls /\ LivesMsg(ls).rows = Msg("Lives").rows
    BY DEF LivesMsg, Msg
  <2> QED BY <1>1, <1>3, <2>1, <2>2 DEF QuietMsgs
<1>4. ASSUME NEW j \in Orders \ {i}, NEW e \in Life PROVE LifeMsg(j, e) \in QuietMsgs(i)
  <2>1. NoLives \in [Orders -> Life] /\ NoLives[i] = NoEvent
    BY LifeTypes DEF NoLives
  <2>2. /\ [NoLives EXCEPT ![j] = e] \in [Orders -> Life]
        /\ [NoLives EXCEPT ![j] = e][i] = NoEvent
    BY <2>1
  <2> QED BY <1>3, <2>2 DEF LifeMsg
<1>5. ASSUME NEW q \in Int PROVE PositionMsg(q) \in QuietMsgs(i)
  <2>1. PositionMsg(q) \in Msgs
    BY MsgTypes
  <2>2. /\ PositionMsg(q).lives = Msg("BrokerPosition").lives
        /\ PositionMsg(q).rows = Msg("BrokerPosition").rows
    BY DEF PositionMsg, Msg
  <2> QED BY <1>1, <2>1, <2>2 DEF QuietMsgs
<1> QED
  BY <1>1, <1>2, <1>3, <1>4, <1>5 DEF QuietMsgs

\* A frame about another order (handleUpdate).
LEMMA QuietFrame ==
  ASSUME NEW i \in Orders, wire \in Seq(QuietMsgs(i)), NEW j, NEW v,
         NEW msgs \in Seq(QuietMsgs(i)), Frame(j, v, msgs)
  PROVE  wire' \in Seq(QuietMsgs(i))
<1>1. wire \o msgs \in Seq(QuietMsgs(i))
  BY ConcatProperties
<1> QED
  BY <1>1 DEF Frame

\* A request lands, fails or is refused.
LEMMA QuietDeliver ==
  ASSUME TypeInv, NEW i \in Orders, Quiet(i), NEW r \in net \cup landed, Deliver(r)
  PROVE  Quiet(i)'
<1> USE DEF TypeInv, TypeOK
<1>1. r \in Requests /\ r.id \in Orders /\ r.qty \in Qtys
  BY DEF VenueTypeOK, Requests
<1>2. net' \subseteq net /\ UNCHANGED flatJob
  BY DEF Deliver, SubmitLands, SubmitReturns, SubmitFails, ActionLands, ActionFails, Finish,
         RestOfVenue
<1>3. ~SubmitInFlight(i)' /\ ~Listed(flatJob.rows[i])'
  BY <1>2 DEF Quiet, SubmitInFlight, Listed
<1>4. r \in net /\ r.kind \in SubmitKinds => r.id # i
  BY DEF Quiet, SubmitInFlight
<1>5. venue[i].st = "none" /\ venue[i] = NoVenueOrder /\ wire \in Seq(QuietMsgs(i))
  BY DEF Quiet, NoVenueOrder
<1>6. CASE SubmitLands(r)
  <2>1. venue' = [venue EXCEPT ![r.id] = Landed(r)] /\ r.id # i
    BY <1>4, <1>6 DEF SubmitLands
  <2>2. venue'[i] = NoVenueOrder
    BY <1>5, <2>1 DEF VenueTypeOK
  <2>3. LifeMsg(r.id, LifeEvent("OrderAccepted")) \in QuietMsgs(i)
    BY <1>1, <2>1, LifeTypes, QuietMsgTypes DEF LifeKinds
  <2>4. wire' \in Seq(QuietMsgs(i))
    BY <1>5, <1>6, <2>3, AppendProperties DEF SubmitLands
  <2> QED BY <1>3, <2>2, <2>4 DEF Quiet, QuietMsgs
<1>7. CASE SubmitFails(r)
  <2>1. UNCHANGED venue /\ r.id # i
    BY <1>4, <1>7 DEF SubmitFails
  <2>2. LifeMsg(r.id, LifeEvent("OrderRejected")) \in QuietMsgs(i)
    BY <1>1, <2>1, LifeTypes, QuietMsgTypes DEF LifeKinds
  <2>3. wire' \in Seq(QuietMsgs(i))
    BY <1>5, <1>7, <2>2, AppendProperties DEF SubmitFails
  <2> QED BY <1>3, <1>5, <2>1, <2>3 DEF Quiet, QuietMsgs
<1>8. CASE ActionLands(r)
  <2> DEFINE v == IF r.kind = "CANCEL" THEN [venue[r.id] EXCEPT !.st = "canceled"]
                                       ELSE [venue[r.id] EXCEPT !.qty = r.qty]
             e == IF r.kind = "CANCEL" THEN LifeEvent("OrderCanceled") ELSE ReplaceEvent(r.qty)
  <2>1. /\ venue' = [venue EXCEPT ![r.id] = v]
        /\ Frame(r.id, v, <<LifeMsg(r.id, e)>>)
        /\ venue[r.id].st = "open"
    BY <1>8 DEF ActionLands, CanDo, OpenAt
  <2>2. r.id # i
    BY <1>5, <2>1
  <2>3. venue'[i] = NoVenueOrder
    BY <1>5, <2>1, <2>2 DEF VenueTypeOK
  <2>4. e \in Life
    BY <1>1, LifeTypes DEF LifeKinds
  <2>5. LifeMsg(r.id, e) \in QuietMsgs(i)
    BY <1>1, <2>2, <2>4, QuietMsgTypes
  <2> HIDE DEF v, e
  <2>6. wire' \in Seq(QuietMsgs(i))
    <3>1. <<LifeMsg(r.id, e)>> \in Seq(QuietMsgs(i))
      BY <2>5
    <3> QED BY <1>5, <2>1, <3>1, QuietFrame
  <2> QED BY <1>3, <2>3, <2>6 DEF Quiet, QuietMsgs
<1>9. CASE ActionFails(r)
  BY <1>3, <1>5, <1>9 DEF ActionFails, NoFrame, Quiet, QuietMsgs
<1>10. CASE SubmitReturns(r)
  BY <1>3, <1>5, <1>10 DEF SubmitReturns, Quiet, QuietMsgs
<1> QED
  BY <1>6, <1>7, <1>8, <1>9, <1>10 DEF Deliver

\* The broker fills or ends an order, and the stream drops or reconciles.
LEMMA QuietBroker ==
  ASSUME TypeInv, NEW i \in Orders, Quiet(i),
         BrokerNext \/ Drop \/ Connect \/ FlattenCloses \/ FlattenReads
  PROVE  Quiet(i)'
<1> USE DEF TypeInv, TypeOK
<1>1. /\ venue[i].st = "none" /\ venue[i].exec = 0 /\ venue[i] = NoVenueOrder
      /\ wire \in Seq(QuietMsgs(i)) /\ ~Listed(flatJob.rows[i])
  BY DEF Quiet, NoVenueOrder
<1>2. \A rows \in Readings : ~Listed(rows[i])
  <2>1. ~(0 > 0)
    OBVIOUS
  <2> QED BY <1>1, <2>1, ReadingsTell DEF OpenAt, NoRow, Listed
<1>3. ~Listed(IdleJob.rows[i])
  <2>1. ~(0 > 0)
    OBVIOUS
  <2> QED BY <2>1 DEF IdleJob, NoRows, NoRow, Listed
<1>4. ASSUME NEW j \in Orders, Fill(j) PROVE Quiet(i)'
  <2> DEFINE v == [venue[j] EXCEPT
                     !.exec = @ + 1,
                     !.st = IF venue[j].exec + 1 = venue[j].qty THEN "filled" ELSE "open"]
             s == IF j \in Sells THEN shares - 1 ELSE shares + 1
             e == FillEvent(v.exec, v.qty - v.exec)
  <2>1. /\ venue' = [venue EXCEPT ![j] = v] /\ venue[j].st = "open"
        /\ Frame(j, v, <<LifeMsg(j, e), PositionMsg(s)>>)
        /\ UNCHANGED <<net, flatJob>>
        /\ venue[j].exec < venue[j].qty
    BY <1>4 DEF Fill, OpenAt
  <2>2. j # i
    BY <1>1, <2>1
  <2>3. s \in Int /\ venue[j] \in VenueOrder
    BY DEF VenueTypeOK
  <2>4. e \in Life
    <3>1. v.exec = venue[j].exec + 1 /\ v.qty = venue[j].qty
      BY <2>3 DEF VenueOrder
    <3>2. venue[j].exec \in Nat /\ venue[j].qty \in Nat /\ venue[j].qty <= MaxQty
      BY <2>3, QtyAssumption DEF VenueOrder, Qtys
    <3>3. v.exec \in Qtys /\ v.qty - v.exec \in Qtys
      BY <2>1, <3>1, <3>2, QtyAssumption DEF Qtys
    <3> QED BY <3>3, LifeTypes
  <2>5. LifeMsg(j, e) \in QuietMsgs(i) /\ PositionMsg(s) \in QuietMsgs(i)
    BY <2>2, <2>3, <2>4, QuietMsgTypes
  <2> HIDE DEF v, s, e
  <2>6. wire' \in Seq(QuietMsgs(i))
    <3>1. <<LifeMsg(j, e), PositionMsg(s)>> \in Seq(QuietMsgs(i))
      BY <2>5
    <3> QED BY <1>1, <2>1, <3>1, QuietFrame
  <2>7. venue'[i] = NoVenueOrder
    BY <1>1, <2>1, <2>2 DEF VenueTypeOK
  <2> QED BY <2>1, <2>6, <2>7 DEF Quiet, QuietMsgs, SubmitInFlight
<1>5. ASSUME NEW j \in Orders, VenueExpires(j) PROVE Quiet(i)'
  <2> DEFINE v == [venue[j] EXCEPT !.st = "expired"]
  <2>1. /\ venue' = [venue EXCEPT ![j] = v] /\ venue[j].st = "open"
        /\ Frame(j, v, <<LifeMsg(j, LifeEvent("OrderExpired"))>>)
        /\ UNCHANGED <<net, flatJob>>
    BY <1>5 DEF VenueExpires, OpenAt
  <2>2. j # i
    BY <1>1, <2>1
  <2>3. LifeMsg(j, LifeEvent("OrderExpired")) \in QuietMsgs(i)
    BY <2>2, LifeTypes, QuietMsgTypes DEF LifeKinds
  <2> HIDE DEF v
  <2>4. wire' \in Seq(QuietMsgs(i))
    <3>1. <<LifeMsg(j, LifeEvent("OrderExpired"))>> \in Seq(QuietMsgs(i))
      BY <2>3
    <3> QED BY <1>1, <2>1, <3>1, QuietFrame
  <2>5. venue'[i] = NoVenueOrder
    BY <1>1, <2>1, <2>2 DEF VenueTypeOK
  <2> QED BY <2>1, <2>4, <2>5 DEF Quiet, QuietMsgs, SubmitInFlight
<1>6. CASE CloseFills
  <2>1. Append(wire, PositionMsg(0)) \in Seq(QuietMsgs(i))
    BY <1>1, QuietMsgTypes, AppendProperties
  <2>2. wire' \in Seq(QuietMsgs(i)) /\ UNCHANGED <<venue, net, flatJob>>
    BY <1>1, <1>6, <2>1 DEF CloseFills
  <2> QED BY <1>1, <2>2 DEF Quiet, QuietMsgs, SubmitInFlight
<1>7. CASE Drop
  <2>1. Append(wire, Msg("BrokerConnDown")) \in Seq(QuietMsgs(i))
    BY <1>1, QuietMsgTypes, AppendProperties DEF MsgKinds
  <2>2. wire' \in Seq(QuietMsgs(i)) /\ UNCHANGED <<venue, net, flatJob>>
    BY <1>7, <2>1 DEF Drop
  <2> QED BY <1>1, <2>2 DEF Quiet, QuietMsgs, SubmitInFlight
<1>8. CASE Connect
  <2>1. MissedFills \in [Orders -> Life] /\ MissedFills[i] = NoEvent
    <3>1. ASSUME NEW j \in Orders
          PROVE  FillEvent(venue[j].exec, Minus(venue[j].qty, venue[j].exec)) \in Life
      <4>1. venue[j].exec \in Qtys /\ venue[j].qty \in Qtys
        BY DEF VenueTypeOK, VenueOrder
      <4>2. Minus(venue[j].qty, venue[j].exec) \in Qtys
        BY <4>1, QtyAssumption DEF Minus, Qtys
      <4> QED BY <4>1, <4>2, LifeTypes
    <3>2. ~(venue[i].exec > seenQty[i])
      <4>1. seenQty[i] \in Nat
        BY QtyAssumption DEF VenueTypeOK, Qtys
      <4> QED BY <1>1, <4>1
    <3> QED BY <3>1, <3>2, LifeTypes DEF MissedFills
  <2>2. MissedEnds \in [Orders -> Life] /\ MissedEnds[i] = NoEvent
    <3>1. LifeEvent("OrderCanceled") \in Life /\ LifeEvent("OrderExpired") \in Life
      BY LifeTypes DEF LifeKinds
    <3> QED BY <1>1, <3>1, LifeTypes DEF MissedEnds
  <2>3. <<Msg("StreamGap"), LivesMsg(MissedFills), LivesMsg(MissedEnds)>> \in Seq(QuietMsgs(i))
    BY <2>1, <2>2, QuietMsgTypes DEF MsgKinds
  <2>4. [Msg("BrokerPositions") EXCEPT !.qty = shares] \in QuietMsgs(i)
    <3>1. Msg("BrokerPositions") \in QuietMsgs(i)
      BY QuietMsgTypes DEF MsgKinds
    <3> QED BY <3>1 DEF QuietMsgs, Msgs, VenueTypeOK
  <2>5. ASSUME NEW rows \in Readings PROVE ReconcileMsgs(rows) \in Seq(QuietMsgs(i))
    <3>1. [Msg("BrokerOpenOrders") EXCEPT !.rows = rows] \in QuietMsgs(i)
      <4>1. Msg("BrokerOpenOrders") \in QuietMsgs(i)
        BY QuietMsgTypes DEF MsgKinds
      <4>2. rows \in [Orders -> Row] /\ ~Listed(rows[i])
        BY <1>2, RowsType
      <4> QED BY <4>1, <4>2 DEF QuietMsgs, Msgs
    <3>2. <<[Msg("BrokerPositions") EXCEPT !.qty = shares],
            [Msg("BrokerOpenOrders") EXCEPT !.rows = rows]>> \in Seq(QuietMsgs(i))
      BY <2>4, <3>1
    <3>3. <<>> \in Seq(QuietMsgs(i))
      BY EmptySeq
    <3> QED BY <2>3, <3>2, <3>3, ConcatProperties DEF ReconcileMsgs
  <2>6. Append(wire, Msg("BrokerConnUp")) \in Seq(QuietMsgs(i))
    BY <1>1, QuietMsgTypes, AppendProperties DEF MsgKinds
  <2>7. \A rows \in Readings :
          Append(wire, Msg("BrokerConnUp")) \o ReconcileMsgs(rows) \in Seq(QuietMsgs(i))
    BY <2>5, <2>6, ConcatProperties
  <2>8. \/ ReconcileFails
        \/ \E rows \in Readings :
              wire' = Append(wire, Msg("BrokerConnUp")) \o ReconcileMsgs(rows)
    BY <1>8 DEF Connect, ReconcileSucceeds
  <2>9. wire' \in Seq(QuietMsgs(i)) /\ UNCHANGED <<venue, net, flatJob>>
    BY <1>8, <2>6, <2>7, <2>8 DEF Connect, ReconcileFails
  <2> QED BY <1>1, <2>9 DEF Quiet, QuietMsgs, SubmitInFlight
<1>9. CASE FlattenCloses
  <2>1. flatJob'.rows = flatJob.rows /\ UNCHANGED <<venue, net, wire>>
    BY <1>9 DEF FlattenCloses, VenueTypeOK, FlatJobs
  <2> QED BY <1>1, <2>1 DEF Quiet, QuietMsgs, SubmitInFlight, Listed
<1>10. CASE FlattenReads
  <2>1. ~Listed(flatJob'.rows[i]) /\ UNCHANGED <<venue, net, wire>>
    BY <1>2, <1>3, <1>10 DEF FlattenReads
  <2> QED BY <1>1, <2>1 DEF Quiet, QuietMsgs, SubmitInFlight, Listed
<1> QED
  BY <1>4, <1>5, <1>6, <1>7, <1>8, <1>9, <1>10 DEF BrokerNext

-----------------------------------------------------------------------------
(* The steps of the core *)

\* Cancels and replaces create no order; a handler takes at most the first
\* event off the inbox.
NoNewSubmit == \A r \in net' : r \in net \/ r.kind \notin SubmitKinds
LEMMA QuietHandler ==
  ASSUME NEW i \in Orders, Quiet(i), UNCHANGED venue,
         \A r \in net' : r \in net \/ r.kind \notin SubmitKinds \/ r.id # i,
         ~Listed(flatJob'.rows[i]), wire' \in Seq(QuietMsgs(i))
  PROVE  Quiet(i)'
BY DEF Quiet, QuietMsgs, SubmitInFlight, Listed

\* A handler that leaves the inbox and the job of a Flatten alone, and only
\* cancels or replaces at the broker.
LEMMA QuietKept ==
  ASSUME CustodyInv, UNCHANGED <<venue, flatJob, wire, posts>>, NoNewSubmit
  PROVE  \A i \in Orders : (posts[i] = 0 => Quiet(i))'
<1>1. ASSUME NEW i \in Orders, posts'[i] = 0 PROVE Quiet(i)'
  <2>1. Quiet(i) /\ ~Listed(flatJob.rows[i]) /\ wire \in Seq(QuietMsgs(i))
    BY <1>1 DEF CustodyInv, Quiet
  <2> QED BY <2>1, QuietHandler DEF NoNewSubmit, Listed
<1> QED
  BY <1>1

\* What a handler sends that is no submission.
LEMMA SendsNoSubmit ==
  /\ \A ids : Send(Cancels(ids)) => NoNewSubmit
  /\ \A i, q : Send({Request("REPLACE", i, q)}) => NoNewSubmit
  /\ Send({}) => NoNewSubmit
  /\ UNCHANGED net => NoNewSubmit
BY DEF Send, NoNewSubmit, Cancels, Request, SubmitKinds

\* The submission of an order (handleSubmit): the id is new, so nothing was
\* POSTed for it, and the log holds it before the POST starts.
LEMMA SubmitCustody ==
  ASSUME IInv, NEW i \in Orders, SubmitNative(i) \/ SubmitHeld(i)
  PROVE  CustodyInv'
<1> USE DEF IInv
<1>0. /\ TypeInv /\ VenueTypeOK /\ CoreTypeOK /\ BookTypeOK /\ posts \in [Orders -> Nat]
      /\ \A j \in Orders : Custody(j) /\ (posts[j] = 0 => Quiet(j))
  BY DEF TypeInv, TypeOK, CoreTypeOK, BookTypeOK, CustodyInv
<1>1. orders[i].status = "NONE" /\ posts[i] = 0
  <2>1. orders[i].status = "NONE"
    BY DEF SubmitNative, SubmitHeld
  <2> QED BY <1>0, <2>1 DEF Custody
<1>2. ASSUME NEW o \in Order, AppendSubmitted(i, o), o.status # "NONE", Unlinked(o),
             i \notin HeldIds => o.held = NoHeld,
             posts' = posts \/ (posts' = [posts EXCEPT ![i] = @ + 1] /\ i \notin HeldIds)
      PROVE  \A j \in Orders : Custody(j)'
  <2>1. orders' = [orders EXCEPT ![i] = o] /\ logged' = [logged EXCEPT ![i] = o]
    BY <1>2 DEF AppendSubmitted
  <2>2. ASSUME NEW j \in Orders PROVE Custody(j)'
    <3>1. CASE j # i
      <4>1. orders'[j] = orders[j] /\ logged'[j] = logged[j] /\ posts'[j] = posts[j]
        BY <1>0, <1>2, <2>1, <3>1 DEF BookTypeOK
      <4> QED BY <1>0, <4>1 DEF Custody
    <3>2. CASE j = i
      <4>1. orders'[i] = o /\ logged'[i] = o /\ posts'[i] \in {0, 1}
        BY <1>0, <1>1, <1>2, <2>1 DEF BookTypeOK
      <4>2. posts'[i] # 0 => i \notin HeldIds
        BY <1>0, <1>1, <1>2
      <4>3. posts'[i] <= 1
        BY <4>1
      <4> QED BY <1>2, <3>2, <4>1, <4>2, <4>3 DEF Custody, Unlinked
    <3> QED BY <3>1, <3>2
  <2> QED BY <2>2
<1>3. NoHeld.phase \notin Pretrigger /\ NoHeld.child = FALSE
  BY DEF NoHeld, Pretrigger
<1>4. \A q, a, h : NewOrder(q, a, h).held = h /\ NewOrder(q, a, h).status = "SUBMITTED"
  BY DEF NewOrder, NoOrder
<1>5. \A q : BlockedOrder(q).held = NoHeld /\ BlockedOrder(q).status = "BLOCKED"
  BY DEF BlockedOrder, NoOrder
<1>6. \A q \in 1 .. MaxQty : q \in Qtys
  BY QtyAssumption DEF Qtys
<1>7. CASE SubmitNative(i)
  <2>1. PICK q \in 1 .. MaxQty, gate \in BOOLEAN :
          LET guarded == Guarded(i)
              a == IF guarded THEN Requested("SUBMIT", 0) ELSE NoAction
          IN  /\ i \notin HeldIds
              /\ IF armed /\ gate
                 THEN /\ guarded => LeavesOk(i, q)
                      /\ AppendSubmitted(i, NewOrder(q, a, NoHeld))
                      /\ Send({Request(IF guarded THEN "GUARDED" ELSE "SUBMIT", i, q)})
                      /\ posts' = [posts EXCEPT ![i] = @ + 1]
                 ELSE /\ AppendSubmitted(i, BlockedOrder(q))
                      /\ UNCHANGED <<net, posts>>
              /\ UNCHANGED <<outside, outcomes, flatJob, wire, up, position, ready,
                             flattenPending, armed, clockVars, scan>>
    BY <1>7 DEF SubmitNative
  <2> DEFINE a == IF Guarded(i) THEN Requested("SUBMIT", 0) ELSE NoAction
             r == Request(IF Guarded(i) THEN "GUARDED" ELSE "SUBMIT", i, q)
  <2>2. NewOrder(q, a, NoHeld) \in Order /\ BlockedOrder(q) \in Order
    <3>1. a \in Action /\ q \in Qtys
      BY <1>6, EmptyTypes, ChangeTypes DEF ActionKinds
    <3> QED BY <3>1, EmptyTypes, NewOrderType
  <2>3. \A j \in Orders : Custody(j)'
    <3>1. CASE armed /\ gate
      <4>1. /\ AppendSubmitted(i, NewOrder(q, a, NoHeld))
            /\ posts' = [posts EXCEPT ![i] = @ + 1] /\ i \notin HeldIds
        BY <2>1, <3>1
      <4>2. /\ NewOrder(q, a, NoHeld).status # "NONE" /\ Unlinked(NewOrder(q, a, NoHeld))
            /\ NewOrder(q, a, NoHeld).held = NoHeld
        BY <1>3, <1>4 DEF Unlinked
      <4> QED BY <1>2, <2>2, <4>1, <4>2
    <3>2. CASE ~(armed /\ gate)
      <4>1. AppendSubmitted(i, BlockedOrder(q)) /\ posts' = posts
        BY <2>1, <3>2
      <4>2. /\ BlockedOrder(q).status # "NONE" /\ Unlinked(BlockedOrder(q))
            /\ BlockedOrder(q).held = NoHeld
        BY <1>3, <1>5 DEF Unlinked
      <4> QED BY <1>2, <2>2, <4>1, <4>2
    <3> QED BY <3>1, <3>2
  <2>4. ASSUME NEW j \in Orders, posts'[j] = 0 PROVE Quiet(j)'
    <3>1. UNCHANGED <<venue, flatJob, wire>>
      BY <2>1 DEF outside, brokerVars
    <3>2. posts[j] = 0 /\ (net' = net \/ (net' = net \cup {r} /\ j # i))
      BY <1>0, <2>1, <2>4 DEF Send
    <3>3. Quiet(j) /\ ~Listed(flatJob.rows[j]) /\ wire \in Seq(QuietMsgs(j))
      BY <1>0, <3>2 DEF Quiet
    <3>4. r.id = i
      BY DEF Request
    <3> QED BY <3>1, <3>2, <3>3, <3>4, QuietHandler DEF Listed
  <2> QED BY <2>3, <2>4 DEF CustodyInv
<1>8. CASE SubmitHeld(i)
  <2> DEFINE h == [NoHeld EXCEPT !.phase = "WAITING", !.after = now]
  <2>1. PICK q \in 1 .. MaxQty, gate \in BOOLEAN :
          /\ i \in HeldIds
          /\ \/ AppendSubmitted(i, NewOrder(q, NoAction, h))
             \/ AppendSubmitted(i, BlockedOrder(q))
          /\ UNCHANGED <<venueVars, posts>>
    BY <1>8 DEF SubmitHeld
  <2>2. h \in Held /\ h.child = FALSE
    BY <1>0, EmptyTypes DEF NoHeld, CoreTypeOK, Held, HeldPhases, Pretrigger
  <2>3. NewOrder(q, NoAction, h) \in Order /\ BlockedOrder(q) \in Order
    BY <1>6, <2>2, EmptyTypes, NewOrderType
  <2>4. \A j \in Orders : Custody(j)'
    <3>1. CASE AppendSubmitted(i, NewOrder(q, NoAction, h))
      <4>1. /\ NewOrder(q, NoAction, h).status = "SUBMITTED"
            /\ NewOrder(q, NoAction, h).held = h
        BY <1>4
      <4>2. NewOrder(q, NoAction, h).held.child = FALSE
        BY <2>2, <4>1
      <4>3. NewOrder(q, NoAction, h).status # "NONE" /\ Unlinked(NewOrder(q, NoAction, h))
        BY <4>1, <4>2 DEF Unlinked
      <4> QED BY <1>2, <2>1, <2>3, <3>1, <4>3
    <3>2. CASE AppendSubmitted(i, BlockedOrder(q))
      <4>1. BlockedOrder(q).status # "NONE" /\ Unlinked(BlockedOrder(q))
        BY <1>3, <1>5 DEF Unlinked
      <4> QED BY <1>2, <2>1, <2>3, <3>2, <4>1
    <3> QED BY <2>1, <3>1, <3>2
  <2>5. \A j \in Orders : (posts[j] = 0 => Quiet(j))'
    <3>1. UNCHANGED <<venue, flatJob, wire, posts>> /\ NoNewSubmit
      BY <2>1, SendsNoSubmit DEF venueVars, brokerVars
    <3> QED BY <3>1, QuietKept
  <2> QED BY <2>4, <2>5 DEF CustodyInv
<1> QED
  BY <1>7, <1>8

\* The commands about an order that exists.
LEMMA OrderCommandCustody ==
  ASSUME IInv, OrderCommand
  PROVE  CustodyInv'
<1> USE DEF IInv
<1>0. /\ TypeInv /\ VenueTypeOK /\ CoreTypeOK /\ BookTypeOK
      /\ \A j \in Orders : Custody(j)
      /\ \A j \in Orders : orders[j] \in Order /\ Unlinked(orders[j])
  BY DEF TypeInv, TypeOK, CoreTypeOK, BookTypeOK, CustodyInv, Custody
<1>1. \A q \in 1 .. MaxQty : q \in Qtys
  BY QtyAssumption DEF Qtys
<1>2. CASE \E i \in Orders : SubmitNative(i) \/ SubmitHeld(i)
  BY <1>2, SubmitCustody
<1>3. ASSUME NEW i \in Orders, CancelOrder(i) PROVE CustodyInv'
  <2>1. Cancel(orders[i]) \in Change /\ KeepsCustody(orders[i], Cancel(orders[i]))
    BY <1>0, HandlerTypes, HandlersKeepCustody
  <2>2. AppendAndFold(Only(i, Cancel(orders[i]))) /\ UNCHANGED posts
    BY <1>3 DEF CancelOrder
  <2>3. \A j \in Orders : Custody(j)'
    BY <1>0, <2>1, <2>2, OnlyCustody
  <2>4. UNCHANGED <<venue, flatJob, wire, posts>> /\ NoNewSubmit
    BY <1>3, SendsNoSubmit DEF CancelOrder, outside, brokerVars
  <2> QED BY <2>3, <2>4, QuietKept DEF CustodyInv
<1>4. ASSUME NEW i \in Orders, ReplaceOrder(i) PROVE CustodyInv'
  <2>1. PICK q \in 1 .. MaxQty :
          /\ AppendAndFold(Only(i, ActionChange(Requested("REPLACE", q))))
          /\ Send({Request("REPLACE", i, q)})
          /\ UNCHANGED <<outside, flatJob, wire, posts>>
    BY <1>4 DEF ReplaceOrder
  <2> DEFINE c == ActionChange(Requested("REPLACE", q))
  <2>2. c \in Change /\ KeepsCustody(orders[i], c)
    BY <1>0, <1>1, ChangeTypes, HandlersKeepCustody DEF ActionKinds
  <2>3. \A j \in Orders : Custody(j)'
    BY <1>0, <2>1, <2>2, OnlyCustody
  <2>4. UNCHANGED <<venue, flatJob, wire, posts>> /\ NoNewSubmit
    BY <2>1, SendsNoSubmit DEF outside, brokerVars
  <2> QED BY <2>3, <2>4, QuietKept DEF CustodyInv
<1>5. ASSUME NEW i \in Orders, ReplaceHeld(i) PROVE CustodyInv'
  <2>1. PICK q \in 1 .. MaxQty :
          /\ AppendAndFold(Only(i, LifeChange(ReplaceEvent(q))))
          /\ UNCHANGED <<venueVars, posts>>
    BY <1>5 DEF ReplaceHeld
  <2> DEFINE c == LifeChange(ReplaceEvent(q))
  <2>2. c \in Change /\ KeepsCustody(orders[i], c)
    BY <1>0, <1>1, LifeTypes, ChangeTypes, HandlersKeepCustody
  <2>3. \A j \in Orders : Custody(j)'
    BY <1>0, <2>1, <2>2, OnlyCustody
  <2>4. UNCHANGED <<venue, flatJob, wire, posts>> /\ NoNewSubmit
    BY <2>1, SendsNoSubmit DEF venueVars, brokerVars
  <2> QED BY <2>3, <2>4, QuietKept DEF CustodyInv
<1>6. ASSUME NEW i \in Orders, ResumeHeld(i) PROVE CustodyInv'
  <2> DEFINE h == [orders[i].held EXCEPT !.phase = "WAITING", !.cancelRequested = FALSE,
                                         !.after = now]
             c == IF now >= Deadline THEN LifeChange(LifeEvent("OrderExpired"))
                                     ELSE HeldChange(h)
  <2>1. /\ AppendAndFold(Only(i, c)) /\ orders[i].held.phase = "PAUSED"
        /\ UNCHANGED <<venueVars, posts>>
    BY <1>6 DEF ResumeHeld
  <2>2. orders[i].held \in Held /\ now \in 0 .. MaxClock /\ ~orders[i].held.child
    BY <1>0, <2>1 DEF CoreTypeOK, Order, Unlinked, Pretrigger
  <2>3. h \in Held /\ h.child = FALSE
    BY <2>2 DEF Held, HeldPhases, Pretrigger
  <2>4. HeldChange(h) \in Change /\ KeepsCustody(orders[i], HeldChange(h))
    <3>1. HeldChange(h) \in Change
      BY <2>3, ChangeTypes
    <3>2. HeldChange(h).held = h
      BY DEF HeldChange, NoChange
    <3>3. orders[i].held # NoHeld
      BY <2>1 DEF NoHeld
    <3> HIDE DEF h
    <3> QED BY <2>2, <2>3, <3>1, <3>2, <3>3 DEF KeepsCustody
  <2>5. /\ LifeChange(LifeEvent("OrderExpired")) \in Change
        /\ KeepsCustody(orders[i], LifeChange(LifeEvent("OrderExpired")))
    BY <1>0, LifeTypes, ChangeTypes, HandlersKeepCustody DEF LifeKinds
  <2>6. c \in Change /\ KeepsCustody(orders[i], c)
    BY <2>4, <2>5
  <2>7. \A j \in Orders : Custody(j)'
    BY <1>0, <2>1, <2>6, OnlyCustody
  <2>8. UNCHANGED <<venue, flatJob, wire, posts>> /\ NoNewSubmit
    BY <2>1, SendsNoSubmit DEF venueVars, brokerVars
  <2> QED BY <2>7, <2>8, QuietKept DEF CustodyInv
<1> QED
  BY <1>2, <1>3, <1>4, <1>5, <1>6 DEF OrderCommand

\* The commands about the account, and the held timer.
LEMMA AccountCommandCustody ==
  ASSUME IInv, AccountCommand \/ ExpireHeldOrders
  PROVE  CustodyInv'
<1> USE DEF IInv
<1>0. /\ TypeInv /\ VenueTypeOK /\ CoreTypeOK /\ BookTypeOK
      /\ \A j \in Orders : Custody(j)
      /\ \A j \in Orders : orders[j] \in Order /\ Unlinked(orders[j])
  BY DEF TypeInv, TypeOK, CoreTypeOK, BookTypeOK, CustodyInv, Custody
<1>1. CASE Arm \/ AutoDisarm
  <2>1. UNCHANGED <<venue, flatJob, wire, posts, orders, logged, net>>
    BY <1>1 DEF Arm, AutoDisarm, venueVars, brokerVars, bookVars
  <2>2. \A j \in Orders : Custody(j)'
    BY <1>0, <2>1 DEF Custody
  <2> QED BY <2>1, <2>2, QuietKept, SendsNoSubmit DEF CustodyInv
<1>2. CASE DisarmMaster
  <2> DEFINE chg == [i \in Orders |-> Disarm(orders[i], FALSE)]
  <2>1. chg \in [Orders -> Change] /\ \A i \in Orders : KeepsCustody(orders[i], chg[i])
    BY <1>0, HandlerTypes, HandlersKeepCustody
  <2>2. AppendAndFold(chg) /\ UNCHANGED <<venueVars, posts>>
    BY <1>2 DEF DisarmMaster
  <2> HIDE DEF chg
  <2>3. \A j \in Orders : Custody(j)'
    BY <1>0, <2>1, <2>2, AppendCustody
  <2>4. UNCHANGED <<venue, flatJob, wire, posts>> /\ NoNewSubmit
    BY <2>2, SendsNoSubmit DEF venueVars, brokerVars
  <2> QED BY <2>3, <2>4, QuietKept DEF CustodyInv
<1>3. CASE KillSwitch
  <2> DEFINE chg == [i \in Orders |-> Kill(orders[i])]
  <2>1. chg \in [Orders -> Change] /\ \A i \in Orders : KeepsCustody(orders[i], chg[i])
    BY <1>0, HandlerTypes, HandlersKeepCustody
  <2>2. AppendAndFold(chg) /\ UNCHANGED posts
    BY <1>3 DEF KillSwitch
  <2> HIDE DEF chg
  <2>3. \A j \in Orders : Custody(j)'
    BY <1>0, <2>1, <2>2, AppendCustody
  <2>4. UNCHANGED <<venue, flatJob, wire, posts>> /\ NoNewSubmit
    BY <1>3, SendsNoSubmit DEF KillSwitch, outside, brokerVars
  <2> QED BY <2>3, <2>4, QuietKept DEF CustodyInv
<1>4. CASE Flatten
  <2> DEFINE chg == [i \in Orders |-> IF Guarded(i) THEN Pause(orders[i]) ELSE NoChange]
  <2>1. chg \in [Orders -> Change] /\ \A i \in Orders : KeepsCustody(orders[i], chg[i])
    BY <1>0, HeldChangeTypes, EmptyTypes, HandlersKeepCustody
  <2>2. AppendAndFold(chg) /\ UNCHANGED posts
    BY <1>4 DEF Flatten
  <2> HIDE DEF chg
  <2>3. \A j \in Orders : Custody(j)'
    BY <1>0, <2>1, <2>2, AppendCustody
  <2>4. UNCHANGED <<venue, wire, net, posts>> /\ flatJob' = [IdleJob EXCEPT !.st = "close"]
    BY <1>4 DEF Flatten, outside, brokerVars
  <2>5. ASSUME NEW i \in Orders, posts'[i] = 0 PROVE Quiet(i)'
    <3>1. Quiet(i) /\ wire' \in Seq(QuietMsgs(i))
      BY <2>4, <2>5 DEF CustodyInv, Quiet
    <3>2. ~Listed(flatJob'.rows[i])
      <4>1. ~(0 > 0)
        OBVIOUS
      <4> QED BY <2>4, <4>1 DEF IdleJob, NoRows, NoRow, Listed
    <3> QED BY <2>4, <3>1, <3>2, QuietHandler
  <2> QED BY <2>3, <2>5 DEF CustodyInv
<1>5. CASE ExpireHeldOrders
  <2> DEFINE chg == [i \in Orders |-> Expire(orders[i])]
  <2>1. chg \in [Orders -> Change] /\ \A i \in Orders : KeepsCustody(orders[i], chg[i])
    BY <1>0, HandlerTypes, HandlersKeepCustody
  <2>2. AppendAndFold(chg) /\ UNCHANGED posts
    BY <1>5 DEF ExpireHeldOrders
  <2> HIDE DEF chg
  <2>3. \A j \in Orders : Custody(j)'
    BY <1>0, <2>1, <2>2, AppendCustody
  <2>4. UNCHANGED <<venue, flatJob, wire, posts>> /\ NoNewSubmit
    BY <1>5, SendsNoSubmit DEF ExpireHeldOrders, outside, brokerVars
  <2> QED BY <2>3, <2>4, QuietKept DEF CustodyInv
<1> QED
  BY <1>1, <1>2, <1>3, <1>4, <1>5 DEF AccountCommand

\* The broker events: each is taken off the inbox, and a list or a lifecycle
\* event touches only orders that were POSTed.
LEMMA StreamEventCustody ==
  ASSUME IInv, StreamEvent
  PROVE  CustodyInv'
<1> USE DEF IInv
<1>0. /\ TypeInv /\ VenueTypeOK /\ CoreTypeOK /\ BookTypeOK
      /\ \A j \in Orders : Custody(j)
      /\ \A j \in Orders : orders[j] \in Order /\ Unlinked(orders[j])
  BY DEF TypeInv, TypeOK, CoreTypeOK, BookTypeOK, CustodyInv, Custody
<1>1. ASSUME NEW k, Receive(k), NoNewSubmit, UNCHANGED <<venue, flatJob, posts>>
      PROVE  \A i \in Orders : (posts[i] = 0 => Quiet(i))'
  <2>1. ASSUME NEW i \in Orders, posts'[i] = 0 PROVE Quiet(i)'
    <3>1. Quiet(i) /\ wire \in Seq(QuietMsgs(i)) /\ ~Listed(flatJob.rows[i])
      BY <1>1, <2>1 DEF CustodyInv, Quiet
    <3>2. wire # <<>> /\ wire' = Tail(wire)
      BY <1>1 DEF Receive
    <3>3. wire' \in Seq(QuietMsgs(i))
      BY <3>1, <3>2, HeadTailProperties
    <3> QED BY <1>1, <3>1, <3>3, QuietHandler DEF NoNewSubmit, Listed
  <2> QED BY <2>1
<1>2. CASE OnLives
  <2> DEFINE ls == Head(wire).lives
             chg == [i \in Orders |-> OnLife(orders[i], ls[i])]
  <2>1. Receive("Lives") /\ FoldLives(ls) /\ UNCHANGED <<outside, flatJob, posts>>
    BY <1>2 DEF OnLives
  <2>2. ls \in [Orders -> Life]
    BY <1>0, <2>1, ReceiveType DEF Msgs
  <2>3. chg \in [Orders -> Change] /\ \A i \in Orders : KeepsCustody(orders[i], chg[i])
    BY <1>0, <2>2, HandlerTypes, HandlersKeepCustody
  <2>4. AppendAndFold(chg) /\ NoNewSubmit
    BY <2>1, SendsNoSubmit DEF FoldLives
  <2> HIDE DEF chg, ls
  <2>5. \A j \in Orders : Custody(j)'
    BY <1>0, <2>1, <2>3, <2>4, AppendCustody
  <2>6. \A i \in Orders : (posts[i] = 0 => Quiet(i))'
    BY <1>1, <2>1, <2>4 DEF outside, brokerVars
  <2> QED BY <2>5, <2>6 DEF CustodyInv
<1>3. CASE OnPosition \/ OnPositions
  <2>1. /\ \E k : Receive(k)
        /\ UNCHANGED <<venue, net, flatJob, posts, orders, logged>>
    BY <1>3 DEF OnPosition, OnPositions, outside, brokerVars, bookVars
  <2>2. \A j \in Orders : Custody(j)'
    BY <1>0, <2>1 DEF Custody
  <2>3. NoNewSubmit
    BY <2>1, SendsNoSubmit
  <2> QED BY <1>1, <2>1, <2>2, <2>3 DEF CustodyInv
<1>4. CASE OnOpenOrders
  <2> DEFINE rows == Head(wire).rows
  <2>1. /\ Receive("BrokerOpenOrders") /\ Reconcile(rows, ConfirmListed(rows), TRUE)
        /\ UNCHANGED <<outside, net, flatJob, posts>>
    BY <1>4 DEF OnOpenOrders
  <2>2. rows \in [Orders -> Row]
    BY <1>0, <2>1, ReceiveType DEF Msgs
  <2>3. \A i \in Orders : posts[i] = 0 => ~Listed(rows[i])
    <3>1. ASSUME NEW i \in Orders, posts[i] = 0 PROVE ~Listed(rows[i])
      <4>1. wire \in Seq(QuietMsgs(i)) /\ wire # <<>>
        BY <2>1, <3>1 DEF CustodyInv, Quiet, Receive
      <4>2. Head(wire) \in QuietMsgs(i)
        BY <4>1, HeadTailProperties
      <4> QED BY <4>2 DEF QuietMsgs
    <3> QED BY <3>1
  <2> HIDE DEF rows
  <2>4. \A j \in Orders : Custody(j)'
    BY <1>0, <2>1, <2>2, <2>3, ReconcileCustody
  <2>5. NoNewSubmit /\ UNCHANGED <<venue, flatJob, posts>>
    BY <2>1, SendsNoSubmit DEF outside, brokerVars
  <2> QED BY <1>1, <2>1, <2>4, <2>5 DEF CustodyInv
<1>5. ASSUME NEW k, OnStreamBreak(k) PROVE CustodyInv'
  <2> DEFINE chg == [i \in Orders |-> Pause(orders[i])]
  <2>1. chg \in [Orders -> Change] /\ \A i \in Orders : KeepsCustody(orders[i], chg[i])
    BY <1>0, HeldChangeTypes, HandlersKeepCustody
  <2>2. Receive(k) /\ AppendAndFold(chg) /\ UNCHANGED <<outside, net, flatJob, posts>>
    BY <1>5 DEF OnStreamBreak
  <2> HIDE DEF chg
  <2>3. \A j \in Orders : Custody(j)'
    BY <1>0, <2>1, <2>2, AppendCustody
  <2>4. NoNewSubmit /\ UNCHANGED <<venue, flatJob, posts>>
    BY <2>2, SendsNoSubmit DEF outside, brokerVars
  <2> QED BY <1>1, <2>2, <2>3, <2>4 DEF CustodyInv
<1> QED
  BY <1>2, <1>3, <1>4, <1>5 DEF StreamEvent

\* The results of the goroutines.
LEMMA JobResultCustody ==
  ASSUME IInv, JobResult
  PROVE  CustodyInv'
<1> USE DEF IInv
<1>0. /\ TypeInv /\ VenueTypeOK /\ CoreTypeOK /\ BookTypeOK
      /\ \A j \in Orders : Custody(j)
      /\ \A j \in Orders : orders[j] \in Order /\ Unlinked(orders[j])
  BY DEF TypeInv, TypeOK, CoreTypeOK, BookTypeOK, CustodyInv, Custody
<1>1. CASE OnSnapshot
  <2> DEFINE rows == flatJob.rows
  <2>1. /\ Reconcile(rows, ConfirmListed(rows), FALSE)
        /\ flatJob' = IdleJob /\ UNCHANGED <<outside, net, wire, posts>>
    BY <1>1 DEF OnSnapshot
  <2>2. rows \in [Orders -> Row]
    BY <1>0 DEF VenueTypeOK, FlatJobs
  <2>3. \A i \in Orders : posts[i] = 0 => ~Listed(rows[i])
    BY DEF CustodyInv, Quiet
  <2> HIDE DEF rows
  <2>4. \A j \in Orders : Custody(j)'
    BY <1>0, <2>1, <2>2, <2>3, ReconcileCustody
  <2>5. ASSUME NEW i \in Orders, posts'[i] = 0 PROVE Quiet(i)'
    <3>1. Quiet(i) /\ wire' \in Seq(QuietMsgs(i))
      BY <2>1, <2>5 DEF CustodyInv, Quiet
    <3>2. ~Listed(flatJob'.rows[i])
      <4>1. ~(0 > 0)
        OBVIOUS
      <4> QED BY <2>1, <4>1 DEF IdleJob, NoRows, NoRow, Listed
    <3>3. UNCHANGED <<venue, net>>
      BY <2>1 DEF outside, brokerVars
    <3> QED BY <3>1, <3>2, <3>3, QuietHandler
  <2> QED BY <2>4, <2>5 DEF CustodyInv
<1>2. ASSUME NEW x \in outcomes, OnOutcome(x) PROVE CustodyInv'
  <2> DEFINE o == orders[x.id]
             c == OnOutcomeChange(x)
  <2>1. x \in Outcomes /\ x.id \in Orders /\ o \in Order /\ Unlinked(o) /\ o.held \in Held
    BY <1>0 DEF VenueTypeOK, Outcomes, Order
  <2>2. AppendAndFold(Only(x.id, c)) /\ UNCHANGED <<outside, flatJob, wire, posts>>
    BY <1>2 DEF OnOutcome
  <2>3. KeepsCustody(o, c)
    <3>1. /\ KeepsCustody(o, NoChange)
          /\ \A a : KeepsCustody(o, ActionChange(a))
          /\ KeepsCustody(o, OnLife(o, LifeEvent("OrderRejected")))
      BY <2>1, HandlersKeepCustody
    <3>2. KeepsCustody(o, OnActivationOutcome(x))
      <4>1. CASE ~ActivationDoubted(o)
        BY <3>1, <4>1 DEF OnActivationOutcome
      <4>2. CASE ActivationDoubted(o)
        <5> DEFINE h == [o.held EXCEPT !.phase = "UNKNOWN", !.cancelSent = @ \/ CancelNow(o)]
        <5>1. OnActivationOutcome(x).held = h
          BY <4>2 DEF OnActivationOutcome, HeldChange, NoChange
        <5>2. h.child = o.held.child /\ h.phase = "UNKNOWN"
          BY <2>1 DEF Held
        <5>3. o.held # NoHeld
          BY <4>2 DEF ActivationDoubted, NoHeld
        <5> HIDE DEF h
        <5> QED BY <5>1, <5>2, <5>3 DEF KeepsCustody, Pretrigger
      <4> QED BY <4>1, <4>2
    <3>3. KeepsCustody(o, OnSubmitOutcome(x)) /\ KeepsCustody(o, OnActionOutcome(x))
      BY <3>1 DEF OnSubmitOutcome, OnActionOutcome
    <3> QED
      BY <2>1, <3>1, <3>2, <3>3 DEF OnOutcomeChange, Outcomes, RequestKinds, SubmitKinds
  <2>4. c \in Change
    BY <1>0, <2>1, OutcomeChangeType
  <2> HIDE DEF c
  <2>5. \A j \in Orders : Custody(j)'
    BY <1>0, <2>1, <2>2, <2>3, <2>4, OnlyCustody
  <2>6. UNCHANGED <<venue, flatJob, wire, posts>> /\ NoNewSubmit
    BY <1>2, <2>2, SendsNoSubmit DEF OnOutcome, outside, brokerVars
  <2> QED BY <2>5, <2>6, QuietKept DEF CustodyInv
<1> QED
  BY <1>1, <1>2 DEF JobResult

\* Prints and the clock; a print that triggers a held order is where a child
\* is linked and POSTed (activateHeld).
LEMMA HeldStepCustody ==
  ASSUME IInv, EligiblePrint \/ PrintGap \/ Tick \/ \E i \in Orders : EvaluateHeld(i)
  PROVE  CustodyInv'
<1> USE DEF IInv
<1>0. /\ TypeInv /\ VenueTypeOK /\ CoreTypeOK /\ BookTypeOK /\ posts \in [Orders -> Nat]
      /\ \A j \in Orders : Custody(j) /\ (posts[j] = 0 => Quiet(j))
      /\ \A j \in Orders : orders[j] \in Order /\ Unlinked(orders[j])
  BY DEF TypeInv, TypeOK, CoreTypeOK, BookTypeOK, CustodyInv, Custody
<1>1. CASE EligiblePrint \/ Tick
  <2>1. UNCHANGED <<venue, flatJob, wire, posts, orders, logged, net>>
    BY <1>1 DEF EligiblePrint, Tick, venueVars, brokerVars, bookVars
  <2>2. \A j \in Orders : Custody(j)'
    BY <1>0, <2>1 DEF Custody
  <2> QED BY <2>1, <2>2, QuietKept, SendsNoSubmit DEF CustodyInv
<1>2. CASE PrintGap
  <2> DEFINE chg == [i \in Orders |-> Pause(orders[i])]
  <2>1. chg \in [Orders -> Change] /\ \A i \in Orders : KeepsCustody(orders[i], chg[i])
    BY <1>0, HeldChangeTypes, HandlersKeepCustody
  <2>2. AppendAndFold(chg) /\ UNCHANGED <<venueVars, posts>>
    BY <1>2 DEF PrintGap
  <2> HIDE DEF chg
  <2>3. \A j \in Orders : Custody(j)'
    BY <1>0, <2>1, <2>2, AppendCustody
  <2>4. UNCHANGED <<venue, flatJob, wire, posts>> /\ NoNewSubmit
    BY <2>2, SendsNoSubmit DEF venueVars, brokerVars
  <2> QED BY <2>3, <2>4, QuietKept DEF CustodyInv
<1>3. ASSUME NEW i \in Orders, EvaluateHeld(i) PROVE CustodyInv'
  <2> DEFINE o == orders[i]
             post == Live(o) /\ now < Deadline /\ i \in lastPrint.hit
             c == CASE ~Live(o) -> NoChange
                    [] Live(o) /\ now >= Deadline -> LifeChange(LifeEvent("OrderExpired"))
                    [] Live(o) /\ now < Deadline /\ ~post -> HeldTo(o, "ARMED")
                    [] post -> ActivationStops(i)
             r == Request("CHILD", i, o.leaves)
  <2>1. UNCHANGED <<venue, flatJob, wire>>
    BY <1>3 DEF EvaluateHeld, outside, brokerVars
  <2>2. CASE post /\ AppendAndFold(Only(i, Activation(o))) /\ Send({r})
             /\ posts' = [posts EXCEPT ![i] = @ + 1]
    <3>1. o.status # "NONE" /\ o.held.phase \in Pretrigger
      BY <2>2 DEF Live, Working, WorkingStatus, Pretrigger
    <3>2. ~o.held.child /\ i \in HeldIds
      BY <1>0, <3>1 DEF Unlinked, Custody, NoHeld, Pretrigger
    <3>3. posts[i] = 0 /\ posts'[i] = 1 /\ \A j \in Orders \ {i} : posts'[j] = posts[j]
      BY <1>0, <2>2, <3>2 DEF Custody
    <3>4. ASSUME NEW x \in Order, x.status # "NONE", x.held = o.held
          PROVE  /\ Apply(x, Activation(o)).held.child
                 /\ Apply(x, Activation(o)).held.phase = "ACTIVATING"
                 /\ Apply(x, Activation(o)).status # "NONE"
                 /\ Apply(x, Activation(o)).held = Activation(o).held
      <4>1. o.held \in Held
        BY <1>0 DEF Order
      <4>2. /\ Activation(o).held = [o.held EXCEPT !.phase = "ACTIVATING", !.child = TRUE,
                                                    !.cancelRequested = FALSE]
            /\ Activation(o).life = NoEvent
        BY DEF Activation, HeldChange, NoChange
      <4>3. Activation(o).held.child /\ Activation(o).held.phase = "ACTIVATING"
        BY <4>1, <4>2 DEF Held
      <4>4. FoldLife(x, NoEvent) = x
        BY DEF FoldLife, NoEvent, LifeEvent
      <4>5. /\ Apply(x, Activation(o)).held = Activation(o).held
            /\ Apply(x, Activation(o)).status = x.status
        BY <3>4, <4>2, <4>3, <4>4 DEF Apply, SetHeld, Order
      <4> QED BY <3>4, <4>3, <4>5
    <3>5. /\ logged[i] \in Order /\ logged[i].status # "NONE" /\ logged[i].held = o.held
      BY <1>0, <3>1 DEF Custody, BookTypeOK
    <3>6. /\ orders'[i] = Apply(o, Activation(o)) /\ logged'[i] = Apply(logged[i], Activation(o))
      BY <2>2 DEF AppendAndFold, Only
    <3>7. Custody(i)'
      <4>1. orders'[i].held = logged'[i].held /\ orders'[i].held.phase = "ACTIVATING"
            /\ logged'[i].held.child /\ orders'[i].status # "NONE" /\ logged'[i].status # "NONE"
        BY <1>0, <3>1, <3>4, <3>5, <3>6
      <4> QED BY <3>2, <3>3, <4>1 DEF Custody, Unlinked, Pretrigger
    <3>8. ASSUME NEW j \in Orders \ {i} PROVE Custody(j)'
      <4>1. orders[j] \in Order /\ logged[j] \in Order /\ Custody(j) /\ NoChange \in Change
        BY <1>0, EmptyTypes DEF BookTypeOK
      <4>2. /\ orders'[j] = Apply(orders[j], NoChange) /\ logged'[j] = Apply(logged[j], NoChange)
        BY <2>2, <3>8 DEF AppendAndFold, Only
      <4>3. KeepsCustody(orders[j], NoChange)
        BY <4>1, HandlersKeepCustody DEF Custody
      <4>4. /\ orders'[j].held = logged'[j].held
            /\ orders'[j].status = "NONE" <=> logged'[j].status = "NONE"
            /\ logged[j].status # "NONE" => logged'[j].status # "NONE"
            /\ logged[j].held.child => logged'[j].held.child
            /\ Unlinked(orders'[j])
            /\ orders[j].held = NoHeld => orders'[j].held = NoHeld
        BY <4>1, <4>2, <4>3, ApplyCustody DEF Custody
      <4> QED BY <3>3, <4>1, <4>4 DEF Custody, Unlinked
    <3>9. ASSUME NEW j \in Orders, posts'[j] = 0 PROVE Quiet(j)'
      <4>1. j # i /\ Quiet(j)
        BY <1>0, <3>3, <3>9
      <4>2. r.id = i /\ net' = net \cup {r}
        BY <2>2 DEF Request, Send
      <4>3. ~Listed(flatJob'.rows[j]) /\ wire' \in Seq(QuietMsgs(j))
        BY <2>1, <4>1 DEF Quiet, Listed
      <4> QED BY <2>1, <4>1, <4>2, <4>3, QuietHandler
    <3> QED BY <3>7, <3>8, <3>9 DEF CustodyInv
  <2>3. CASE AppendAndFold(Only(i, c)) /\ UNCHANGED <<net, posts>>
    <3>1. c \in Change /\ KeepsCustody(o, c)
      <4>1. /\ KeepsCustody(o, NoChange)
            /\ \A e : KeepsCustody(o, LifeChange(e))
            /\ Live(o) => KeepsCustody(o, HeldTo(o, "PAUSED")) /\ KeepsCustody(o, HeldTo(o, "ARMED"))
        BY <1>0, HandlersKeepCustody DEF HeldPhases, Pretrigger
      <4>2. /\ NoChange \in Change
            /\ LifeChange(LifeEvent("OrderExpired")) \in Change
            /\ LifeChange(LifeEvent("OrderRejected")) \in Change
            /\ HeldTo(o, "PAUSED") \in Change /\ HeldTo(o, "ARMED") \in Change
        BY <1>0, EmptyTypes, LifeTypes, ChangeTypes, HeldChangeTypes
           DEF LifeKinds, HeldPhases, Pretrigger
      <4>3. \/ c = NoChange
            \/ c = LifeChange(LifeEvent("OrderExpired"))
            \/ Live(o) /\ c = HeldTo(o, "ARMED")
            \/ Live(o) /\ c = HeldTo(o, "PAUSED")
            \/ c = LifeChange(LifeEvent("OrderRejected"))
        <5>1. now \in Int /\ Deadline \in Int
          BY <1>0, HeldTimeAssumption DEF CoreTypeOK
        <5>2. ~(now >= Deadline) <=> now < Deadline
          BY <5>1
        <5>3. \/ ~Live(o) /\ c = NoChange
              \/ Live(o) /\ now >= Deadline /\ c = LifeChange(LifeEvent("OrderExpired"))
              \/ Live(o) /\ now < Deadline /\ ~post /\ c = HeldTo(o, "ARMED")
              \/ post /\ c = ActivationStops(i)
          BY <5>2
        <5>4. \/ ActivationStops(i) = HeldTo(o, "PAUSED")
              \/ ActivationStops(i) = LifeChange(LifeEvent("OrderRejected"))
          BY DEF ActivationStops
        <5> HIDE DEF c
        <5> QED BY <5>3, <5>4
      <4> HIDE DEF c
      <4> QED BY <4>1, <4>2, <4>3
    <3> HIDE DEF c
    <3>2. \A j \in Orders : Custody(j)'
      BY <1>0, <2>3, <3>1, OnlyCustody
    <3>3. UNCHANGED <<venue, flatJob, wire, posts>> /\ NoNewSubmit
      BY <2>1, <2>3, SendsNoSubmit
    <3> QED BY <3>2, <3>3, QuietKept DEF CustodyInv
  <2> QED BY <1>3, <2>2, <2>3 DEF EvaluateHeld
<1> QED
  BY <1>1, <1>2, <1>3

\* What a dying process leaves: the requests already sent, and silence.
LEMMA QuietProcessDies ==
  ASSUME VenueTypeOK, CustodyInv, UNCHANGED <<venue, posts>>,
         NEW last \in SUBSET Requests, ProcessDies(last),
         \A r \in last : r.kind \notin SubmitKinds
  PROVE  \A i \in Orders : (posts[i] = 0 => Quiet(i))'
<1>1. ASSUME NEW i \in Orders, posts'[i] = 0 PROVE Quiet(i)'
  <2>1. Quiet(i)
    BY <1>1 DEF CustodyInv
  <2>2. ~SubmitInFlight(i)'
    <3>1. PICK sent \in SUBSET (net \cup last) : net' = {Dead(r) : r \in sent}
      BY DEF ProcessDies
    <3>2. ASSUME NEW r \in net', r.kind \in SubmitKinds, r.id = i PROVE FALSE
      <4>1. PICK x \in net \cup last : r = [x EXCEPT !.live = FALSE]
        BY <3>1 DEF Dead
      <4>2. x \in Requests
        BY DEF VenueTypeOK
      <4>3. r.kind = x.kind /\ r.id = x.id
        BY <4>1, <4>2 DEF Requests
      <4> QED BY <2>1, <3>2, <4>3 DEF Quiet, SubmitInFlight
    <3> QED BY <3>2 DEF SubmitInFlight
  <2>3. ~Listed(flatJob'.rows[i])
    <3>1. ~(0 > 0)
      OBVIOUS
    <3> QED BY <3>1 DEF ProcessDies, IdleJob, NoRows, NoRow, Listed
  <2>4. wire' \in Seq(QuietMsgs(i))
    BY EmptySeq DEF ProcessDies
  <2> QED BY <2>1, <2>2, <2>3, <2>4 DEF Quiet, QuietMsgs, Listed
<1> QED
  BY <1>1

\* What Recover makes of a custody: the child stays linked, and a parent that
\* waits is one that waited.
LEMMA RecoveredCustody ==
  ASSUME NEW m \in Order, NEW found \in BOOLEAN, Unlinked(m)
  PROVE  /\ m.held.child => RecoveredHeld(m, found).child
         /\ RecoveredHeld(m, found).phase \in Pretrigger => ~RecoveredHeld(m, found).child
         /\ m.held = NoHeld => RecoveredHeld(m, found) = NoHeld
<1> DEFINE h == m.held
<1>1. h \in Held
  BY DEF Order
<1>2. \A p \in HeldPhases : /\ [h EXCEPT !.phase = p].child = h.child
                            /\ [h EXCEPT !.phase = p].phase = p
  BY <1>1 DEF Held
<1>3. CASE Working(m) /\ h.phase \in {"WAITING", "ARMED"}
  <2>1. RecoveredHeld(m, found) = [h EXCEPT !.phase = "PAUSED"]
    BY <1>3 DEF RecoveredHeld
  <2>2. ~h.child /\ h # NoHeld
    BY <1>3 DEF Unlinked, Pretrigger, NoHeld
  <2> QED BY <1>2, <2>1, <2>2 DEF HeldPhases, Pretrigger
<1>4. CASE Working(m) /\ h.phase = "ACTIVATING"
  <2>1. RecoveredHeld(m, found) = [h EXCEPT !.phase = IF found THEN "WORKING" ELSE "UNKNOWN"]
    BY <1>4 DEF RecoveredHeld
  <2>2. h # NoHeld
    BY <1>4 DEF NoHeld
  <2>3. RecoveredHeld(m, found).child = h.child
    BY <1>2, <2>1 DEF HeldPhases
  <2>4. RecoveredHeld(m, found).phase \notin Pretrigger
    BY <1>2, <2>1 DEF HeldPhases, Pretrigger
  <2> QED BY <2>2, <2>3, <2>4
<1>5. CASE Working(m) /\ h.phase = "CANCEL_REQUESTED"
  <2>1. RecoveredHeld(m, found) =
          [h EXCEPT !.phase = IF found THEN @ ELSE "UNKNOWN",
                    !.cancelRequested = TRUE, !.cancelSent = @ \/ found]
    BY <1>5 DEF RecoveredHeld
  <2>2. /\ RecoveredHeld(m, found).child = h.child
        /\ RecoveredHeld(m, found).phase \in {"CANCEL_REQUESTED", "UNKNOWN"}
    BY <1>1, <1>5, <2>1 DEF Held
  <2>3. h # NoHeld
    BY <1>5 DEF NoHeld
  <2> QED BY <2>2, <2>3 DEF Pretrigger
<1>6. CASE ~Working(m) \/ h.phase \notin {"WAITING", "ARMED", "ACTIVATING", "CANCEL_REQUESTED"}
  <2>1. RecoveredHeld(m, found) = h
    BY <1>6 DEF RecoveredHeld
  <2> QED BY <2>1 DEF Unlinked
<1> QED
  BY <1>3, <1>4, <1>5, <1>6

\* A crash, a shutdown and a restart keep custody: Recover overlays the boot
\* snapshot on the replayed log, and the snapshot lists nothing the log does
\* not know.
LEMMA ProcessCustody ==
  ASSUME IInv, Process
  PROVE  CustodyInv'
<1> USE DEF IInv
<1>0. /\ TypeInv /\ VenueTypeOK /\ CoreTypeOK /\ BookTypeOK
      /\ \A j \in Orders : Custody(j) /\ (posts[j] = 0 => Quiet(j))
      /\ \A j \in Orders : orders[j] \in Order /\ Unlinked(orders[j])
  BY DEF TypeInv, TypeOK, CoreTypeOK, BookTypeOK, CustodyInv, Custody
<1>1. CASE Crash
  <2>1. /\ ProcessDies({}) /\ UNCHANGED <<venue, logged>> /\ orders' = logged
        /\ UNCHANGED posts
    BY <1>1 DEF Crash, MemoryLost
  <2>2. \A j \in Orders : Custody(j)'
    BY <1>0, <2>1 DEF Custody, Unlinked
  <2>3. \A i \in Orders : (posts[i] = 0 => Quiet(i))'
    BY <1>0, <2>1, QuietProcessDies
  <2> QED BY <2>2, <2>3 DEF CustodyInv
<1>2. CASE ShutdownEngine
  <2> DEFINE last == Cancels({i \in Orders : ShutdownCancels(orders[i])})
             chg == [i \in Orders |-> Shutdown(orders[i])]
  <2>1. AppendAndFold(chg) /\ ProcessDies(last) /\ UNCHANGED <<venue, posts>>
    BY <1>2 DEF ShutdownEngine, MemoryLost
  <2>2. last \subseteq Requests /\ \A r \in last : r.kind \notin SubmitKinds
    <3>1. \A i \in Orders : /\ Request("CANCEL", i, 0) \in Requests
                            /\ Request("CANCEL", i, 0).kind \notin SubmitKinds
      BY EmptyTypes DEF Request, Requests, RequestKinds, SubmitKinds
    <3> QED BY <3>1 DEF Cancels
  <2>3. chg \in [Orders -> Change] /\ \A i \in Orders : KeepsCustody(orders[i], chg[i])
    BY <1>0, HandlerTypes, HandlersKeepCustody
  <2> HIDE DEF last, chg
  <2>4. \A j \in Orders : Custody(j)'
    BY <1>0, <2>1, <2>3, AppendCustody
  <2>5. \A i \in Orders : (posts[i] = 0 => Quiet(i))'
    BY <1>0, <2>1, <2>2, QuietProcessDies
  <2> QED BY <2>4, <2>5 DEF CustodyInv
<1>3. ASSUME NEW ok \in BOOLEAN, Recover(ok) PROVE CustodyInv'
  <2>0. PICK rows \in (IF ok THEN Readings ELSE {NoRows}) :
          misread' = misread \cup OddIn(rows) /\ RecoverWith(rows)
    BY <1>3, RecoverReads
  <2> DEFINE m == [i \in Orders |-> Overlay(logged[i], rows[i])]
             found(i) == Listed(rows[i])
             act(i) == RecoveredAction(i, m[i], found(i))
             held(i) == RecoveredHeld(m[i], found(i))
             base(i) == IF logged[i].status = "NONE" THEN m[i] ELSE logged[i]
  <2>1. /\ orders' = [i \in Orders |-> [m[i] EXCEPT !.action = act(i), !.held = held(i)]]
        /\ logged' = [i \in Orders |-> [base(i) EXCEPT !.action = act(i), !.held = held(i)]]
        /\ UNCHANGED <<venue, flatJob, wire, posts>> /\ NoNewSubmit
    BY <1>3, <2>0, SendsNoSubmit DEF Recover, RecoverWith
  <2>2. ASSUME NEW i \in Orders PROVE Custody(i)'
    <3>1. /\ logged[i] \in Order /\ rows[i] \in Row /\ m[i] \in Order
      <4>1. logged[i] \in Order /\ rows[i] \in Row
        BY <1>0, RowsType DEF BookTypeOK
      <4> QED BY <4>1, OverlayType
    <3>2. logged[i].status = "NONE" => ~Listed(rows[i])
      <4>1. SUFFICES ASSUME logged[i].status = "NONE" PROVE ~Listed(rows[i])
        OBVIOUS
      <4>2. venue[i] = NoVenueOrder
        BY <1>0, <4>1 DEF Custody, Quiet
      <4>3. ~(0 > 0)
        OBVIOUS
      <4> QED BY <2>0, <4>2, <4>3, ReadingsTell DEF NoVenueOrder, NoRows, OpenAt, NoRow, Listed
    <3>3. m[i].held = logged[i].held /\ (m[i].status = "NONE" <=> logged[i].status = "NONE")
      BY <3>1, <3>2, OverlayFacts, RowStatus
    <3>4. base(i) \in Order /\ (base(i).status = "NONE" <=> logged[i].status = "NONE")
      BY <3>1, <3>3
    <3>5. found(i) \in BOOLEAN /\ Unlinked(m[i]) /\ Unlinked(logged[i])
      BY <1>0, <3>3 DEF Listed, Unlinked, Custody
    <3>6. /\ logged[i].held.child => held(i).child
          /\ held(i).phase \in Pretrigger => ~held(i).child
          /\ logged[i].held = NoHeld => held(i) = NoHeld
      BY <3>1, <3>3, <3>5, RecoveredCustody
    <3>7. /\ orders'[i].held = held(i) /\ orders'[i].status = m[i].status
          /\ logged'[i].held = held(i) /\ logged'[i].status = base(i).status
      BY <2>1, <3>1, <3>4 DEF Order
    <3> HIDE DEF m, held, base, found, act
    <3> QED BY <1>0, <2>1, <3>3, <3>4, <3>6, <3>7 DEF Custody, Unlinked
  <2>3. \A i \in Orders : (posts[i] = 0 => Quiet(i))'
    BY <2>1, QuietKept
  <2> QED BY <2>2, <2>3 DEF CustodyInv
<1> QED
  BY <1>1, <1>2, <1>3 DEF Process

-----------------------------------------------------------------------------
(* The theorem *)

\* Custody holds at the start.
LEMMA InitCustody == Init => CustodyInv
<1> SUFFICES ASSUME Init PROVE CustodyInv
  OBVIOUS
<1>1. ASSUME NEW i \in Orders PROVE Custody(i)
  <2>1. /\ orders[i] = NoOrder /\ logged[i] = NoOrder /\ posts[i] = 0
    BY DEF Init
  <2> QED BY <2>1 DEF Custody, Unlinked, NoOrder, NoHeld, Pretrigger
<1>2. ASSUME NEW i \in Orders PROVE Quiet(i)
  <2>1. VenueInit
    BY DEF Init
  <2>2. venue[i] = NoVenueOrder /\ ~SubmitInFlight(i) /\ wire \in Seq(QuietMsgs(i))
    BY <2>1, EmptySeq DEF VenueInit, SubmitInFlight
  <2>3. ~Listed(flatJob.rows[i])
    <3>1. ~(0 > 0)
      OBVIOUS
    <3> QED BY <2>1, <3>1 DEF VenueInit, IdleJob, NoRows, NoRow, Listed
  <2> QED BY <2>2, <2>3 DEF Quiet
<1> QED
  BY <1>1, <1>2 DEF CustodyInv

\* Every step keeps custody.
LEMMA NextCustody == IInv /\ [Next]_vars => CustodyInv'
<1> SUFFICES ASSUME IInv, [Next]_vars PROVE CustodyInv'
  OBVIOUS
<1> USE DEF IInv
<1>1. CASE Outside
  <2>1. UNCHANGED <<orders, logged, posts>>
    BY <1>1 DEF Outside, coreVars, bookVars
  <2>2. \A j \in Orders : Custody(j)'
    BY <2>1 DEF CustodyInv, Custody
  <2>3. ASSUME NEW i \in Orders, posts'[i] = 0 PROVE Quiet(i)'
    BY <1>1, <2>1, <2>3, QuietBroker, QuietDeliver DEF Outside, CustodyInv
  <2> QED BY <2>2, <2>3 DEF CustodyInv
<1>2. CASE HeldStep \/ \E i \in Orders : EvaluateHeld(i)
  BY <1>2, HeldStepCustody, AccountCommandCustody DEF HeldStep
<1>3. CASE Next
  BY <1>1, <1>2, <1>3, OrderCommandCustody, AccountCommandCustody, StreamEventCustody,
     JobResultCustody, ProcessCustody DEF Next
<1>4. CASE UNCHANGED vars
  BY <1>4 DEF vars, venueVars, brokerVars, coreVars, bookVars, CustodyInv, Custody,
              Unlinked, Quiet, QuietMsgs, SubmitInFlight, Listed
<1> QED
  BY <1>3, <1>4

\* The three promises follow from custody.
LEMMA CustodyImplies ==
  IInv => AtMostOnePost /\ IntentBeforePost /\ PretriggerHasNoChild
<1> SUFFICES ASSUME IInv PROVE AtMostOnePost /\ IntentBeforePost /\ PretriggerHasNoChild
  OBVIOUS
<1>1. AtMostOnePost
  BY DEF IInv, CustodyInv, Custody, AtMostOnePost
<1>2. ASSUME NEW i \in Orders, AtVenue(i) PROVE posts[i] # 0
  BY <1>2 DEF IInv, CustodyInv, Quiet, AtVenue, NoVenueOrder
<1>3. IntentBeforePost
  BY <1>2 DEF IInv, CustodyInv, Custody, IntentBeforePost
<1>4. PretriggerHasNoChild
  <2>1. ASSUME NEW i \in Orders, orders[i].held.phase \in Pretrigger PROVE ~AtVenue(i)
    <3>1. i \in HeldIds /\ ~logged[i].held.child
      BY <2>1 DEF IInv, CustodyInv, Custody, Unlinked, NoHeld, Pretrigger
    <3> QED BY <1>2, <3>1 DEF IInv, CustodyInv, Custody
  <2> QED BY <2>1 DEF PretriggerHasNoChild
<1> QED
  BY <1>1, <1>3, <1>4

\* Custody is an invariant of the engine.
THEOREM CustodyInvariant == Spec => []IInv
<1>1. Init => IInv
  BY InitType, InitCustody DEF IInv
<1>2. IInv /\ [Next]_vars => IInv'
  BY NextType, NextCustody DEF IInv
<1> QED
  BY <1>1, <1>2, PTL DEF Spec

\* Over every interleaving of commands, prints, stream events, lost answers,
\* crashes and restarts, an id is POSTed at most once: an activation in doubt
\* is never repeated (activateHeld, Recover, handleResumeHeld).
THEOREM PostedOnce == Spec => []AtMostOnePost
<1>1. IInv => AtMostOnePost
  BY CustodyImplies
<1> QED
  BY <1>1, CustodyInvariant, PTL

\* What is at the broker, or on its way there, is in the durable log with its
\* child link, so no crash hides an order (appendAndFold before the POST).
THEOREM IntentIsDurable == Spec => []IntentBeforePost
<1>1. IInv => IntentBeforePost
  BY CustodyImplies
<1> QED
  BY <1>1, CustodyInvariant, PTL

\* A parent the core treats as local has nothing at the broker, so its cancel,
\* its replace and its expiry may stay local (handleCancel, expireHeldOrders).
THEOREM PretriggerIsLocal == Spec => []PretriggerHasNoChild
<1>1. IInv => PretriggerHasNoChild
  BY CustodyImplies
<1> QED
  BY <1>1, CustodyInvariant, PTL
=============================================================================
