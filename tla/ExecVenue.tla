----------------------------- MODULE ExecVenue -----------------------------
(***************************************************************************)
(* What surrounds the execution core: the broker's books, the goroutines   *)
(* that carry one HTTP request each, and the adapter that turns the        *)
(* broker's stream into a FIFO of events (the alpaca adapter: OrderAccepted *)
(* comes only from the stream, and a reconnect replays what was missed).   *)
(*                                                                         *)
(* The broker itself is external.  Its part here is what the adapters and  *)
(* the core rely on: an order lands at most once per client id, ends once, *)
(* and every change of it is one stream frame.                             *)
(***************************************************************************)
EXTENDS ExecState, Sequences

CONSTANTS
  Oddly,       \* odd statuses a list may give an order that is open
  Upsets,      \* which failures may happen in a run
  MaxUpsets,   \* how many of them
  Opening      \* the position at the broker when the engine first starts

UpsetKinds == {"request",   \* a request or its answer is lost and the probe fails too
               "refuse",    \* the broker refuses a request it received
               "drop",      \* the stream drops
               "snapshot",  \* a REST snapshot fails
               "expire",    \* the broker ends an order on its own
               "crash",     \* the engine dies
               "stale"}     \* the account goes stale: the core disarms itself

ASSUME UpsetAssumption == Upsets \subseteq UpsetKinds /\ MaxUpsets \in Nat
ASSUME OddAssumption == Oddly \subseteq OddStatus
ASSUME OpeningAssumption == Opening \in Int

VARIABLES
  venue,      \* [Orders -> the broker's order]
  shares,     \* the account's true position
  closing,    \* TRUE: the close-all order of a Flatten is working at the broker
  net,        \* order requests in flight, each owned by a goroutine
  landed,     \* submits that landed and whose goroutine has yet to return
  outcomes,   \* goroutine results waiting to enter the core's inbox
  flatJob,    \* the goroutine of a Flatten: close all, then read a snapshot
  wire,       \* stream events waiting to enter the core's inbox, in order
  online,     \* TRUE: the stream is connected
  connected,  \* connectedOnce: this process's stream has reconciled before
  tracked,    \* lastKnownStatus is a working one, per order
  counted,    \* lastKnownFilledQty has an entry, per order
  seenQty,    \* lastKnownFilledQty, per order
  upsets,     \* failures so far
  misread,    \* history: orders some list has shown under an odd status
  rewound     \* history: orders over by the time their submit returned

brokerVars == <<venue, shares, closing, upsets, misread, rewound>>
adapterVars == <<online, connected, tracked, counted, seenQty, landed>>
venueVars == <<brokerVars, net, outcomes, flatJob, wire, adapterVars>>

VenueStates == {"none", "open", "filled", "canceled", "expired"}
VenueOrder == [st : VenueStates, qty : Qtys, exec : Qtys]
NoVenueOrder == [st |-> "none", qty |-> 0, exec |-> 0]

\* SUBMIT is the POST of an unguarded native order, GUARDED of one that
\* reduces a position, CHILD of a triggered held order.  live: the process
\* that started the request still runs and hears the answer.
SubmitKinds == {"SUBMIT", "GUARDED", "CHILD"}
RequestKinds == SubmitKinds \cup {"CANCEL", "REPLACE"}
Requests == [kind : RequestKinds, id : Orders, qty : Qtys, live : BOOLEAN]
Request(k, i, q) == [kind |-> k, id |-> i, qty |-> q, live |-> TRUE]
Outcomes == [kind : RequestKinds, id : Orders, ok : BOOLEAN]
Outcome(r, ok) == [kind |-> r.kind, id |-> r.id, ok |-> ok]

OpenAt(i) == venue[i].st = "open"
\* what a GET of the open orders answers if their statuses read as as
RowsAs(as) ==
  [i \in Orders |-> IF OpenAt(i) THEN [qty |-> venue[i].qty, exec |-> venue[i].exec, as |-> as[i]]
                                 ELSE NoRow]
Readings == {RowsAs(as) : as \in [Orders -> {"open"} \cup Oddly]}
OddIn(rows) == {i \in Orders : rows[i].as # "open"}
NoRows == [i \in Orders |-> NoRow]
JobStates == {"idle", "close", "read", "done"}
FlatJobs == [st : JobStates, rows : [Orders -> Row], qty : Int]
IdleJob == [st |-> "idle", rows |-> NoRows, qty |-> 0]

\* spend one failure of kind k
Upset(k) == k \in Upsets /\ upsets < MaxUpsets /\ upsets' = upsets + 1
\* a list is read
Read(rows) ==
  /\ rows \in Readings
  /\ misread' = misread \cup OddIn(rows)
  /\ UNCHANGED <<upsets, rewound>>
NoneMisread == UNCHANGED <<misread, rewound>>

-----------------------------------------------------------------------------
(* Stream events *)

NoLives == [i \in Orders |-> NoEvent]
MsgKinds == {"Lives", "BrokerPosition", "BrokerPositions", "BrokerOpenOrders",
             "StreamGap", "BrokerConnUp", "BrokerConnDown"}
Msgs == [ev : MsgKinds, lives : [Orders -> Life], rows : [Orders -> Row], qty : Int]
Msg(k) == [ev |-> k, lives |-> NoLives, rows |-> NoRows, qty |-> 0]
\* Lifecycle events of different orders commute: the ones a reconcile finds
\* travel as one message.  A stream frame carries one.
LivesMsg(ls) == [Msg("Lives") EXCEPT !.lives = ls]
LifeMsg(i, e) == LivesMsg([NoLives EXCEPT ![i] = e])
PositionMsg(q) == [Msg("BrokerPosition") EXCEPT !.qty = q]

\* wrong: a fill or an end overtakes the events before it
FrameAhead(i, v, msgs) ==
  /\ wire' = IF online THEN msgs \o wire ELSE wire
  /\ tracked' = IF online THEN [tracked EXCEPT ![i] = v.st = "open"] ELSE tracked
  /\ counted' = IF online THEN [counted EXCEPT ![i] = @ \/ v.exec > 0] ELSE counted
  /\ seenQty' = IF online THEN [seenQty EXCEPT ![i] = v.exec] ELSE seenQty
\* handleUpdate: while the stream is up a frame is normalised, remembered and
\* emitted; while it is down it is lost.
Frame(i, v, msgs) ==
  /\ wire' = IF online THEN wire \o msgs ELSE wire
  /\ tracked' = IF online THEN [tracked EXCEPT ![i] = v.st = "open"] ELSE tracked
  /\ counted' = IF online THEN [counted EXCEPT ![i] = @ \/ v.exec > 0] ELSE counted
  /\ seenQty' = IF online THEN [seenQty EXCEPT ![i] = v.exec] ELSE seenQty
NoFrame == UNCHANGED <<wire, tracked, counted, seenQty>>

-----------------------------------------------------------------------------
(* The broker *)

\* One share of a working order executes.
Fill(i) ==
  LET v == [venue[i] EXCEPT !.exec = @ + 1,
                            !.st = IF venue[i].exec + 1 = venue[i].qty THEN "filled" ELSE "open"]
      s == IF i \in Sells THEN shares - 1 ELSE shares + 1
  IN  /\ OpenAt(i) /\ venue[i].exec < venue[i].qty
      /\ venue' = [venue EXCEPT ![i] = v]
      /\ shares' = s
      /\ Frame(i, v, <<LifeMsg(i, FillEvent(v.exec, v.qty - v.exec)), PositionMsg(s)>>)
      /\ UNCHANGED <<closing, net, landed, outcomes, flatJob, online, connected, upsets>>
      /\ NoneMisread

\* The broker ends an order nobody canceled.
VenueExpires(i) ==
  LET v == [venue[i] EXCEPT !.st = "expired"]
  IN  /\ OpenAt(i)
      /\ Upset("expire")
      /\ venue' = [venue EXCEPT ![i] = v]
      /\ Frame(i, v, <<LifeMsg(i, LifeEvent("OrderExpired"))>>)
      /\ UNCHANGED <<shares, closing, net, landed, outcomes, flatJob, online, connected>>
      /\ NoneMisread

\* The close-all order of a Flatten executes; it has no order id of ours, so
\* its frame is a bare position.
CloseFills ==
  /\ closing
  /\ shares' = 0
  /\ closing' = FALSE
  /\ wire' = IF online THEN Append(wire, PositionMsg(0)) ELSE wire
  /\ UNCHANGED <<venue, net, outcomes, flatJob, adapterVars, upsets>>
  /\ NoneMisread

-----------------------------------------------------------------------------
(* Requests.  One step is the request's effect at the broker and the       *)
(* adapter's handling of the answer, except where a submit lands: what the *)
(* adapter notes when SubmitOrder returns is a step of its own.            *)

Answered(r, ok) == outcomes' = IF r.live THEN outcomes \cup {Outcome(r, ok)} ELSE outcomes
Unanswered == UNCHANGED outcomes
Finish(r) == net' = net \ {r}
Landed(r) == [st |-> "open", qty |-> r.qty, exec |-> 0]
RestOfVenue == UNCHANGED <<shares, closing, flatJob, online, connected, misread>>

\* SubmitOrder: the order is created.  An error means the answer and the probe
\* for it were both lost: the adapter then notes nothing of the order.
SubmitLands(r) ==
  /\ r \in net /\ r.kind \in SubmitKinds /\ venue[r.id].st = "none"
  /\ venue' = [venue EXCEPT ![r.id] = Landed(r)]
  /\ wire' = IF online THEN Append(wire, LifeMsg(r.id, LifeEvent("OrderAccepted"))) ELSE wire
  /\ tracked' = [tracked EXCEPT ![r.id] = @ \/ online]
  /\ Finish(r)
  /\ \/ /\ landed' = IF r.live THEN landed \cup {r} ELSE landed
        /\ UNCHANGED <<outcomes, upsets>>
     \/ /\ Upset("request")
        /\ Answered(r, FALSE)
        /\ UNCHANGED landed
  /\ UNCHANGED <<counted, seenQty, rewound>>
  /\ RestOfVenue

\* SubmitOrder returns: the order is noted as accepted with nothing filled,
\* whatever the stream has told of it since it landed.  Only a guarded submit
\* reports success.
SubmitReturns(r) ==
  /\ r \in landed
  /\ landed' = landed \ {r}
  /\ tracked' = [tracked EXCEPT ![r.id] = TRUE]
  /\ counted' = [counted EXCEPT ![r.id] = TRUE]
  /\ seenQty' = [seenQty EXCEPT ![r.id] = 0]
  /\ IF r.kind = "GUARDED" THEN Answered(r, TRUE) ELSE Unanswered
  /\ rewound' = IF OpenAt(r.id) THEN rewound ELSE rewound \cup {r.id}
  /\ UNCHANGED <<venue, net, wire, upsets>>
  /\ RestOfVenue

\* SubmitOrder: the order was never created.  A probe that says so makes the
\* adapter reject the order itself; a probe that fails leaves an error.
SubmitFails(r) ==
  /\ r \in net /\ r.kind \in SubmitKinds
  /\ Finish(r)
  /\ \/ /\ Upset("refuse")
        /\ wire' = IF r.live THEN Append(wire, LifeMsg(r.id, LifeEvent("OrderRejected")))
                             ELSE wire
        /\ IF r.kind = "GUARDED" THEN Answered(r, FALSE) ELSE Unanswered
     \/ /\ Upset("request")
        /\ Answered(r, FALSE)
        /\ UNCHANGED wire
  /\ UNCHANGED <<venue, landed, tracked, counted, seenQty, rewound>>
  /\ RestOfVenue

\* CancelOrder and ReplaceOrder: an order that is not working, or would not
\* exceed what it executed, is an error.
CanDo(r) == OpenAt(r.id) /\ (r.kind = "REPLACE" => r.qty > venue[r.id].exec)
ActionLands(r) ==
  LET v == IF r.kind = "CANCEL" THEN [venue[r.id] EXCEPT !.st = "canceled"]
                                ELSE [venue[r.id] EXCEPT !.qty = r.qty]
      e == IF r.kind = "CANCEL" THEN LifeEvent("OrderCanceled") ELSE ReplaceEvent(r.qty)
  IN  /\ r \in net /\ r.kind \in {"CANCEL", "REPLACE"} /\ CanDo(r)
      /\ venue' = [venue EXCEPT ![r.id] = v]
      /\ Frame(r.id, v, <<LifeMsg(r.id, e)>>)
      /\ Finish(r)
      /\ \/ Unanswered /\ UNCHANGED upsets
         \/ Upset("request") /\ Answered(r, FALSE)
      /\ UNCHANGED <<landed, rewound>>
      /\ RestOfVenue

ActionFails(r) ==
  /\ r \in net /\ r.kind \in {"CANCEL", "REPLACE"}
  /\ \/ ~CanDo(r) /\ UNCHANGED upsets
     \/ CanDo(r) /\ Upset("request")
  /\ Answered(r, FALSE)
  /\ Finish(r)
  /\ NoFrame
  /\ UNCHANGED <<venue, landed, rewound>>
  /\ RestOfVenue

\* The goroutine of a Flatten: the close-all request, then the snapshot.
FlattenCloses ==
  /\ flatJob.st = "close"
  /\ flatJob' = [flatJob EXCEPT !.st = "read"]
  /\ \/ closing' = (shares # 0) /\ UNCHANGED upsets
     \/ UNCHANGED closing /\ Upset("request")
  /\ UNCHANGED <<venue, shares, net, outcomes, wire, adapterVars>>
  /\ NoneMisread

FlattenReads ==
  /\ flatJob.st = "read"
  /\ \/ \E rows \in Readings :
          flatJob' = [st |-> "done", rows |-> rows, qty |-> shares] /\ Read(rows)
     \/ flatJob' = IdleJob /\ Upset("snapshot") /\ NoneMisread
  /\ UNCHANGED <<venue, shares, closing, net, outcomes, wire, adapterVars>>

-----------------------------------------------------------------------------
(* The stream *)

\* The session ends, or an attempt to open one fails.
Drop ==
  /\ Upset("drop")
  /\ online' = FALSE
  /\ wire' = Append(wire, Msg("BrokerConnDown"))
  /\ UNCHANGED <<venue, shares, closing, net, landed, outcomes, flatJob, connected, tracked,
                 counted, seenQty>>
  /\ NoneMisread

\* diffOpenOrderLocked and resolveMissingOrder: what happened to an order while
\* the stream was down.  A listed order is compared with the fills noted of it,
\* one no longer listed is looked up if it was last known as working.
Compared(i) == connected /\ OpenAt(i) /\ counted[i]
Missed(i) == connected /\ ~OpenAt(i) /\ tracked[i]
MissedFills ==
  [i \in Orders |-> IF (Compared(i) \/ Missed(i)) /\ venue[i].exec > seenQty[i]
                    THEN FillEvent(venue[i].exec, Minus(venue[i].qty, venue[i].exec))
                    ELSE NoEvent]
MissedEnds ==
  [i \in Orders |-> CASE Missed(i) /\ venue[i].st = "canceled" -> LifeEvent("OrderCanceled")
                      [] Missed(i) /\ venue[i].st = "expired"  -> LifeEvent("OrderExpired")
                      [] OTHER -> NoEvent]
\* wrong: a reconnect lists the orders but not the positions
ReconcileOrdersOnly(rows) ==
  (IF connected THEN <<Msg("StreamGap"), LivesMsg(MissedFills), LivesMsg(MissedEnds)>> ELSE <<>>)
  \o <<[Msg("BrokerOpenOrders") EXCEPT !.rows = rows]>>
ReconcileMsgs(rows) ==
  (IF connected THEN <<Msg("StreamGap"), LivesMsg(MissedFills), LivesMsg(MissedEnds)>> ELSE <<>>)
  \o <<[Msg("BrokerPositions") EXCEPT !.qty = shares],
       [Msg("BrokerOpenOrders") EXCEPT !.rows = rows]>>

\* handleConn(up) and reconcile(): nothing follows BrokerConnUp if the
\* snapshot fails.  The adapters of a new process start before Recover, so a
\* connection may come while the core is still down.  isWorkingStatus counts
\* a row listed as REPLACED as one to look up once it is gone.
ReconcileSucceeds ==
  \E rows \in Readings :
    /\ Read(rows)
    /\ wire' = Append(wire, Msg("BrokerConnUp")) \o ReconcileMsgs(rows)
    /\ connected' = TRUE
    /\ tracked' = [i \in Orders |-> IF OpenAt(i) THEN rows[i].as \in {"open", "REPLACED"}
                                                 ELSE tracked[i] /\ ~connected]
    /\ counted' = [i \in Orders |-> counted[i] \/ OpenAt(i) \/ (Missed(i) /\ venue[i].exec > 0)]
    /\ seenQty' = [i \in Orders |-> IF OpenAt(i) \/ Missed(i) THEN venue[i].exec ELSE seenQty[i]]
ReconcileFails ==
  /\ Upset("snapshot")
  /\ wire' = Append(wire, Msg("BrokerConnUp"))
  /\ UNCHANGED <<connected, tracked, counted, seenQty>>
  /\ NoneMisread
Connect ==
  /\ ~online
  /\ online' = TRUE
  /\ ReconcileSucceeds \/ ReconcileFails
  /\ UNCHANGED <<venue, shares, closing, net, landed, outcomes, flatJob>>

\* The process dies: its goroutines, its inbox and the adapter's memory go
\* with it; a request already sent may still land.  last: what it was sending.
Dead(r) == [r EXCEPT !.live = FALSE]
ProcessDies(last) ==
  /\ \E sent \in SUBSET (net \cup last) : net' = {Dead(r) : r \in sent}
  /\ \/ UNCHANGED closing
     \/ flatJob.st = "close" /\ closing' = (shares # 0)
  /\ outcomes' = {}
  /\ flatJob' = IdleJob
  /\ wire' = <<>>
  /\ online' = FALSE
  /\ connected' = FALSE
  /\ tracked' = [i \in Orders |-> FALSE]
  /\ counted' = [i \in Orders |-> FALSE]
  /\ seenQty' = [i \in Orders |-> 0]
  /\ landed' = {}
  /\ NoneMisread

VenueInit ==
  /\ venue = [i \in Orders |-> NoVenueOrder]
  /\ shares = Opening
  /\ closing = FALSE
  /\ net = {} /\ landed = {} /\ outcomes = {} /\ flatJob = IdleJob
  /\ wire = <<>>
  /\ online = TRUE /\ connected = TRUE
  /\ tracked = [i \in Orders |-> FALSE]
  /\ counted = [i \in Orders |-> FALSE]
  /\ seenQty = [i \in Orders |-> 0]
  /\ upsets = 0
  /\ misread = {} /\ rewound = {}

\* Everything the engine's process does not need to be up for.
BrokerNext ==
  \/ \E i \in Orders : Fill(i) \/ VenueExpires(i)
  \/ CloseFills

Deliver(r) ==
  SubmitLands(r) \/ SubmitReturns(r) \/ SubmitFails(r) \/ ActionLands(r) \/ ActionFails(r)
=============================================================================
