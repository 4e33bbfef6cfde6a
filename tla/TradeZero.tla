----------------------------- MODULE TradeZero -----------------------------
(***************************************************************************)
(* The TradeZero adapter and one order.  TradeZero cannot modify an order   *)
(* and never takes a client id twice, so a replace is a cancel of the old   *)
(* leg, a wait for the stream to confirm it, and a submit of what is left   *)
(* under the next id ("-r1", "-r2", ...); the core sees one order id.       *)
(*                                                                         *)
(* Three goroutines share the adapter's lock: the caller of SubmitOrder or  *)
(* ReplaceOrder, the caller of CancelOrder, and the reader of the stream.   *)
(* A fourth one polls the account and rewrites what the adapter remembers.  *)
(* An action is one critical section, one request, or one event emitted     *)
(* after a section; the reader handles a frame in one action, its two       *)
(* sections and its events, as no other goroutine can tell them apart.  The *)
(* broker is external.  told is what the core folds from the adapter's      *)
(* events.  The adapter of a new process runs before the core does: what it *)
(* emits waits in inbox, behind the snapshot the core recovers with.        *)
(***************************************************************************)
EXTENDS Integers, Sequences, FiniteSetsExt

CONSTANTS
  MaxQty,     \* largest size of the order
  MaxLegs,    \* how many replaces may reach their resubmit
  Upsets,     \* which failures may happen
  MaxUpsets   \* how many of them

UpsetKinds == {"request",   \* both attempts of a request get no usable answer
               "refuse",    \* the broker rejects a submit
               "drop",      \* the stream drops
               "snapshot",  \* the snapshot of a reconnect or of the boot fails
               "expire",    \* the broker ends the working leg on its own
               "timeout",   \* the cancel is not confirmed within three seconds
               "poll",      \* no failure: the account is polled
               "crash"}     \* the engine dies

ASSUME TZAssumption == /\ MaxQty \in Nat \ {0} /\ MaxLegs \in Nat
                       /\ Upsets \subseteq UpsetKinds /\ MaxUpsets \in Nat

Qtys == 0 .. MaxQty
Legs == 0 .. MaxLegs      \* leg 0 has the order's own id, leg n is "-rn"
NoLeg == -1
Maybe == Legs \cup {NoLeg}

VARIABLES
  legs,       \* the broker's books: [Legs -> the order of that leg]
  frames,     \* stream frames the reader has not read
  online,     \* TRUE: the stream is connected
  syncing,    \* how far the reconcile of a new connection is
  snapshot,   \* the orders list it has read
  seen,       \* seenExecuted, per leg
  met,        \* the legs seenExecuted has an entry for
  current,    \* tzIDByDomain
  seq,        \* replaceSeq
  reqQty,     \* orderReq's quantity; 0: no entry
  lastKnown,  \* lastKnownStatus; "none": no entry
  connected,  \* connectedOnce
  replacing,  \* the old leg of the replace in flight
  confirmed,  \* its channel holds the confirmation
  job,        \* the goroutine of SubmitOrder and then of each ReplaceOrder
  canceling,  \* the leg a CancelOrder in flight is about to cancel
  polled,     \* the orders list a poll has read; NoRows: none in flight
  told,       \* the order as the core has folded it
  inbox,      \* events from before the core's recovery it has not folded
  up,         \* TRUE: the core runs
  lost,       \* history: what has been lost, of Losses
  upsets      \* failures so far

broker == <<legs, upsets>>
sync == <<syncing, snapshot>>
stream == <<frames, online, sync>>
memory == <<seen, met, current, seq, reqQty, lastKnown, connected>>
swap == <<replacing, confirmed>>
core == <<told, inbox>>
engine == <<core, up, lost>>
vars == <<broker, stream, memory, swap, job, canceling, polled, engine>>

Losses == {"push",     \* what the stream said while it was down
           "answer",   \* the answer to a submit
           "list",     \* the list of a reconnect or of the boot
           "leg"}      \* the current leg, to a poll that had read an older list

LegStates == {"none", "open", "pending", "filled", "canceled", "expired", "rejected"}
Leg == [st : LegStates, qty : Nat, exec : Nat]
NoOrder == [st |-> "none", qty |-> 0, exec |-> 0]
OpenStates == {"open", "pending"}     \* pending: PendingCancel, which may still fill
Open(l) == legs[l].st \in OpenStates
NoRows == [l \in Legs |-> NoOrder]

WorkingStates == {"SUBMITTED", "ACCEPTED", "PARTIALLY_FILLED"}
DeadStates == {"FILLED", "CANCELED", "EXPIRED", "REJECTED"}
\* wrong: a cancel the broker has only accepted counts as done
StatusHasty(v) == CASE v.st = "open" -> IF v.exec = 0 THEN "ACCEPTED" ELSE "PARTIALLY_FILLED"
                    [] v.st = "none" -> "SUBMITTED"
                    [] v.st = "pending" -> "CANCELED"
                    [] v.st = "filled"  -> "FILLED"
                    [] OTHER -> "EXPIRED"
\* statusDomain of a leg
Status(v) == CASE v.st = "open" -> IF v.exec = 0 THEN "ACCEPTED" ELSE "PARTIALLY_FILLED"
               [] v.st = "filled"   -> "FILLED"
               [] v.st = "canceled" -> "CANCELED"
               [] v.st = "expired"  -> "EXPIRED"
               [] v.st = "rejected" -> "REJECTED"
               [] OTHER -> "SUBMITTED"

JobSteps == {"post", "posted", "accepted",                        \* SubmitOrder
             "idle", "cancel", "await", "give up",                \* ReplaceOrder
             "resubmit", "resubmitted", "replaced", "died", "dead"}
Job == [at : JobSteps, orig : Nat, want : Nat, qty : Nat, leg : Maybe]
IdleJob == [at |-> "idle", orig |-> 0, want |-> 0, qty |-> 0, leg |-> NoLeg]

Upset(k) == k \in Upsets /\ upsets < MaxUpsets /\ upsets' = upsets + 1
Larger(a, b) == IF a >= b THEN a ELSE b
Minus(a, b) == IF a >= b THEN a - b ELSE 0
\* executedForDomainLocked
Executed(s) == SumFunctionOnSet(s, Legs)

-----------------------------------------------------------------------------
(* The core's fold of the events an adapter emits *)

Event == [kind : {"accepted", "rejected", "filled", "ended", "replaced", "listed"},
          status : WorkingStates \cup DeadStates, qty : Nat, exec : Nat, leaves : Nat]
Told == [status : WorkingStates \cup DeadStates, qty : Nat, exec : Nat, leaves : Nat]
ToldWorking(o) == o.status \in WorkingStates
Accepted(o) == [o EXCEPT !.status = "ACCEPTED"]
Rejected(o) == [o EXCEPT !.status = "REJECTED"]
Filled(o, cum, left) ==
  [o EXCEPT !.status = IF left = 0 THEN "FILLED" ELSE "PARTIALLY_FILLED",
            !.exec = cum, !.leaves = left]
Ended(o, st) == IF ToldWorking(o) THEN [o EXCEPT !.status = st] ELSE o
Replaced(o, q) ==
  IF ToldWorking(o)
  THEN [o EXCEPT !.status = "ACCEPTED", !.qty = q, !.leaves = Minus(q, o.exec)] ELSE o

NoEvent == [kind |-> "none", status |-> "SUBMITTED", qty |-> 0, exec |-> 0, leaves |-> 0]
OrderAccepted == [NoEvent EXCEPT !.kind = "accepted"]
OrderRejected == [NoEvent EXCEPT !.kind = "rejected"]
OrderFilled(cum, left) == [NoEvent EXCEPT !.kind = "filled", !.exec = cum, !.leaves = left]
OrderEnded(st) == [NoEvent EXCEPT !.kind = "ended", !.status = st]
OrderReplaced(q) == [NoEvent EXCEPT !.kind = "replaced", !.qty = q]
\* the order's row in BrokerOpenOrders
OrderListed(o) == [kind |-> "listed", status |-> o.status, qty |-> o.qty, exec |-> o.exec,
                   leaves |-> o.leaves]
Fold(o, e) ==
  CASE e.kind = "accepted" -> Accepted(o)
    [] e.kind = "rejected" -> Rejected(o)
    [] e.kind = "filled"   -> Filled(o, e.exec, e.leaves)
    [] e.kind = "ended"    -> Ended(o, e.status)
    [] e.kind = "replaced" -> Replaced(o, e.qty)
    [] e.kind = "listed"   -> [status |-> e.status, qty |-> e.qty, exec |-> e.exec,
                               leaves |-> e.leaves]
    [] OTHER -> o

\* The core folds what is emitted, once it runs and has no older events.
Queue(q, e) == IF e.kind = "none" THEN q ELSE Append(q, e)
EmitBoth(e, d) ==
  IF up /\ inbox = <<>>
  THEN told' = Fold(Fold(told, e), d) /\ UNCHANGED inbox
  ELSE inbox' = Queue(Queue(inbox, e), d) /\ UNCHANGED told
Emit(e) == EmitBoth(e, NoEvent)

FoldOldest ==
  /\ up /\ inbox # <<>>
  /\ told' = Fold(told, Head(inbox))
  /\ inbox' = Tail(inbox)
  /\ UNCHANGED <<broker, stream, memory, swap, job, canceling, polled, up, lost>>

-----------------------------------------------------------------------------
(* The broker: TradeZero's books and its stream *)

Frame(l, v) == [leg |-> l, status |-> Status(v), exec |-> v.exec, fill |-> v.exec > legs[l].exec,
                qty |-> v.qty]
\* A change of a leg is pushed; while the stream is down the push is lost.
Push(l, v) ==
  /\ legs' = [legs EXCEPT ![l] = v]
  /\ frames' = IF online THEN Append(frames, Frame(l, v)) ELSE frames

Fill(l) ==
  LET v == [legs[l] EXCEPT !.exec = @ + 1,
                           !.st = IF legs[l].exec + 1 = legs[l].qty THEN "filled" ELSE @]
  IN  /\ Open(l)
      /\ Push(l, v)
      /\ UNCHANGED <<online, sync, memory, swap, job, canceling, polled, engine, upsets>>

Cancels(l) ==
  /\ legs[l].st = "pending"
  /\ Push(l, [legs[l] EXCEPT !.st = "canceled"])
  /\ UNCHANGED <<online, sync, memory, swap, job, canceling, polled, engine, upsets>>

Expires(l) ==
  /\ Open(l)
  /\ Upset("expire")
  /\ Push(l, [legs[l] EXCEPT !.st = "expired"])
  /\ UNCHANGED <<online, sync, memory, swap, job, canceling, polled, engine>>

-----------------------------------------------------------------------------
(* Requests of the REST client *)

\* submitOrder of leg l: ok, rejected, or no answer; without an answer the
\* order may have landed all the same.
Lands(l, q) == Push(l, [st |-> "open", qty |-> q, exec |-> 0])
Refused(l, q) == Upset("refuse") /\ Push(l, [st |-> "rejected", qty |-> q, exec |-> 0])
Unanswered(l, q) ==
  /\ Upset("request")
  /\ lost' = lost \cup {"answer"}
  /\ Lands(l, q) \/ UNCHANGED <<legs, frames>>

\* cancelOrder of leg l: an open leg becomes pending; a terminal one is a 404
\* that the poll of the orders list resolves to success; an unknown one fails.
CancelSucceeds(l) ==
  \/ /\ Open(l)
     /\ legs' = [legs EXCEPT ![l].st = "pending"]
     /\ UNCHANGED upsets
  \/ /\ ~Open(l) /\ legs[l].st # "none"
     /\ UNCHANGED broker
CancelFails(l) ==
  \/ legs[l].st = "none" /\ UNCHANGED broker
  \/ /\ Upset("request")
     /\ \/ Open(l) /\ legs' = [legs EXCEPT ![l].st = "pending"]
        \/ UNCHANGED legs

-----------------------------------------------------------------------------
(* SubmitOrder *)

Goto(at) == job' = [job EXCEPT !.at = at]

Post ==
  /\ up /\ job.at = "post"
  /\ \/ Lands(0, job.want) /\ Goto("posted") /\ UNCHANGED <<core, upsets, lost>>
     \/ Refused(0, job.want) /\ job' = IdleJob /\ Emit(OrderRejected) /\ UNCHANGED lost
     \/ Unanswered(0, job.want) /\ job' = IdleJob /\ Emit(OrderRejected)
  /\ UNCHANGED <<online, sync, memory, swap, canceling, polled, up>>

Register ==
  /\ up /\ job.at = "posted"
  /\ current' = 0
  /\ reqQty' = job.want
  /\ Goto("accepted")
  /\ UNCHANGED <<broker, stream, seen, met, seq, lastKnown, connected, swap, canceling, polled,
                 engine>>

EmitAccepted ==
  /\ up /\ job.at = "accepted"
  /\ Emit(OrderAccepted)
  /\ job' = IdleJob
  /\ UNCHANGED <<broker, stream, memory, swap, canceling, polled, up, lost>>

-----------------------------------------------------------------------------
(* ReplaceOrder *)

Target == IF current = NoLeg THEN 0 ELSE current

\* want 0 is a replace of the price alone
StartReplace(want) ==
  /\ up /\ job.at = "idle" /\ replacing = NoLeg /\ reqQty > 0
  /\ inbox = <<>> /\ ToldWorking(told) /\ seq < MaxLegs
  /\ replacing' = Target
  /\ confirmed' = FALSE
  /\ job' = [IdleJob EXCEPT !.at = "cancel", !.orig = reqQty, !.want = want, !.leg = Target]
  /\ UNCHANGED <<broker, stream, memory, canceling, polled, engine>>

CancelOld ==
  /\ up /\ job.at = "cancel"
  /\ \/ CancelSucceeds(job.leg) /\ Goto("await")
     \/ CancelFails(job.leg) /\ Goto("give up")
  /\ UNCHANGED <<stream, memory, swap, canceling, polled, engine>>

\* The timer may win over a confirmation that is already there.
TimesOut ==
  /\ up /\ job.at = "await"
  /\ Upset("timeout")
  /\ Goto("give up")
  /\ UNCHANGED <<legs, stream, memory, swap, canceling, polled, engine>>

\* clearReplacing, on each path that ends the replace
GiveUp ==
  /\ up /\ job.at \in {"give up", "died"}
  /\ replacing' = NoLeg
  /\ job' = IF job.at = "died" THEN [job EXCEPT !.at = "dead"] ELSE IdleJob
  /\ UNCHANGED <<broker, stream, memory, confirmed, canceling, polled, engine>>

Total == IF job.want > 0 THEN job.want ELSE job.orig
\* wrong: the whole new size is submitted, whatever the old legs filled
RemainingUnfilled == Total
Remaining == Minus(Total, Executed(seen))

Confirmed ==
  /\ up /\ job.at = "await" /\ confirmed
  /\ confirmed' = FALSE
  /\ IF Remaining = 0
     THEN /\ replacing' = NoLeg
          /\ Goto("dead")
          /\ UNCHANGED <<seq, reqQty>>
     ELSE /\ seq' = seq + 1
          /\ reqQty' = Total
          /\ job' = [job EXCEPT !.at = "resubmit", !.qty = Remaining, !.want = Total,
                                !.leg = seq + 1]
          /\ UNCHANGED replacing
  /\ UNCHANGED <<broker, stream, seen, met, current, lastKnown, connected, canceling, polled,
                 engine>>

Resubmit ==
  /\ up /\ job.at = "resubmit"
  /\ \/ Lands(job.leg, job.qty) /\ Goto("resubmitted") /\ UNCHANGED <<upsets, lost>>
     \/ Refused(job.leg, job.qty) /\ Goto("died") /\ UNCHANGED lost
     \/ Unanswered(job.leg, job.qty) /\ Goto("died")
  /\ UNCHANGED <<online, sync, memory, swap, canceling, polled, core, up>>

Switch ==
  /\ up /\ job.at = "resubmitted"
  /\ current' = job.leg
  /\ replacing' = NoLeg
  /\ Goto("replaced")
  /\ UNCHANGED <<broker, stream, seen, met, seq, reqQty, lastKnown, connected, confirmed,
                 canceling, polled, engine>>

EmitReplaced ==
  /\ up /\ job.at = "replaced"
  /\ Emit(OrderReplaced(job.want))
  /\ job' = IdleJob
  /\ UNCHANGED <<broker, stream, memory, swap, canceling, polled, up, lost>>

EmitDead ==
  /\ up /\ job.at = "dead"
  /\ Emit(OrderEnded("CANCELED"))
  /\ job' = IdleJob
  /\ UNCHANGED <<broker, stream, memory, swap, canceling, polled, up, lost>>

-----------------------------------------------------------------------------
(* CancelOrder: the leg is read under the lock, the request goes after it *)

StartCancel ==
  /\ up /\ canceling = NoLeg /\ inbox = <<>> /\ ToldWorking(told)
  /\ canceling' = Target
  /\ UNCHANGED <<broker, stream, memory, swap, job, polled, engine>>

CancelRequest ==
  /\ up /\ canceling # NoLeg
  /\ CancelSucceeds(canceling) \/ CancelFails(canceling)
  /\ canceling' = NoLeg
  /\ UNCHANGED <<stream, memory, swap, job, polled, engine>>

-----------------------------------------------------------------------------
(* The reader: frames, and a reconcile before the frames of a connection *)

\* onCanceledLocked: a cancel during a replace is swallowed; the one of the
\* old leg confirms it.
Signals(l) == replacing = l

\* wrong: the cancel of the old leg reaches the core
OnCanceledLeaking == OrderEnded("CANCELED")
OnCanceled == IF replacing = NoLeg THEN OrderEnded("CANCELED") ELSE NoEvent

\* wrong: a replayed frame is counted again
NewFillAgain(f) == f.fill
NewFill(f) == f.fill /\ f.exec > seen[f.leg]
\* the size a fill is reported against; without an orderReq it is derived
FillTotal(s, l, qty) == IF reqQty > 0 THEN reqQty ELSE Executed(s) - s[l] + qty
\* normalizeOrder
ReadFrame ==
  LET f == Head(frames)
      s == IF NewFill(f) THEN [seen EXCEPT ![f.leg] = f.exec] ELSE seen
      cum == Executed(s)
      fill == IF NewFill(f) THEN OrderFilled(cum, Minus(FillTotal(s, f.leg, f.qty), cum))
              ELSE NoEvent
  IN  /\ online /\ syncing = "no" /\ frames # <<>>
      /\ frames' = Tail(frames)
      /\ seen' = s
      /\ met' = IF NewFill(f) THEN met \cup {f.leg} ELSE met
      /\ confirmed' = (confirmed \/ (f.status = "CANCELED" /\ Signals(f.leg)))
      /\ EmitBoth(fill, CASE f.status = "ACCEPTED" -> OrderAccepted
                           [] f.status = "CANCELED" -> OnCanceled
                           [] f.status = "REJECTED" -> OrderRejected
                           [] f.status = "EXPIRED"  -> OrderEnded("EXPIRED")
                           [] OTHER -> NoEvent)
      /\ UNCHANGED <<broker, online, sync, current, seq, reqQty, lastKnown, connected,
                     replacing, job, canceling, polled, up, lost>>

-----------------------------------------------------------------------------
(* The orders list of the day, which has a row for every leg *)

Present(rows) == {l \in Legs : rows[l].st # "none"}
OpenRow(v) == v.st \in OpenStates
\* legTier and pickColdStartLeg
Tier(v) == IF OpenRow(v) THEN 2 ELSE IF v.st = "rejected" THEN 0 ELSE 1
\* wrong: after a restart the row with the order's own id wins
ColdStartLegFirst(rows) == Min(Present(rows))
ColdStartLeg(rows) ==
  LET best == {l \in Present(rows) : \A k \in Present(rows) : Tier(rows[k]) <= Tier(rows[l])}
  IN  Max(best)
\* currentLegRows: the one row that stands for the order, if any
CurrentLeg(rows) ==
  CASE Present(rows) = {} -> NoLeg
    [] Cardinality(Present(rows)) = 1 -> CHOOSE l \in Present(rows) : TRUE
    [] Cardinality(Present(rows)) > 1 /\ current # NoLeg ->
         IF current \in Present(rows) THEN current ELSE NoLeg
    [] OTHER -> ColdStartLeg(rows)

\* restoreOrderStateLocked.  A reconnect keeps the counter of the current leg,
\* so that the fills it missed can still be told.
Restored(rows, c, keep) ==
  [l \in Legs |->
     IF rows[l].st = "none" \/ (l = c /\ keep /\ l \in met) THEN seen[l]
     ELSE Larger(rows[l].exec, seen[l])]
Met(rows, c) == met \cup {l \in Present(rows) : l = c \/ rows[l].exec > seen[l]}
\* orderReq is rebuilt from the rows when the process has none
RestoredQty(rows, c, s) ==
  IF reqQty > 0 \/ c = NoLeg THEN reqQty
  ELSE SumFunctionOnSet(s, Present(rows) \ {c}) + rows[c].qty
\* wrong: the number of the next leg, where the last one's is kept
RestoredSeqNext(rows) == Max(Present(rows) \cup {seq}) + 1
RestoredSeq(rows) == Max(Present(rows) \cup {seq})

\* domainOrderLocked: the row of the current leg as the whole order
\* wrong: the current leg is counted in the sum and on its own
DomainExecTwice(s, rows, c) == Executed(s) + rows[c].exec
DomainExec(s, rows, c) == Executed(s) - s[c] + Larger(rows[c].exec, s[c])
DomainOrder(s, q, rows, c) ==
  LET e == DomainExec(s, rows, c)
      total == IF q > 0 THEN q ELSE rows[c].qty + e - Larger(rows[c].exec, s[c])
  IN  [status |-> Status(rows[c]), qty |-> total, exec |-> e, leaves |-> Minus(total, e)]

\* handleConn(up): the frames of the new connection wait until the reconcile
\* ends; one that cannot read the list ends at once.
Connect ==
  /\ ~online
  /\ online' = TRUE
  /\ syncing' = "ask"
  /\ UNCHANGED <<broker, frames, snapshot, memory, swap, job, canceling, polled, engine>>

ReadSnapshot ==
  /\ syncing = "ask"
  /\ \/ syncing' = "apply" /\ snapshot' = legs /\ UNCHANGED <<upsets, lost>>
     \/ Upset("snapshot") /\ syncing' = "no" /\ lost' = lost \cup {"list"} /\ UNCHANGED snapshot
  /\ UNCHANGED <<legs, frames, online, memory, swap, job, canceling, polled, core, up>>

\* synthesizeTransitionLocked
MissedFill(s, q, rows, c) ==
  LET cum == Executed(s) + rows[c].exec - s[c]
      total == IF q > 0 THEN q ELSE cum - rows[c].exec + rows[c].qty
  IN  IF rows[c].exec > s[c] THEN OrderFilled(cum, Minus(total, cum)) ELSE NoEvent
MissedEnd(st) ==
  CASE st = "CANCELED" -> OnCanceled
    [] st = "REJECTED" -> OrderRejected
    [] st = "EXPIRED"  -> OrderEnded("EXPIRED")
    [] OTHER -> NoEvent

\* reconcile, once the snapshot is read: what the list says happened to the
\* order since the last list, then the list of the open orders.
ApplySnapshot ==
  LET rows == snapshot
      c == CurrentLeg(rows)
      s == Restored(rows, c, TRUE)
      q == RestoredQty(rows, c, s)
      st == Status(rows[c])
      missed == /\ connected /\ lastKnown # "none"
                /\ lastKnown # st \/ rows[c].exec > s[c]
      fill == IF missed THEN MissedFill(s, q, rows, c) ELSE NoEvent
      last == CASE OpenRow(rows[c]) -> OrderListed(DomainOrder(s, q, rows, c))
                [] ~OpenRow(rows[c]) /\ missed -> MissedEnd(st)
                [] OTHER -> NoEvent
  IN  /\ syncing = "apply"
      /\ syncing' = "no" /\ snapshot' = NoRows
      /\ connected' = TRUE
      /\ seq' = RestoredSeq(rows)
      /\ IF c = NoLeg
         THEN /\ seen' = s
              /\ UNCHANGED <<lastKnown, reqQty, current, core, confirmed>>
         ELSE /\ seen' = [s EXCEPT ![c] = Larger(@, rows[c].exec)]
              /\ lastKnown' = st
              /\ reqQty' = q
              /\ current' = c
              /\ EmitBoth(fill, last)
              /\ confirmed' = (confirmed \/ (missed /\ st = "CANCELED" /\ Signals(c)))
      /\ met' = Met(rows, c)
      /\ UNCHANGED <<broker, frames, online, replacing, job, canceling, polled, up, lost>>

-----------------------------------------------------------------------------
(* Snapshot: the list is read, and later folded into what is remembered *)

PollRead ==
  /\ polled = NoRows
  /\ polled' = legs
  /\ IF up THEN Upset("poll") ELSE UNCHANGED upsets
  /\ UNCHANGED <<legs, stream, memory, swap, job, canceling, engine>>

Restore(rows) ==
  LET c == CurrentLeg(rows)
      s == Restored(rows, c, FALSE)
  IN  /\ seen' = s /\ met' = Met(rows, c)
      /\ seq' = RestoredSeq(rows)
      /\ reqQty' = RestoredQty(rows, c, s)
      /\ current' = IF c = NoLeg THEN current ELSE c
      /\ polled' = NoRows
      /\ UNCHANGED <<lastKnown, connected>>

\* AccountPoller.pollOne: each second, and it drops the orders it is given
PollApply ==
  /\ up /\ polled # NoRows
  /\ Restore(polled)
  /\ lost' = IF current \in {NoLeg, current'} THEN lost ELSE lost \cup {"leg"}
  /\ UNCHANGED <<broker, stream, swap, job, canceling, core, up>>

\* Recover: its one row of the order replaces the logged order; without an
\* answer the core starts with the log alone.
Boot ==
  /\ ~up
  /\ up' = TRUE
  /\ \/ LET c == CurrentLeg(polled)
            s == Restored(polled, c, FALSE)
        IN  /\ Present(polled) = Present(legs)
            /\ Restore(polled)
            /\ told' = IF c = NoLeg THEN told
                       ELSE DomainOrder(s, RestoredQty(polled, c, s), polled, c)
            /\ UNCHANGED <<upsets, lost>>
     \/ /\ Upset("snapshot")
        /\ polled' = NoRows
        /\ lost' = lost \cup {"list"}
        /\ UNCHANGED <<memory, told>>
  /\ UNCHANGED <<legs, stream, swap, job, canceling, inbox>>

-----------------------------------------------------------------------------
(* Failures of the stream and of the process *)

Drop ==
  /\ online
  /\ Upset("drop")
  /\ lost' = lost \cup {"push"}
  /\ online' = FALSE /\ frames' = <<>> /\ syncing' = "no" /\ snapshot' = NoRows
  /\ UNCHANGED <<legs, memory, swap, job, canceling, polled, core, up>>

\* The engine dies; what the core logged survives it, and a request already on
\* its way may still land.  The adapter of the next process starts anew.
Crash ==
  /\ up
  /\ Upset("crash")
  /\ up' = FALSE
  /\ \/ UNCHANGED legs
     \/ \E l \in {job.leg, canceling} :
          /\ l # NoLeg /\ (l = canceling \/ job.at = "cancel") /\ Open(l)
          /\ legs' = [legs EXCEPT ![l].st = "pending"]
  /\ online' = FALSE /\ frames' = <<>> /\ syncing' = "no" /\ snapshot' = NoRows
  /\ seen' = [l \in Legs |-> 0] /\ met' = {}
  /\ current' = NoLeg /\ seq' = 0 /\ reqQty' = 0
  /\ lastKnown' = "none" /\ connected' = FALSE
  /\ replacing' = NoLeg /\ confirmed' = FALSE
  /\ job' = IdleJob /\ canceling' = NoLeg
  /\ polled' = NoRows /\ inbox' = <<>>
  /\ UNCHANGED <<told, lost>>

-----------------------------------------------------------------------------

Init ==
  /\ legs = NoRows
  /\ frames = <<>> /\ online = TRUE /\ syncing = "no" /\ snapshot = NoRows
  /\ seen = [l \in Legs |-> 0] /\ met = {}
  /\ current = NoLeg /\ seq = 0 /\ reqQty = 0
  /\ lastKnown = "none" /\ connected = TRUE
  /\ replacing = NoLeg /\ confirmed = FALSE
  /\ \E q \in 1 .. MaxQty :
       /\ job = [IdleJob EXCEPT !.at = "post", !.want = q]
       /\ told = [status |-> "SUBMITTED", qty |-> q, exec |-> 0, leaves |-> q]
  /\ canceling = NoLeg
  /\ polled = NoRows /\ inbox = <<>>
  /\ up = TRUE /\ lost = {}
  /\ upsets = 0

BrokerNext == \E l \in Legs : Fill(l) \/ Cancels(l) \/ Expires(l)
Submits == Post \/ Register \/ EmitAccepted
Replaces == \/ \E q \in Qtys : StartReplace(q)
            \/ CancelOld \/ TimesOut \/ GiveUp \/ Confirmed \/ Resubmit
            \/ Switch \/ EmitReplaced \/ EmitDead
Next == \/ BrokerNext \/ Submits \/ Replaces
        \/ StartCancel \/ CancelRequest
        \/ ReadFrame \/ Drop \/ Connect \/ ReadSnapshot \/ ApplySnapshot
        \/ PollRead \/ PollApply \/ FoldOldest \/ Crash \/ Boot

Spec == Init /\ [][Next]_vars

-----------------------------------------------------------------------------
(* What the adapter promises of one order *)

TypeOK ==
  /\ legs \in [Legs -> Leg] /\ snapshot \in [Legs -> Leg]
  /\ \A i \in DOMAIN frames : frames[i].leg \in Legs
  /\ online \in BOOLEAN /\ syncing \in {"no", "ask", "apply"}
  /\ seen \in [Legs -> Nat] /\ met \subseteq Legs
  /\ current \in Maybe /\ seq \in Legs /\ reqQty \in Nat
  /\ lastKnown \in WorkingStates \cup DeadStates \cup {"none"}
  /\ connected \in BOOLEAN /\ replacing \in Maybe /\ confirmed \in BOOLEAN
  /\ job \in Job /\ canceling \in Maybe
  /\ polled \in [Legs -> Leg] /\ told \in Told /\ inbox \in Seq(Event)
  /\ up \in BOOLEAN /\ lost \subseteq Losses
  /\ upsets \in 0 .. MaxUpsets

Booked == [l \in Legs |-> legs[l].exec]
Committed == SumFunctionOnSet([l \in Legs |-> IF Open(l) THEN legs[l].qty ELSE legs[l].exec], Legs)
Quiet == up /\ inbox = <<>> /\ online /\ syncing = "no" /\ frames = <<>> /\ job.at = "idle"

\* One order never has two legs that can fill: the next one is submitted only
\* when the end of the last is certain, whatever the stream, the lists, the polls
\* and the timer do; unless the answer to a submit was lost, or a poll has put
\* an earlier leg back.
OneLegLive == lost \cap {"answer", "leg"} = {} => \A k, l \in Legs : Open(k) /\ Open(l) => k = l

\* What the legs have filled and may still fill never exceeds the size asked
\* for, fills of the old leg during the replace included; only a list that could
\* not be read leaves fills nobody counts, only a lost answer a leg nobody
\* knows, and only a poll that puts an earlier leg back one nobody cancels.
InSize == up /\ lost \subseteq {"push"} =>
            Committed <= (IF reqQty > 0 THEN reqQty ELSE Larger(job.want, told.qty))

\* No share is reported that did not trade: a fill read from a list and from
\* the frames behind it, or before and after a restart, counts once
NeverOvercounts == told.exec <= Executed(Booked)
\* and, once the core has folded what was emitted while it booted, none reported
\* is taken back while it runs, unless a process never got its first list.
FillsNeverFall ==
  [][up /\ up' /\ inbox = <<>> /\ "list" \notin lost => told'.exec >= told.exec]_vars

\* As long as nothing is lost, an order the core calls done has no leg that
\* can fill: the cancel of a replace is not the end of the order.
DoneIsDone == lost = {} /\ ~ToldWorking(told) => \A l \in Legs : ~Open(l)

\* As long as nothing is lost, over restarts, the engine has a live leg in
\* hand: it is working for the core, a cancel reaches it, and all it may
\* still fill is counted.
LiveIsHeld ==
  Quiet /\ lost = {} =>
    \A l \in Legs : Open(l) => /\ ToldWorking(told) /\ Target = l
                               /\ told.leaves >= legs[l].qty - legs[l].exec

-----------------------------------------------------------------------------
(* What the repository says, and the code does not do *)

\* a second OrderAccepted "may also arrive and re-normalize to the same event
\* - harmless": an order the core folded as done stays done.
DoneStaysDone == [][up /\ up' /\ ~ToldWorking(told) => ~ToldWorking(told')]_vars
=============================================================================
