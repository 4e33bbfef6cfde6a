----------------------------- MODULE HeldOrders -----------------------------
(***************************************************************************)
(* What a handler of the core does to one order: the Change it persists    *)
(* and whether it starts a broker cancel.  An engine-held order is one     *)
(* parent row that waits in the engine (WAITING, ARMED, PAUSED) and, once  *)
(* triggered, stands for its only venue child (ACTIVATING, WORKING).       *)
(***************************************************************************)
EXTENDS ExecState

\* changeHeld
HeldTo(o, phase) ==
  HeldChange([o.held EXCEPT !.phase = phase, !.cancelRequested = FALSE])
\* wrong: a canceled parent keeps its phase and still counts as waiting
LiveByPhase(o) == o.held.phase \in {"WAITING", "ARMED"}
Live(o) == Working(o) /\ o.held.phase \in {"WAITING", "ARMED"}
\* wrong: pauses a parent whose child is on its way
PauseAnyPhase(o) == IF Working(o) /\ IsHeld(o) THEN HeldTo(o, "PAUSED") ELSE NoChange
\* wrong: forgets the parents a print has already armed
PauseWaiting(o) ==
  IF Working(o) /\ o.held.phase = "WAITING" THEN HeldTo(o, "PAUSED") ELSE NoChange
Pause(o) == IF Live(o) THEN HeldTo(o, "PAUSED") ELSE NoChange

\* requestHeldVenueCancel: a child whose submit is still in flight is not
\* canceled now; its acceptance dispatches the cancel.
AskCancel(o) ==
  IF Unresolved(o, "CANCEL") THEN NoChange
  ELSE [NoChange EXCEPT
          !.action = Requested("CANCEL", 0),
          !.held = [o.held EXCEPT !.phase = "CANCEL_REQUESTED", !.cancelRequested = TRUE,
                                  !.cancelSent = @ \/ o.held.phase # "ACTIVATING"]]
AskCancelSends(o) == ~Unresolved(o, "CANCEL") /\ o.held.phase # "ACTIVATING"

\* handleCancel
CancelRefused(o) ==
  \/ o.status = "NONE"
  \/ Unresolved(o, "CANCEL") \/ Unresolved(o, "SUBMIT")
  \/ IsHeld(o) /\ (o.held.cancelRequested \/ o.held.phase = "CANCEL_REQUESTED")
\* wrong: the order is canceled as soon as the cancel is asked for
CancelAtOnce(o) == IF CancelRefused(o) THEN NoChange ELSE LifeChange(LifeEvent("OrderCanceled"))
Cancel(o) ==
  CASE CancelRefused(o) -> NoChange
    [] ~CancelRefused(o) /\ o.held.phase \in Pretrigger -> LifeChange(LifeEvent("OrderCanceled"))
    [] ~CancelRefused(o) /\ IsHeld(o) /\ o.held.phase \notin Pretrigger -> AskCancel(o)
    [] ~CancelRefused(o) /\ ~IsHeld(o) -> ActionChange(Requested("CANCEL", 0))
CancelSends(o) ==
  /\ ~CancelRefused(o)
  /\ o.held.phase \notin Pretrigger
  /\ IsHeld(o) => AskCancelSends(o)

\* wrong: a disarm leaves what a print has already armed
DisarmWaiting(o, kill) == IF o.held.phase = "WAITING" THEN HeldTo(o, "PAUSED") ELSE NoChange
\* disarmHeld
Disarm(o, kill) ==
  IF ~Working(o) THEN NoChange
  ELSE CASE o.held.phase \in Pretrigger ->
              IF kill THEN LifeChange(LifeEvent("OrderCanceled")) ELSE HeldTo(o, "PAUSED")
         [] o.held.phase = "ACTIVATING" -> AskCancel(o)
         [] OTHER -> NoChange
\* handleKill: disarmHeld, then handleCancel on what still works.  An order
\* disarmHeld changed is canceled or has an unresolved CANCEL, which
\* handleCancel leaves alone.
Kill(o) ==
  IF ~Working(o) THEN NoChange
  ELSE IF o.held.phase \in Pretrigger \cup {"ACTIVATING"} THEN Disarm(o, TRUE) ELSE Cancel(o)
KillSends(o) ==
  Working(o) /\ o.held.phase \notin Pretrigger \cup {"ACTIVATING"} /\ CancelSends(o)

\* expireHeldOrders
Expire(o) ==
  CASE ~(Working(o) /\ IsHeld(o)) -> NoChange
    [] Working(o) /\ o.held.phase \in Pretrigger -> LifeChange(LifeEvent("OrderExpired"))
    [] Working(o) /\ o.held.phase \in {"ACTIVATING", "WORKING"} ->
         IF o.held.cancelRequested THEN NoChange ELSE AskCancel(o)
    [] OTHER -> NoChange
ExpireSends(o) ==
  Working(o) /\ o.held.phase = "WORKING" /\ ~o.held.cancelRequested /\ AskCancelSends(o)

\* shutdownHeldOrders.  A cancel it sends that fails is noted as UNKNOWN before the
\* process exits; Recover makes the same of a REQUESTED one, so the note is left out.
ShutdownCancels(o) ==
  /\ Working(o)
  /\ o.held.phase = "WORKING" \/ (o.held.phase = "CANCEL_REQUESTED" /\ o.held.cancelSent)
Shutdown(o) ==
  CASE Live(o) -> HeldTo(o, "PAUSED")
    [] Working(o) /\ o.held.phase = "ACTIVATING" -> AskCancel(o)
    [] ShutdownCancels(o) ->
         [NoChange EXCEPT
            !.action = Requested("CANCEL", 0),
            !.held = [o.held EXCEPT !.phase = "CANCEL_REQUESTED",
                                    !.cancelRequested = TRUE, !.cancelSent = TRUE]]
    [] OTHER -> NoChange

\* handleBrokerEvent on OrderAccepted of a child
CancelWanted(o) == o.held.cancelRequested \/ o.held.phase = "CANCEL_REQUESTED"
ChildAwaited(o) == o.held.child /\ (o.held.phase = "ACTIVATING" \/ CancelWanted(o))
ChildAccepted(o) ==
  IF CancelWanted(o)
  THEN [o.held EXCEPT !.phase = "CANCEL_REQUESTED", !.cancelRequested = TRUE, !.cancelSent = TRUE]
  ELSE [o.held EXCEPT !.phase = "WORKING"]
\* wrong: looks for the cancel only where the phase was not yet changed
DeferredWhileActivating(o) ==
  o.held.child /\ o.held.phase = "ACTIVATING" /\ o.held.cancelRequested /\ ~o.held.cancelSent
DeferredCancel(o) ==
  /\ ChildAwaited(o) /\ CancelWanted(o)
  /\ ~o.held.cancelSent \/ (o.action.kind = "CANCEL" /\ o.action.phase = "UNKNOWN")

\* wrong: confirms only what an error has already put in doubt
ConfirmSellInDoubt(o) ==
  IF Working(o) /\ o.action.kind = "SUBMIT" /\ o.action.phase = "UNKNOWN"
  THEN ActionChange([o.action EXCEPT !.phase = "CONFIRMED"]) ELSE NoChange
\* confirmSellSubmit
ConfirmSell(o) ==
  IF Working(o) /\ Unresolved(o, "SUBMIT")
  THEN ActionChange([o.action EXCEPT !.phase = "CONFIRMED"]) ELSE NoChange

\* handleBrokerEvent on a lifecycle event
OnLife(o, e) ==
  [life |-> e,
   action |-> IF e.ev = "OrderReplaced" THEN ConfirmSell(o).action ELSE KeepAction,
   held |-> IF e.ev = "OrderAccepted" /\ ChildAwaited(o) THEN ChildAccepted(o) ELSE KeepHeld]
=============================================================================
