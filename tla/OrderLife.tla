----------------------------- MODULE OrderLife -----------------------------
(***************************************************************************)
(* What the engine promises of the life of each order, whatever fails.  An *)
(* order is sent to the broker once at most; a native order is sent as     *)
(* soon as it is accepted, an engine-held one is kept first and may end    *)
(* without ever being sent; an order that is done stays so.                *)
(***************************************************************************)
CONSTANTS
  Orders,     \* order ids
  HeldIds     \* the ids the engine holds until a print triggers them

VARIABLE stage   \* by id

\* kept: in the log, nothing at the broker.  sent: working at the broker or on
\* its way there.  done: nothing at the broker, and nothing to come.
Stages == {"unknown", "kept", "sent", "done"}

Keep(i) == i \in HeldIds /\ stage[i] = "unknown" /\ stage'[i] = "kept"
Refuse(i) == stage[i] = "unknown" /\ stage'[i] = "done"
Send(i) ==
  /\ stage[i] = (IF i \in HeldIds THEN "kept" ELSE "unknown")
  /\ stage'[i] = "sent"
Finish(i) == stage[i] \in {"kept", "sent"} /\ stage'[i] = "done"
Stay(i) == stage'[i] = stage[i]

Init == stage = [i \in Orders |-> "unknown"]

\* Orders live side by side: one event may finish several of them.
Next ==
  /\ stage' \in [Orders -> Stages]
  /\ \A i \in Orders : Keep(i) \/ Refuse(i) \/ Send(i) \/ Finish(i) \/ Stay(i)

Spec == Init /\ [][Next]_stage
=============================================================================
