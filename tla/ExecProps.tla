----------------------------- MODULE ExecProps -----------------------------
(***************************************************************************)
(* What the execution core promises, stated over the broker's books, the   *)
(* requests in flight, the stream, the live orders and the log.            *)
(***************************************************************************)
EXTENDS ExecCore, FiniteSetsExt

\* Every variable stays in its domain (position, a sum over fills, has none
\* but the integers).
VenueTypeOK ==
  /\ venue \in [Orders -> VenueOrder]
  /\ shares \in Int
  /\ closing \in BOOLEAN
  /\ net \subseteq Requests
  /\ outcomes \subseteq Outcomes
  /\ flatJob \in FlatJobs
  /\ wire \in Seq(Msgs)
  /\ online \in BOOLEAN
  /\ connected \in BOOLEAN
  /\ tracked \in [Orders -> BOOLEAN]
  /\ counted \in [Orders -> BOOLEAN]
  /\ seenQty \in [Orders -> Qtys]
  /\ landed \subseteq Requests
  /\ upsets \in 0 .. MaxUpsets
  /\ misread \subseteq Orders
  /\ rewound \subseteq Orders
CoreTypeOK ==
  /\ up \in BOOLEAN
  /\ orders \in [Orders -> Order]
  /\ logged \in [Orders -> Order]
  /\ actionLog \in [Orders -> Action]
  /\ ready \in BOOLEAN
  /\ flattenPending \in BOOLEAN
  /\ armed \in BOOLEAN
  /\ printHealthy \in BOOLEAN
  /\ now \in 0 .. MaxClock
  /\ lastGap \in 0 .. MaxClock
  /\ lastPrint \in Prints
  /\ scan \subseteq HeldIds
  /\ posts \in [Orders -> Nat]
TypeOK == VenueTypeOK /\ CoreTypeOK

SubmitInFlight(i) == \E r \in net : r.kind \in SubmitKinds /\ r.id = i
AtVenue(i) == venue[i].st # "none" \/ SubmitInFlight(i)
\* works at the broker, or may come to
AtBroker(i) == OpenAt(i) \/ (venue[i].st = "none" /\ SubmitInFlight(i))

-----------------------------------------------------------------------------
(* Custody: one parent, at most one child *)

\* No id is ever POSTed twice, over restarts, resumes and cached prints: an
\* activation in doubt is reconciled, never repeated.
AtMostOnePost == \A i \in Orders : posts[i] <= 1

\* What is at the broker, or on its way there, is already in the durable log,
\* and for a held parent with its child id: a crash can hide no order.
IntentBeforePost ==
  \A i \in Orders :
    AtVenue(i) => /\ logged[i].status # "NONE"
                  /\ i \in HeldIds => logged[i].held.child

\* A parent the core still treats as local has nothing at the broker, so its
\* cancel, its replace and its expiry may stay local.
PretriggerHasNoChild ==
  \A i \in Orders : up /\ orders[i].held.phase \in Pretrigger => ~AtVenue(i)

\* Replaying the log gives the live custody and, unless a list showed the order
\* under an odd status, the live action: an overlay of a broker list never leaves
\* either only in memory.
CustodyDurable ==
  \A i \in Orders : /\ orders[i].held = logged[i].held
                    /\ i \notin misread => orders[i].action = logged[i].action

\* Each order lives as OrderLife promises: once sent it is never sent again,
\* and one that ended while the engine kept it is never sent, although its
\* held phase still reads WAITING or ARMED.
Over == {"BLOCKED", "REJECTED", "FILLED", "CANCELED", "EXPIRED", "REPLACED"}
Stage(i) ==
  CASE AtBroker(i) -> "sent"
    [] ~AtBroker(i) /\ (posts[i] > 0 \/ logged[i].status \in Over) -> "done"
    [] ~AtBroker(i) /\ posts[i] = 0 /\ logged[i].status = "NONE" -> "unknown"
    [] ~AtBroker(i) /\ posts[i] = 0 /\ Working(logged[i]) -> "kept"
stages == [i \in Orders |-> Stage(i)]
Lives == INSTANCE OrderLife WITH stage <- stages
LivesAsPromised == Lives!Spec

\* While the engine is disarmed no held order waits for a print.
DisarmedIsPaused == up /\ ~armed => \A i \in Orders : ~Live(orders[i])

\* A held SELL waits for a print only while the position it exits is known
\* and no Flatten is pending; only a Resume brings it back.
HeldSellLiveOnlyWhenReady ==
  \A i \in Sells : up /\ Live(orders[i]) => ready /\ ~flattenPending

-----------------------------------------------------------------------------
(* Reservations *)

\* the sizes order i has or may still get at the broker
Sizes(i) ==
  IF AtBroker(i)
  THEN {r.qty : r \in {q \in net : q.id = i /\ q.kind # "CANCEL"}}
         \cup (IF OpenAt(i) THEN {venue[i].qty} ELSE {})
  ELSE {}
Exposure(i) == IF Sizes(i) = {} THEN 0 ELSE Max(Sizes(i)) - venue[i].exec

\* Every share an order may still sell is committed by the core, unless a list
\* showed the order under a status the core does not count as working: the core
\* takes that status as it is and commits nothing (ReconcileOpenOrders).
Reserved ==
  up /\ ready => \A i \in Sells \ misread : Exposure(i) <= CommittedLeaves(orders[i])

\* All that the account's orders may still sell is held in the account, as long
\* as no SELL was so listed: the shares of one that was are free to be sold again.
NoOversell ==
  Sells \cap misread = {} =>
    SumFunctionOnSet([i \in Orders |-> Exposure(i)], Sells) <= shares

-----------------------------------------------------------------------------
(* Agreement with the broker *)

Settled == up /\ ready /\ online /\ wire = <<>> /\ flatJob.st = "idle"

\* Once the stream is drained, a ready position is the broker's.
SettledPosition == Settled => position = shares
\* and an order working at the broker is one working in the core, unless a list
\* showed it under an odd status.
SettledOrders ==
  Settled => \A i \in Orders \ misread :
    OpenAt(i) => /\ Working(orders[i])
                 /\ orders[i].qty = venue[i].qty /\ orders[i].exec = venue[i].exec

\* An order the core calls done is done at the broker too, unless a list of the
\* broker called it done while it was open.
TerminalTruth ==
  \A i \in Orders \ misread :
    orders[i].status \in {"FILLED", "CANCELED", "EXPIRED"} => ~OpenAt(i) /\ ~SubmitInFlight(i)

\* and stays so while the engine runs, unless SubmitOrder returned after the end
\* and wound the adapter's note of the order back (the next reconnect then
\* reports its fills and its end again).
NeverRevived ==
  [][\A i \in Orders \ (misread \cup rewound) :
       up /\ up' /\ orders[i].status \in {"FILLED", "CANCELED", "EXPIRED"}
         => orders'[i].status = orders[i].status]_vars

-----------------------------------------------------------------------------
(* What must eventually happen *)

\* A cancel wanted of a held order whose child came to rest at the broker
\* reaches the broker, or the operator sees it in doubt.
CancelReaches ==
  \A i \in HeldIds :
    (up /\ OpenAt(i) /\ CancelWanted(orders[i]))
      ~> (~OpenAt(i) \/ (orders[i].action.kind = "CANCEL" /\ orders[i].action.phase = "UNKNOWN"))

\* A submit whose answer was lost stops being in doubt while its order rests
\* at the broker.
SubmitSettles ==
  \A i \in Orders :
    (OpenAt(i) /\ Unresolved(orders[i], "SUBMIT"))
      ~> (~Unresolved(orders[i], "SUBMIT") \/ ~OpenAt(i))

=============================================================================
