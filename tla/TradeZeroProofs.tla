-------------------------- MODULE TradeZeroProofs --------------------------
(***************************************************************************)
(* One order at TradeZero never has two legs that can fill, for every size  *)
(* and every number of replaces, polls and failures, as long as no answer   *)
(* to a submit is lost and no poll that read an older list moves the        *)
(* adapter off the current leg.                                             *)
(*                                                                         *)
(* A leg is submitted only by the order's own goroutine, and a second one   *)
(* only once the end of the last is confirmed.  The invariant says why the  *)
(* confirmation is never about another leg: when a live leg is not the one  *)
(* the adapter believes current, nothing the stream or a list can still     *)
(* say of the one it does believe current is a cancel that has just         *)
(* happened.                                                                *)
(***************************************************************************)
EXTENDS TradeZero, SumProofs

\* The types, with those of the frames.
Frames == [leg : Legs, status : WorkingStates \cup DeadStates, exec : Nat, fill : BOOLEAN, qty : Nat]
Typed ==
  /\ legs \in [Legs -> Leg] /\ snapshot \in [Legs -> Leg] /\ polled \in [Legs -> Leg]
  /\ frames \in Seq(Frames) /\ job \in Job
  /\ seen \in [Legs -> Nat] /\ met \subseteq Legs /\ reqQty \in Nat
  /\ current \in Maybe /\ seq \in Legs /\ replacing \in Maybe /\ canceling \in Maybe
  /\ confirmed \in BOOLEAN /\ up \in BOOLEAN /\ online \in BOOLEAN
  /\ syncing \in {"no", "ask", "apply"}
\* what the steps of the proof about the legs do not need
Recorded ==
  /\ told \in Told /\ inbox \in Seq(Event)
  /\ lastKnown \in WorkingStates \cup DeadStates \cup {"none"}
  /\ connected \in BOOLEAN /\ lost \subseteq Losses
  /\ upsets \in 0 .. MaxUpsets

Alive == \E k \in Legs : Open(k)
Replacing == job.at \in {"cancel", "await"}
\* the end of the old leg is certain and the next one not yet submitted
Sure == job.at = "resubmit" \/ (Replacing /\ confirmed)
Queued == {frames[i] : i \in 1 .. Len(frames)}
NoCancelFrame(l) == \A f \in Queued : f.leg = l => f.status # "CANCELED"
NoCancelFrames == \A f \in Queued : f.status # "CANCELED"
Listed(l) == snapshot[l].st # "none"
Polled(l) == polled[l].st # "none"
Mail == {inbox[i] : i \in 1 .. Len(inbox)}
Known(l) == legs[l].st # "none"

\* the adapter does not know the order
Blank == job.at = "idle" /\ current = NoLeg
\* no leg is submitted before the adapter knows the order and the core runs
Still == Blank \/ ~up

\* what a restart and a lost connection leave behind
Reset ==
  /\ ~online => frames = <<>> /\ syncing = "no"
  /\ ~up \/ inbox # <<>> => job = IdleJob /\ replacing = NoLeg
\* what is read of a leg's end is its end
Truthful ==
  /\ \A f \in Queued : Known(f.leg) /\ (f.status = "CANCELED" => legs[f.leg].st = "canceled")
  /\ \A l \in Legs : Listed(l) => Known(l)
  /\ \A l \in Legs : Listed(l) /\ ~OpenRow(snapshot[l]) => snapshot[l] = legs[l]
  /\ \A l \in Legs : Polled(l) => Known(l)
  /\ \A l \in Legs : Polled(l) /\ ~OpenRow(polled[l]) => polled[l] = legs[l]
\* the legs are numbered in the order they are submitted
Numbered ==
  /\ ~Blank => \A l \in Legs : Known(l) => l <= seq
  /\ Replacing => seq < MaxLegs /\ replacing = job.leg /\ replacing # NoLeg
  /\ job.at \notin {"idle", "post", "posted"} => current # NoLeg
  /\ job.at \in {"resubmit", "resubmitted"} => job.leg = seq
  /\ job.at = "resubmit" => ~Known(job.leg)
  /\ job.at = "post" => current = NoLeg /\ \A l \in Legs : ~Known(l)
  /\ job.at = "posted" => \A l \in Legs : Known(l) => l = 0
  /\ current = NoLeg => reqQty = 0
\* what an adapter that does not know the order reads of it has every leg
AllOrNone ==
  Still => /\ (\A l \in Legs : ~Listed(l)) \/ \A l \in Legs : Known(l) => Listed(l)
           /\ (\A l \in Legs : ~Polled(l)) \/ \A l \in Legs : Known(l) => Polled(l)
\* an open leg that was just submitted is the one submitted
Newest ==
  /\ job.at = "posted" => \A l \in Legs : Open(l) => l = 0
  /\ job.at = "resubmitted" => \A l \in Legs : Open(l) => l = job.leg
\* a list read before the next leg was submitted lacks only that one
ListBehind ==
  syncing = "apply" =>
    /\ Sure => \A l \in Legs : ~OpenRow(snapshot[l]) /\ (Known(l) => Listed(l))
    /\ \A k, l \in Legs : Open(k) /\ k # l => ~OpenRow(snapshot[l]) /\ (Known(l) => Listed(l))
\* a leg that is wrongly believed current has nothing left to be told
Settled(l) ==
  /\ Known(l) /\ NoCancelFrame(l)
  /\ lastKnown = Status(legs[l]) /\ seen[l] >= legs[l].exec
StaleIsSettled ==
  \A k \in Legs :
    /\ Open(k) /\ current \notin {NoLeg, k} /\ job.at # "resubmitted" => Settled(current)
    /\ Open(k) /\ Replacing /\ replacing # k => current = replacing
OneOpen == \A k, l \in Legs : Open(k) /\ Open(l) => k = l
PollBehind == Still => \A k, l \in Legs : Open(k) /\ k # l => ~OpenRow(polled[l])

Certain ==
  /\ OneOpen
  /\ Sure => ~Alive
  /\ syncing # "no" /\ (Sure \/ Alive) => NoCancelFrames
  /\ Newest /\ ListBehind /\ PollBehind /\ StaleIsSettled

\* what a process remembers before its core runs, the lists told it
Remembered == ~up /\ current # NoLeg => Known(current)
Shape == Reset /\ Truthful /\ Numbered /\ AllOrNone /\ Remembered
\* what makes it certain which legs live
Sound == lost \cap {"answer", "leg"} = {}
IInv == Typed /\ Shape /\ (Sound => Certain)

-----------------------------------------------------------------------------
(* The operators *)

LEMMA MaxIsIn ==
  ASSUME NEW S \in SUBSET Legs, S # {}
  PROVE  Max(S) \in S /\ \A y \in S : y <= Max(S)
<1> DEFINE T == {MaxLegs - x : x \in S}
<1>1. S \subseteq Nat /\ \A x \in S : MaxLegs - x \in Nat
  BY TZAssumption DEF Legs
<1>2. T \subseteq Nat /\ T # {}
  BY <1>1
<1>3. PICK t \in T : \A y \in T : ~(<<y, t>> \in OpToRel(<, Nat))
  BY <1>2, NatLessThanWellFounded, WFMin
<1>4. PICK m \in S : t = MaxLegs - m
  BY <1>3
<1>5. ASSUME NEW y \in S PROVE m >= y
  <2>1. MaxLegs - y \in T
    OBVIOUS
  <2>2. ~(MaxLegs - y < MaxLegs - m)
    <3>1. <<MaxLegs - y, t>> \notin OpToRel(<, Nat)
      BY <1>3, <2>1
    <3> QED BY <1>1, <1>2, <1>3, <1>4, <2>1, <3>1 DEF OpToRel
  <2> QED BY <1>1, <1>4, <2>2, TZAssumption
<1>6. \E x \in S : \A y \in S : x >= y
  BY <1>5
<1> DEFINE M == Max(S)
<1>7. M \in S /\ \A y \in S : M >= y
  BY <1>6 DEF Max
<1> QED BY <1>1, <1>7

LEMMA LegsAreFinite == IsFiniteSet(Legs)
BY FS_Interval, TZAssumption DEF Legs

LEMMA MinusNat == \A a, b \in Nat : Minus(a, b) \in Nat
BY DEF Minus

\* What the legs have filled is a size (executedForDomainLocked).
LEMMA ExecutedNat ==
  ASSUME NEW s \in [Legs -> Nat]
  PROVE  Executed(s) \in Nat
<1>1. \A l \in Legs : s[l] \in Nat
  OBVIOUS
<1> QED BY <1>1, LegsAreFinite, SumNat DEF Executed

LEMMA StatusOfLeg ==
  ASSUME NEW v \in Leg
  PROVE  /\ Status(v) \in WorkingStates \cup DeadStates
         /\ Status(v) = "CANCELED" <=> v.st = "canceled"
BY DEF Leg, LegStates, Status, WorkingStates, DeadStates

LEMMA PresentIsFinite ==
  ASSUME NEW rows
  PROVE  /\ Present(rows) \subseteq Legs
         /\ IsFiniteSet(Present(rows)) /\ Cardinality(Present(rows)) \in Nat
<1>1. Present(rows) \subseteq Legs
  BY DEF Present
<1>2. IsFiniteSet(Legs)
  BY FS_Interval, TZAssumption DEF Legs
<1> QED BY <1>1, <1>2, FS_Subset, FS_CardinalityType

\* After a restart a live row wins over any other (pickColdStartLeg).
LEMMA ColdStartLegWins ==
  ASSUME NEW rows \in [Legs -> Leg], Present(rows) # {}
  PROVE  /\ ColdStartLeg(rows) \in Present(rows)
         /\ \A k \in Present(rows) : OpenRow(rows[k]) => OpenRow(rows[ColdStartLeg(rows)])
<1> DEFINE P == Present(rows)
           Best == {l \in P : \A k \in P : Tier(rows[k]) <= Tier(rows[l])}
           T == {2 - Tier(rows[l]) : l \in P}
<1>1. \A l \in P : Tier(rows[l]) \in {0, 1, 2}
  BY DEF Tier
<1>2. T \subseteq Nat /\ T # {}
  BY <1>1
<1>3. PICK t \in T : \A y \in T : ~(<<y, t>> \in OpToRel(<, Nat))
  BY <1>2, NatLessThanWellFounded, WFMin
<1>4. PICK m \in P : t = 2 - Tier(rows[m])
  BY <1>3
<1>5. ASSUME NEW k \in P PROVE Tier(rows[k]) <= Tier(rows[m])
  <2>1. 2 - Tier(rows[k]) \in T
    OBVIOUS
  <2>2. ~(2 - Tier(rows[k]) < 2 - Tier(rows[m]))
    <3>1. <<2 - Tier(rows[k]), t>> \notin OpToRel(<, Nat)
      BY <1>3, <2>1
    <3> QED BY <1>2, <1>3, <1>4, <2>1, <3>1 DEF OpToRel
  <2> QED BY <1>1, <2>2
<1>6. m \in Best
  BY <1>5
<1>7. Best \subseteq Legs
  BY DEF Present
<1>8. Max(Best) \in Best
  BY <1>6, <1>7, MaxIsIn
<1>9. ColdStartLeg(rows) = Max(Best)
  BY DEF ColdStartLeg
<1>10. ASSUME NEW k \in P, OpenRow(rows[k]) PROVE OpenRow(rows[Max(Best)])
  <2>1. Tier(rows[k]) = 2 /\ Tier(rows[k]) <= Tier(rows[Max(Best)])
    BY <1>8, <1>10 DEF Tier
  <2> QED BY <1>1, <1>8, <2>1 DEF Tier
<1> QED BY <1>8, <1>9, <1>10

\* The row that stands for the order is one of the list (currentLegRows).
LEMMA CurrentLegOfRows ==
  ASSUME NEW rows \in [Legs -> Leg], current \in Maybe
  PROVE  /\ CurrentLeg(rows) \in Maybe
         /\ CurrentLeg(rows) # NoLeg => rows[CurrentLeg(rows)].st # "none" /\ CurrentLeg(rows) \in Legs
         /\ current \in Present(rows) => CurrentLeg(rows) = current
         /\ CurrentLeg(rows) = NoLeg => \/ Present(rows) = {}
                                         \/ (current # NoLeg /\ current \notin Present(rows))
<1> DEFINE P == Present(rows)
<1>1. P \subseteq Legs /\ IsFiniteSet(P) /\ Cardinality(P) \in Nat
  BY PresentIsFinite
<1>0. NoLeg \notin P
  BY <1>1, TZAssumption DEF NoLeg, Legs
<1>2. CASE P = {}
  BY <1>2 DEF CurrentLeg, Maybe
<1>3. CASE Cardinality(P) = 1
  <2>1. PICK x : P = {x}
    BY <1>1, <1>3, FS_Singleton
  <2>2. CurrentLeg(rows) = x
    BY <1>3, <2>1 DEF CurrentLeg
  <2> QED BY <1>0, <1>1, <2>1, <2>2 DEF Maybe, Present
<1>4. CASE Cardinality(P) > 1
  <2>1. P # {} /\ Cardinality(P) # 1
    BY <1>4, FS_EmptySet
  <2>2. CASE current # NoLeg
    BY <1>1, <1>4, <2>1, <2>2 DEF CurrentLeg, Maybe, Present
  <2>3. CASE current = NoLeg
    <3>1. CurrentLeg(rows) = ColdStartLeg(rows)
      BY <2>1, <2>3 DEF CurrentLeg
    <3>2. ColdStartLeg(rows) \in P
      BY <2>1, ColdStartLegWins
    <3>3. current \notin P
      BY <1>1, <2>3, TZAssumption DEF NoLeg, Legs
    <3> QED BY <1>0, <1>1, <3>1, <3>2, <3>3 DEF Maybe, Present
  <2> QED BY <2>2, <2>3
<1> QED BY <1>1, <1>2, <1>3, <1>4, FS_EmptySet

\* A new process takes the live leg, if there is one, for the current one.
LEMMA BootTakesTheLiveLeg ==
  ASSUME NEW rows \in [Legs -> Leg], current = NoLeg,
         NEW k \in Legs, OpenRow(rows[k]), \A l \in Legs : l # k => ~OpenRow(rows[l])
  PROVE  CurrentLeg(rows) = k
<1> DEFINE P == Present(rows)
<1>1. P \subseteq Legs /\ IsFiniteSet(P) /\ Cardinality(P) \in Nat
  BY PresentIsFinite
<1>2. k \in P /\ P # {} /\ OpenRow(rows[k])
  BY DEF Present, OpenRow, OpenStates
<1>3. CASE Cardinality(P) = 1
  <2>1. P = {k}
    BY <1>1, <1>2, <1>3, FS_Singleton
  <2> QED BY <1>3, <2>1 DEF CurrentLeg
<1>4. CASE Cardinality(P) # 1
  <2>1. CurrentLeg(rows) = ColdStartLeg(rows)
    BY <1>2, <1>4 DEF CurrentLeg
  <2>2. ColdStartLeg(rows) \in P /\ OpenRow(rows[ColdStartLeg(rows)])
    BY <1>2, ColdStartLegWins
  <2> QED BY <1>1, <2>1, <2>2
<1> QED BY <1>3, <1>4

\* Reading a list never lowers a counter (restoreOrderStateLocked).
LEMMA RestoredRises ==
  ASSUME NEW rows \in [Legs -> Leg], seen \in [Legs -> Nat],
         NEW c, NEW keep
  PROVE  /\ Restored(rows, c, keep) \in [Legs -> Nat]
         /\ \A l \in Legs : Restored(rows, c, keep)[l] >= seen[l]
<1>1. \A l \in Legs : rows[l].exec \in Nat /\ seen[l] \in Nat
  BY DEF Leg
<1> QED BY <1>1 DEF Restored, Larger

LEMMA RestoredQtyNat ==
  ASSUME NEW rows \in [Legs -> Leg], NEW c \in Maybe, NEW s \in [Legs -> Nat], reqQty \in Nat
  PROVE  RestoredQty(rows, c, s) \in Nat
<1> DEFINE P == Present(rows) \ {c}
<1>1. IsFiniteSet(P) /\ \A l \in P : s[l] \in Nat
  BY PresentIsFinite, FS_Subset
<1> HIDE DEF P
<1>2. SumFunctionOnSet(s, P) \in Nat
  BY <1>1, SumNat
<1>3. CASE c = NoLeg
  BY <1>3 DEF RestoredQty
<1>4. CASE c # NoLeg
  <2>1. rows[c].qty \in Nat
    BY <1>4 DEF Maybe, Leg
  <2> QED BY <1>2, <2>1 DEF RestoredQty, P
<1> QED BY <1>3, <1>4

LEMMA RestoredSeqCovers ==
  ASSUME NEW rows, seq \in Legs
  PROVE  /\ RestoredSeq(rows) \in Legs
         /\ seq <= RestoredSeq(rows)
         /\ \A l \in Legs : rows[l].st # "none" => l <= RestoredSeq(rows)
         /\ (\A l \in Legs : rows[l].st # "none" => l <= seq) => RestoredSeq(rows) = seq
<1> DEFINE S == Present(rows) \cup {seq}
<1>1. S \subseteq Legs /\ S # {}
  BY DEF Present
<1>2. Max(S) \in S /\ \A y \in S : y <= Max(S)
  BY <1>1, MaxIsIn
<1>3. RestoredSeq(rows) = Max(S)
  BY DEF RestoredSeq
<1> HIDE DEF S
<1>4. \A l \in Legs : rows[l].st # "none" => l \in S
  BY DEF S, Present
<1>5. ASSUME \A l \in Legs : rows[l].st # "none" => l <= seq PROVE Max(S) = seq
  <2>1. Max(S) <= seq /\ seq <= Max(S)
    BY <1>2, <1>5, TZAssumption DEF S, Present, Legs
  <2>2. Max(S) \in Nat /\ seq \in Nat
    <3>1. Legs \subseteq Nat
      BY TZAssumption DEF Legs
    <3> QED BY <1>1, <1>2, <3>1
  <2> QED BY <2>1, <2>2
<1>6. seq \in S
  BY DEF S
<1> QED BY <1>1, <1>2, <1>3, <1>4, <1>5, <1>6

-----------------------------------------------------------------------------
(* The shape of the state *)

\* A list that is applied without telling the core what it says.
LEMMA RestoreTyped ==
  ASSUME Typed, NEW rows \in [Legs -> Leg], Restore(rows)
  PROVE  /\ seen' \in [Legs -> Nat] /\ met' \subseteq Legs /\ seq' \in Legs
         /\ reqQty' \in Nat /\ current' \in Maybe /\ polled' \in [Legs -> Leg]
<1> DEFINE c == CurrentLeg(rows)
           s == Restored(rows, c, FALSE)
<1>1. c \in Maybe
  BY CurrentLegOfRows DEF Typed
<1>2. s \in [Legs -> Nat]
  BY RestoredRises DEF Typed
<1>3. RestoredSeq(rows) \in Legs
  BY RestoredSeqCovers DEF Typed
<1>4. Met(rows, c) \subseteq Legs
  BY DEF Met, Present, Typed
<1>5. RestoredQty(rows, c, s) \in Nat
  BY <1>1, <1>2, RestoredQtyNat DEF Typed
<1>6. NoRows \in [Legs -> Leg]
  BY DEF NoRows, NoOrder, Leg, LegStates
<1> HIDE DEF c, s
<1>7. /\ seen' = s /\ met' = Met(rows, c) /\ seq' = RestoredSeq(rows)
      /\ reqQty' = RestoredQty(rows, c, s) /\ polled' = NoRows
      /\ current' \in {current, c}
  BY DEF Restore, c, s
<1> QED BY <1>1, <1>2, <1>3, <1>4, <1>5, <1>6, <1>7 DEF Typed

LEMMA StepTyped ==
  ASSUME Typed, Shape, Next
  PROVE  Typed'
<1>2. Qtys \subseteq Nat /\ Total \in Nat /\ Remaining \in Nat
  <2>1. job.want \in Nat /\ job.orig \in Nat
    BY DEF Typed, Job
  <2>2. Executed(seen) \in Nat
    BY ExecutedNat DEF Typed
  <2>3. Total \in Nat
    BY <2>1 DEF Total
  <2>4. Remaining \in Nat
    BY <2>2, <2>3, MinusNat DEF Remaining
  <2>5. Qtys \subseteq Nat
    BY TZAssumption DEF Qtys
  <2> QED BY <2>3, <2>4, <2>5
<1>3. 0 \in Legs /\ Legs \subseteq Nat
  BY TZAssumption DEF Legs
<1>4. ASSUME NEW l \in Legs, NEW v \in Leg, Push(l, v)
      PROVE  legs' \in [Legs -> Leg] /\ frames' \in Seq(Frames)
  <2>1. Frame(l, v) \in Frames
    BY <1>4, StatusOfLeg DEF Frame, Frames, Typed, Leg
  <2> QED BY <1>4, <2>1 DEF Push, Typed
<1>5. ASSUME NEW l \in Legs, Fill(l) \/ Cancels(l) \/ Expires(l) PROVE Typed'
  <2>1. PICK v \in Leg : Push(l, v)
    <3>1. legs[l] \in Leg
      BY DEF Typed
    <3>2. [legs[l] EXCEPT !.exec = @ + 1,
                          !.st = IF legs[l].exec + 1 = legs[l].qty THEN "filled" ELSE @]
            \in Leg
      <4>1. legs[l].exec + 1 \in Nat /\ "filled" \in LegStates /\ legs[l].st \in LegStates
        BY <3>1 DEF Leg, LegStates
      <4> QED BY <3>1, <4>1 DEF Leg
    <3>3. [legs[l] EXCEPT !.st = "canceled"] \in Leg
      BY <3>1 DEF Leg, LegStates
    <3>4. [legs[l] EXCEPT !.st = "expired"] \in Leg
      BY <3>1 DEF Leg, LegStates
    <3> QED BY <1>5, <3>2, <3>3, <3>4 DEF Fill, Cancels, Expires
  <2>2. legs' \in [Legs -> Leg] /\ frames' \in Seq(Frames)
    BY <1>4, <2>1
  <2> QED BY <1>5, <2>2
      DEF Typed, Fill, Cancels, Expires, sync, memory, swap, engine, core
<1>6. \A at \in JobSteps : [job EXCEPT !.at = at] \in Job
  BY DEF Typed, Job
<1>7. IdleJob \in Job
  BY TZAssumption DEF IdleJob, Job, JobSteps, Maybe
<1>8. \A q \in Nat : /\ [st |-> "open", qty |-> q, exec |-> 0] \in Leg
                   /\ [st |-> "rejected", qty |-> q, exec |-> 0] \in Leg
  BY DEF Leg, LegStates
<1>9. \A l \in Maybe : [legs EXCEPT ![l].st = "pending"] \in [Legs -> Leg]
  <2> SUFFICES ASSUME NEW l \in Maybe
               PROVE  [legs EXCEPT ![l].st = "pending"] \in [Legs -> Leg]
    OBVIOUS
  <2>1. legs \in [Legs -> Leg] /\ (l \in Legs => legs[l] \in Leg)
    BY DEF Typed
  <2>2. l \in Legs => [legs[l] EXCEPT !.st = "pending"] \in Leg
    BY <2>1 DEF Leg, LegStates
  <2> QED BY <2>1, <2>2
<1>10. ASSUME NEW l \in Legs, NEW q \in Nat, Lands(l, q) \/ Refused(l, q) \/ Unanswered(l, q)
       PROVE  legs' \in [Legs -> Leg] /\ frames' \in Seq(Frames)
  BY <1>4, <1>8, <1>10 DEF Lands, Refused, Unanswered, Typed
<1>11. NoRows \in [Legs -> Leg]
  BY DEF NoRows, NoOrder, Leg, LegStates
<1>12. ASSUME NEW l \in Maybe, CancelSucceeds(l) \/ CancelFails(l)
       PROVE  legs' \in [Legs -> Leg]
  BY <1>9, <1>12 DEF CancelSucceeds, CancelFails, Typed, broker
<1>13. job.want \in Nat /\ job.qty \in Nat /\ job.orig \in Nat /\ job.leg \in Maybe
  BY DEF Typed, Job
<1> USE DEF sync, stream, memory, swap, engine, core, broker
<1>14. CASE Submits
  <2>1. CASE Post
    <3>1. legs' \in [Legs -> Leg] /\ frames' \in Seq(Frames)
      BY <1>3, <1>10, <1>13, <2>1 DEF Post
    <3>2. job' \in Job
      BY <1>6, <1>7, <2>1 DEF Post, Goto, JobSteps
    <3> QED BY <2>1, <3>1, <3>2 DEF Post, Typed
  <2>2. CASE Register
    BY <1>3, <1>6, <1>13, <2>2 DEF Register, Goto, JobSteps, Typed, Maybe
  <2>3. CASE EmitAccepted
    BY <1>7, <2>3 DEF EmitAccepted, Typed
  <2> QED BY <1>14, <2>1, <2>2, <2>3 DEF Submits
<1>15. CASE Replaces
  <2>1. ASSUME NEW want \in Qtys, StartReplace(want) PROVE Typed'
    <3>1. job' \in Job
      <4>1. Target \in Maybe /\ reqQty \in Nat /\ want \in Nat
        BY <1>2, <1>3 DEF Typed, Target, Maybe
      <4> QED BY <1>3, <2>1, <4>1 DEF StartReplace, IdleJob, Job, JobSteps
    <3> QED BY <1>3, <2>1, <3>1 DEF StartReplace, Typed, Target, Maybe
  <2>2. CASE CancelOld
    BY <1>6, <1>12, <1>13, <2>2 DEF CancelOld, Typed, Goto, JobSteps
  <2>3. CASE TimesOut
    BY <1>6, <2>3 DEF TimesOut, Goto, JobSteps, Typed
  <2>4. CASE GiveUp
    BY <1>6, <1>7, <2>4 DEF GiveUp, JobSteps, Typed, Maybe
  <2>5. CASE Confirmed
    <3>1. seq < MaxLegs
      BY <2>5 DEF Shape, Numbered, Confirmed, Replacing
    <3>2. seq + 1 \in Legs
      BY <3>1, TZAssumption DEF Typed, Legs
    <3>3. job' \in Job
      <4>1. Total \in Nat /\ Remaining \in Nat /\ "resubmit" \in JobSteps /\ "dead" \in JobSteps
        BY <1>2 DEF JobSteps
      <4>2. [job EXCEPT !.at = "resubmit", !.qty = Remaining, !.want = Total, !.leg = seq + 1]
              \in Job
        BY <3>2, <4>1 DEF Typed, Job, Maybe
      <4> QED BY <1>6, <2>5, <4>1, <4>2 DEF Confirmed, Goto
    <3> QED BY <1>2, <2>5, <3>2, <3>3 DEF Confirmed, Typed, Maybe
  <2>6. CASE Resubmit
    <3>1. job.leg \in Legs
      BY <2>6 DEF Typed, Shape, Numbered, Resubmit
    <3>2. legs' \in [Legs -> Leg] /\ frames' \in Seq(Frames)
      BY <1>10, <1>13, <2>6, <3>1 DEF Resubmit
    <3> QED BY <1>6, <2>6, <3>2 DEF Resubmit, Goto, JobSteps, Typed
  <2>7. CASE Switch
    BY <1>6, <1>13, <2>7 DEF Switch, Goto, JobSteps, Typed, Maybe
  <2>8. CASE EmitReplaced \/ EmitDead
    BY <1>7, <2>8 DEF EmitReplaced, EmitDead, Typed
  <2> QED BY <1>15, <2>1, <2>2, <2>3, <2>4, <2>5, <2>6, <2>7, <2>8 DEF Replaces
<1>16. CASE StartCancel
  BY <1>3, <1>16 DEF StartCancel, Target, Typed, Maybe
<1>17. CASE CancelRequest
  BY <1>12, <1>17 DEF CancelRequest, Typed, Maybe
<1>18. CASE ReadFrame
  <2> DEFINE f == Head(frames)
  <2>1. f \in Frames /\ Tail(frames) \in Seq(Frames)
    BY <1>18 DEF ReadFrame, Typed
  <2>2. f.leg \in Legs /\ f.exec \in Nat
    BY <2>1 DEF Frames
  <2>3. [seen EXCEPT ![f.leg] = f.exec] \in [Legs -> Nat]
    BY <2>2 DEF Typed
  <2>4. seen' \in [Legs -> Nat] /\ met' \subseteq Legs /\ confirmed' \in BOOLEAN
    BY <1>18, <2>2, <2>3 DEF ReadFrame, Typed
  <2> HIDE DEF f
  <2> QED BY <1>18, <2>1, <2>4 DEF ReadFrame, Typed, f
<1>19. CASE Drop \/ Connect \/ ReadSnapshot
  <2>1. <<>> \in Seq(Frames)
    OBVIOUS
  <2> QED BY <1>11, <1>19, <2>1 DEF Drop, Connect, ReadSnapshot, Typed
<1>20. CASE ApplySnapshot
  <2> DEFINE c == CurrentLeg(snapshot)
             s == Restored(snapshot, c, TRUE)
  <2>1. /\ c \in Maybe /\ (c # NoLeg => c \in Legs)
        /\ snapshot \in [Legs -> Leg]
    BY CurrentLegOfRows DEF Typed
  <2>2. s \in [Legs -> Nat]
    BY RestoredRises DEF Typed
  <2>3. c # NoLeg => Larger(s[c], snapshot[c].exec) \in Nat
    BY <2>1, <2>2 DEF Larger, Leg
  <2>4. seq' \in Legs
    BY <1>20, RestoredSeqCovers DEF ApplySnapshot, Typed
  <2> HIDE DEF s
  <2>5. seen' \in [Legs -> Nat]
    BY <1>20, <2>2, <2>3 DEF ApplySnapshot, s
  <2>6. current' \in Maybe /\ confirmed' \in BOOLEAN
    BY <1>20, <2>1 DEF ApplySnapshot, Typed
  <2>7. met' \subseteq Legs
    BY <1>20 DEF ApplySnapshot, Typed, Met, Present
  <2>8. /\ UNCHANGED <<legs, frames, online, replacing, job, canceling, polled, up>>
        /\ syncing' = "no" /\ snapshot' = NoRows
    BY <1>20 DEF ApplySnapshot
  <2>9. reqQty' \in Nat
    <3>1. reqQty \in Nat /\ RestoredQty(snapshot, c, s) \in Nat
      BY <2>1, <2>2, RestoredQtyNat DEF Typed
    <3>2. reqQty' \in {reqQty, RestoredQty(snapshot, c, s)}
      BY <1>20 DEF ApplySnapshot, s
    <3> QED BY <3>1, <3>2
  <2> QED BY <1>11, <2>4, <2>5, <2>6, <2>7, <2>8, <2>9 DEF Typed
<1>21. CASE Crash
  <2>1. legs' \in [Legs -> Leg]
    <3>1. legs' = legs \/ \E l \in {job.leg, canceling} : legs' = [legs EXCEPT ![l].st = "pending"]
      BY <1>21 DEF Crash
    <3>2. {job.leg, canceling} \subseteq Maybe
      BY <1>13 DEF Typed
    <3>3. legs \in [Legs -> Leg]
      BY DEF Typed
    <3>4. ASSUME NEW l \in {job.leg, canceling}, legs' = [legs EXCEPT ![l].st = "pending"]
          PROVE  legs' \in [Legs -> Leg]
      <4>1. l \in Maybe
        BY <3>2
      <4>2. [legs EXCEPT ![l].st = "pending"] \in [Legs -> Leg]
        BY <1>9, <4>1
      <4> QED BY <3>4, <4>2
    <3> QED BY <3>1, <3>3, <3>4
  <2>2. <<>> \in Seq(Frames) /\ [l \in Legs |-> 0] \in [Legs -> Nat]
    OBVIOUS
  <2> QED BY <1>3, <1>7, <1>11, <1>21, <2>1, <2>2 DEF Crash, Typed, Maybe
<1>22. CASE PollRead
  BY <1>22 DEF PollRead, Typed
<1>23. CASE PollApply
  BY <1>23, RestoreTyped DEF PollApply, Typed
<1>24. CASE Boot
  <2>1. CASE Restore(polled)
    BY <1>24, <2>1, RestoreTyped DEF Boot, Typed
  <2>2. CASE polled' = NoRows /\ UNCHANGED memory
    BY <1>11, <1>24, <2>2 DEF Boot, Typed
  <2> QED BY <1>24, <2>1, <2>2 DEF Boot
<1>25. CASE FoldOldest
  BY <1>25 DEF FoldOldest, Typed
<1> QED
  BY <1>5, <1>14, <1>15, <1>16, <1>17, <1>18, <1>19, <1>20, <1>21, <1>22,
     <1>23, <1>24, <1>25
  DEF Next, BrokerNext

LEMMA QueueChanges ==
  ASSUME Typed
  PROVE  /\ Queued \subseteq Frames
         /\ \A l, v : Push(l, v) => Queued' \subseteq Queued \cup {Frame(l, v)}
         /\ ReadFrame => Head(frames) \in Queued /\ Queued' \subseteq Queued
         /\ frames' = frames => Queued' = Queued
         /\ frames' = <<>> => Queued' = {}
<1>1. frames \in Seq(Frames)
  BY DEF Typed
<1>2. Queued \subseteq Frames
  BY <1>1 DEF Queued
<1>3. ASSUME NEW l, NEW v, Push(l, v) PROVE Queued' \subseteq Queued \cup {Frame(l, v)}
  <2>1. CASE frames' = frames
    BY <2>1 DEF Queued
  <2>2. CASE frames' = Append(frames, Frame(l, v))
    <3> SUFFICES ASSUME NEW i \in 1 .. Len(frames')
                 PROVE  frames'[i] \in Queued \cup {Frame(l, v)}
      BY DEF Queued
    <3> HIDE DEF Frame
    <3>1. Len(frames') = Len(frames) + 1 /\ Len(frames) \in Nat
      BY <1>1, <2>2
    <3>2. CASE i = Len(frames) + 1
      BY <1>1, <2>2, <3>2
    <3>3. CASE i # Len(frames) + 1
      <4>1. i \in 1 .. Len(frames)
        BY <3>1, <3>3
      <4>2. frames'[i] = frames[i]
        BY <1>1, <2>2, <4>1
      <4> QED BY <4>1, <4>2 DEF Queued
    <3> QED BY <3>2, <3>3
  <2> QED BY <1>3, <2>1, <2>2 DEF Push
<1>4. ASSUME ReadFrame PROVE Head(frames) \in Queued /\ Queued' \subseteq Queued
  <2>1. frames # <<>> /\ frames' = Tail(frames)
    BY <1>4 DEF ReadFrame
  <2>2. Len(frames) \in Nat /\ Len(frames) >= 1 /\ Head(frames) = frames[1]
    BY <1>1, <2>1
  <2>3. Len(frames') = Len(frames) - 1
    BY <1>1, <2>1
  <2>4. \A i \in 1 .. Len(frames') : frames'[i] = frames[i + 1] /\ i + 1 \in 1 .. Len(frames)
    BY <1>1, <2>1, <2>2, <2>3
  <2> QED BY <2>2, <2>4 DEF Queued
<1>5. frames' = frames => Queued' = Queued
  BY DEF Queued
<1>6. frames' = <<>> => Queued' = {}
  BY DEF Queued
<1> QED BY <1>2, <1>3, <1>4, <1>5, <1>6

-----------------------------------------------------------------------------
(* What is read of a leg's end is its end *)

\* A leg that has ended stays as it is.
LEMMA EndsAreFinal ==
  ASSUME Typed, Shape, Next
  PROVE  \A l \in Legs : Known(l) => /\ Known(l)'
                                     /\ ~Open(l) => legs'[l] = legs[l]
<1> DEFINE Final == \A l \in Legs : Known(l) => Known(l)' /\ (~Open(l) => legs'[l] = legs[l])
<1> USE DEF Known, Open, OpenStates, broker
<1>1. legs \in [Legs -> Leg]
  BY DEF Typed
<1>2. ASSUME NEW l \in Maybe, NEW v, legs' = [legs EXCEPT ![l] = v],
             v.st # "none", l \in Legs => ~Known(l) \/ Open(l)
      PROVE  Final
  BY <1>1, <1>2
<1>3. CASE legs' = legs
  BY <1>3
<1>4. ASSUME NEW l \in Maybe, CancelSucceeds(l) \/ CancelFails(l) PROVE Final
  <2>1. CASE legs' = [legs EXCEPT ![l].st = "pending"] /\ Open(l)
    <3>1. [legs[l] EXCEPT !.st = "pending"].st = "pending"
      BY <1>1, <2>1 DEF Leg
    <3>2. legs' = [legs EXCEPT ![l] = [legs[l] EXCEPT !.st = "pending"]]
      BY <2>1
    <3> QED BY <1>2, <2>1, <3>1, <3>2
  <2> QED BY <1>3, <1>4, <2>1 DEF CancelSucceeds, CancelFails
<1>5. ASSUME NEW l \in Legs, Fill(l) \/ Cancels(l) \/ Expires(l) PROVE Final
  <2>1. legs[l] \in Leg
    BY <1>1
  <2>2. Open(l)
    BY <1>5 DEF Fill, Cancels, Expires
  <2>3. PICK v : Push(l, v) /\ v.st # "none"
    <3> DEFINE v == [legs[l] EXCEPT !.exec = @ + 1,
                                    !.st = IF legs[l].exec + 1 = legs[l].qty THEN "filled" ELSE @]
    <3>1. v.st \in {"filled", legs[l].st}
      BY <2>1 DEF Leg
    <3>2. CASE Fill(l)
      BY <2>2, <3>1, <3>2 DEF Fill
    <3>3. CASE Cancels(l)
      BY <2>1, <3>3 DEF Cancels, Leg
    <3>4. CASE Expires(l)
      BY <2>1, <3>4 DEF Expires, Leg
    <3> QED BY <1>5, <3>2, <3>3, <3>4
  <2> QED BY <1>2, <2>2, <2>3 DEF Push, Maybe
<1>6. ASSUME NEW l \in Legs, NEW q, ~Known(l), Lands(l, q) \/ Refused(l, q) \/ Unanswered(l, q)
      PROVE  Final
  <2>1. CASE legs' = legs
    BY <1>3, <2>1
  <2>2. ASSUME NEW v, Push(l, v), v.st # "none" PROVE Final
    BY <1>2, <1>6, <2>2 DEF Push, Maybe
  <2> QED BY <1>6, <2>1, <2>2 DEF Lands, Refused, Unanswered
<1>7. CASE Submits
  <2>1. CASE Post
    <3>1. 0 \in Legs /\ ~Known(0)
      BY <2>1, TZAssumption DEF Shape, Numbered, Post, Legs
    <3> QED BY <1>6, <2>1, <3>1 DEF Post
  <2> QED BY <1>3, <1>7, <2>1 DEF Submits, Register, EmitAccepted
<1>8. CASE Replaces
  <2>1. CASE CancelOld
    BY <1>4, <2>1 DEF CancelOld, Typed, Job
  <2>2. CASE Resubmit
    <3>1. job.leg \in Legs /\ ~Known(job.leg)
      BY <2>2 DEF Resubmit, Shape, Numbered, Typed
    <3> QED BY <1>6, <2>2, <3>1 DEF Resubmit
  <2> QED BY <1>3, <1>8, <2>1, <2>2 DEF Replaces, StartReplace, TimesOut, GiveUp, Confirmed,
          Switch, EmitReplaced, EmitDead
<1>9. CASE CancelRequest
  BY <1>4, <1>9 DEF CancelRequest, Typed
<1>10. CASE Crash
  <2>1. \/ legs' = legs
        \/ \E l \in {job.leg, canceling} : Open(l) /\ legs' = [legs EXCEPT ![l].st = "pending"]
    BY <1>10 DEF Crash
  <2> QED BY <1>1, <1>3, <2>1 DEF Leg
<1> QED BY <1>3, <1>5, <1>7, <1>8, <1>9, <1>10 DEF Next, BrokerNext, StartCancel, ReadFrame,
         Drop, Connect, ReadSnapshot, ApplySnapshot, PollRead, PollApply, FoldOldest, Boot

\* A frame that is new tells of a leg as it is now, and a new one that tells
\* of a cancel is of a leg that could fill before.
LEMMA NewFrames ==
  ASSUME Typed, Shape, Next
  PROVE  \A f \in Queued' : f \in Queued \/
           /\ f.leg \in Legs /\ Known(f.leg)'
           /\ f.status = "CANCELED" => legs'[f.leg].st = "canceled" /\ Open(f.leg)
<1> DEFINE New == \A f \in Queued' : f \in Queued \/
                    /\ f.leg \in Legs /\ Known(f.leg)'
                    /\ f.status = "CANCELED" => legs'[f.leg].st = "canceled" /\ Open(f.leg)
<1> USE DEF broker, stream, sync
<1>1. frames' = frames \/ frames' = <<>> => New
  BY QueueChanges
<1>2. ASSUME NEW l \in Legs, NEW v, Push(l, v), v.st # "none",
             v.st = "canceled" => Open(l),
             Status(v) = "CANCELED" => v.st = "canceled"
      PROVE  New
  <2>1. Queued' \subseteq Queued \cup {Frame(l, v)}
    BY <1>2, QueueChanges
  <2>2. Frame(l, v).leg = l /\ Frame(l, v).status = Status(v)
    BY DEF Frame
  <2>3. legs'[l] = v
    BY <1>2 DEF Push, Typed
  <2> QED BY <1>2, <2>1, <2>2, <2>3 DEF Known
<1>3. ASSUME NEW l \in Legs, Fill(l) \/ Cancels(l) \/ Expires(l) PROVE New
  <2>1. legs[l] \in Leg /\ Open(l)
    BY <1>3 DEF Typed, Fill, Cancels, Expires, Open, OpenStates
  <2>2. CASE Fill(l)
    <3> DEFINE v == [legs[l] EXCEPT !.exec = @ + 1,
                                    !.st = IF legs[l].exec + 1 = legs[l].qty THEN "filled" ELSE @]
    <3>1. v.st \in {"filled", "open", "pending"}
      BY <2>1 DEF Leg, Open, OpenStates
    <3>2. Push(l, v)
      BY <2>2 DEF Fill
    <3> HIDE DEF v
    <3>3. Status(v) # "CANCELED"
      BY <3>1 DEF Status
    <3> QED BY <1>2, <3>1, <3>2, <3>3
  <2>3. CASE Cancels(l)
    BY <1>2, <2>1, <2>3 DEF Cancels, Leg
  <2>4. CASE Expires(l)
    <3> DEFINE v == [legs[l] EXCEPT !.st = "expired"]
    <3>1. v.st = "expired" /\ Push(l, v)
      BY <2>1, <2>4 DEF Expires, Leg
    <3> HIDE DEF v
    <3>2. Status(v) = "EXPIRED"
      BY <3>1 DEF Status
    <3> QED BY <1>2, <3>1, <3>2
  <2> QED BY <1>3, <2>2, <2>3, <2>4
<1>4. ASSUME NEW l \in Legs, NEW q, Lands(l, q) \/ Refused(l, q) \/ Unanswered(l, q)
      PROVE  New
  <2>1. Lands(l, q) => New
    BY <1>2 DEF Lands, Status
  <2>2. Refused(l, q) => New
    BY <1>2 DEF Refused, Status
  <2> QED BY <1>1, <1>4, <2>1, <2>2 DEF Unanswered
<1>5. CASE Submits
  <2>1. CASE Post
    BY <1>4, <2>1, TZAssumption DEF Post, Legs
  <2> QED BY <1>1, <1>5, <2>1 DEF Submits, Register, EmitAccepted
<1>6. CASE Replaces
  <2>1. CASE Resubmit
    <3>1. job.leg \in Legs
      BY <2>1 DEF Resubmit, Shape, Numbered, Typed
    <3> QED BY <1>4, <2>1, <3>1 DEF Resubmit
  <2> QED BY <1>1, <1>6, <2>1 DEF Replaces, StartReplace, CancelOld, TimesOut, GiveUp, Confirmed,
          Switch, EmitReplaced, EmitDead
<1>7. CASE ReadFrame
  BY <1>7, QueueChanges
<1> QED BY <1>1, <1>3, <1>5, <1>6, <1>7 DEF Next, BrokerNext, StartCancel, CancelRequest,
         Drop, Connect, ReadSnapshot, ApplySnapshot, PollRead, PollApply,
         FoldOldest, Crash, Boot

LEMMA ListSteps ==
  ASSUME Next
  PROVE  \/ snapshot' = snapshot \/ snapshot' = NoRows
         \/ snapshot' = legs /\ legs' = legs
BY DEF Next, BrokerNext, Fill, Cancels, Expires, Submits, Post, Register, EmitAccepted,
   Replaces, StartReplace, CancelOld, TimesOut, GiveUp, Confirmed, Resubmit, Switch,
   EmitReplaced, EmitDead, StartCancel, CancelRequest, ReadFrame, Drop, Connect,
   ReadSnapshot, ApplySnapshot, PollRead, PollApply, FoldOldest, Crash, Boot, sync, stream

LEMMA PollSteps ==
  ASSUME Next
  PROVE  \/ polled' = polled /\ ~PollRead /\ ~PollApply /\ ~Boot /\ ~Crash
         \/ polled' = NoRows /\ (PollApply \/ Boot \/ Crash)
         \/ polled' = legs /\ legs' = legs /\ PollRead
<1>1. CASE PollRead \/ PollApply \/ Boot \/ Crash
  BY <1>1 DEF PollRead, PollApply, Boot, Crash, Restore
<1>2. CASE ~PollRead /\ ~PollApply /\ ~Boot /\ ~Crash
  BY <1>2
  DEF Next, BrokerNext, Fill, Cancels, Expires, Submits, Post, Register, EmitAccepted,
      Replaces, StartReplace, CancelOld, TimesOut, GiveUp, Confirmed, Resubmit, Switch,
      EmitReplaced, EmitDead, StartCancel, CancelRequest, ReadFrame, Drop, Connect,
      ReadSnapshot, ApplySnapshot, FoldOldest
<1> QED BY <1>1, <1>2

LEMMA StepTruthful ==
  ASSUME Typed, Shape, Next
  PROVE  Truthful'
<1>1. \A l \in Legs : Known(l) => Known(l)' /\ (~Open(l) => legs'[l] = legs[l])
  BY EndsAreFinal
<1>2. ASSUME NEW f \in Queued'
      PROVE  Known(f.leg)' /\ (f.status = "CANCELED" => legs'[f.leg].st = "canceled")
  <2>1. CASE f \in Queued
    <3>1. f.leg \in Legs /\ Known(f.leg) /\ (f.status = "CANCELED" => legs[f.leg].st = "canceled")
      BY <2>1, QueueChanges DEF Shape, Truthful, Frames
    <3> QED BY <1>1, <3>1 DEF Open, OpenStates
  <2>2. CASE f \notin Queued
    BY <2>2, NewFrames, SMTT(30)
  <2> QED BY <2>1, <2>2
<1>3. \/ snapshot' = snapshot \/ snapshot' = NoRows
      \/ snapshot' = legs /\ legs' = legs
  BY ListSteps
<1>4. ASSUME NEW l \in Legs, Listed(l)'
      PROVE  Known(l)' /\ (~OpenRow(snapshot[l])' => snapshot'[l] = legs'[l])
  <2>1. CASE snapshot' = snapshot
    BY <1>1, <1>4, <2>1 DEF Shape, Truthful, Listed, Open, OpenRow
  <2>2. CASE snapshot' = NoRows
    BY <1>4, <2>2 DEF Listed, NoRows, NoOrder
  <2>3. CASE snapshot' = legs /\ legs' = legs
    BY <1>4, <2>3 DEF Listed, Known
  <2> QED BY <1>3, <2>1, <2>2, <2>3
<1>5. \/ polled' = polled \/ polled' = NoRows
      \/ polled' = legs /\ legs' = legs
  BY PollSteps
<1>6. ASSUME NEW l \in Legs, Polled(l)'
      PROVE  Known(l)' /\ (~OpenRow(polled[l])' => polled'[l] = legs'[l])
  <2>1. CASE polled' = polled
    BY <1>1, <1>6, <2>1 DEF Shape, Truthful, Polled, Open, OpenRow
  <2>2. CASE polled' = NoRows
    BY <1>6, <2>2 DEF Polled, NoRows, NoOrder
  <2>3. CASE polled' = legs /\ legs' = legs
    BY <1>6, <2>3 DEF Polled, Known
  <2> QED BY <1>5, <2>1, <2>2, <2>3
<1> QED BY <1>2, <1>4, <1>6 DEF Truthful

\* A leg is born by a submit.
LEMMA NewLegs ==
  ASSUME Typed, Shape, Next, NEW l \in Legs, Known(l)', ~Known(l)
  PROVE  (Post /\ l = 0) \/ (Resubmit /\ l = job.leg)
<1> USE DEF broker, Known
<1>1. legs \in [Legs -> Leg] /\ legs' # legs
  BY DEF Typed
<1>2. ASSUME NEW k \in Maybe, NEW v, legs' = [legs EXCEPT ![k] = v] PROVE l = k
  BY <1>1, <1>2
<1>3. ~\E k \in Legs : Fill(k) \/ Cancels(k) \/ Expires(k)
  <2> SUFFICES ASSUME NEW k \in Legs, Fill(k) \/ Cancels(k) \/ Expires(k) PROVE FALSE
    OBVIOUS
  <2>1. PICK v : legs' = [legs EXCEPT ![k] = v]
    BY DEF Fill, Cancels, Expires, Push
  <2>2. l = k
    BY <1>2, <2>1 DEF Maybe
  <2>3. Open(k) \/ legs[k].st = "pending"
    BY DEF Fill, Cancels, Expires
  <2> QED BY <2>2, <2>3 DEF Open, OpenStates
<1>4. ASSUME NEW k \in Maybe, CancelSucceeds(k) \/ CancelFails(k) PROVE FALSE
  <2>1. Open(k) /\ legs' = [legs EXCEPT ![k].st = "pending"]
    BY <1>1, <1>4 DEF CancelSucceeds, CancelFails
  <2>2. legs' = [legs EXCEPT ![k] = [legs[k] EXCEPT !.st = "pending"]]
    BY <2>1
  <2>3. l = k
    BY <1>2, <2>2
  <2> QED BY <2>1, <2>3 DEF Open, OpenStates
<1>5. ~CancelOld /\ ~CancelRequest
  BY <1>4 DEF CancelOld, CancelRequest, Typed, Job
<1>6. ~Crash
  <2> SUFFICES ASSUME Crash PROVE FALSE
    OBVIOUS
  <2>1. PICK k \in {job.leg, canceling} :
          Open(k) /\ legs' = [legs EXCEPT ![k].st = "pending"]
    BY <1>1 DEF Crash
  <2>2. legs' = [legs EXCEPT ![k] = [legs[k] EXCEPT !.st = "pending"]]
    BY <2>1
  <2>3. k \in Maybe
    BY DEF Typed, Job
  <2>4. l = k
    BY <1>2, <2>2, <2>3
  <2> QED BY <2>1, <2>4 DEF Open, OpenStates
<1>7. ASSUME NEW k \in Legs, NEW q, Lands(k, q) \/ Refused(k, q) \/ Unanswered(k, q)
      PROVE  l = k
  <2>1. Lands(k, q) \/ Refused(k, q)
    BY <1>1, <1>7 DEF Unanswered
  <2>2. PICK v : legs' = [legs EXCEPT ![k] = v]
    BY <2>1 DEF Lands, Refused, Push
  <2> QED BY <1>2, <2>2 DEF Maybe
<1>8. Post => l = 0
  BY <1>7, TZAssumption DEF Post, Legs
<1>9. Resubmit => l = job.leg
  BY <1>7 DEF Resubmit, Shape, Numbered, Typed
<1>10. ~Confirmed /\ ~ApplySnapshot /\ ~ReadFrame
  BY <1>1 DEF Confirmed, ApplySnapshot, ReadFrame
<1>11. ~Register /\ ~EmitAccepted /\ ~TimesOut /\ ~GiveUp /\ ~Switch /\ ~EmitReplaced /\ ~EmitDead
  BY <1>1 DEF Register, EmitAccepted, TimesOut, GiveUp, Switch, EmitReplaced, EmitDead
<1>12. ~StartCancel /\ ~Drop /\ ~Connect /\ ~ReadSnapshot /\ ~\E q \in Qtys : StartReplace(q)
  BY <1>1 DEF StartCancel, Drop, Connect, ReadSnapshot, StartReplace
<1>13. ~PollRead /\ ~PollApply /\ ~FoldOldest /\ ~Boot
  BY <1>1 DEF PollRead, PollApply, FoldOldest, Boot
<1> QED BY <1>3, <1>5, <1>6, <1>8, <1>9, <1>10, <1>11, <1>12, <1>13
        DEF Next, BrokerNext, Submits, Replaces

LEMMA StepReset ==
  ASSUME Typed, Shape, Next
  PROVE  Reset'
<1> DEFINE Offline == ~online => frames = <<>> /\ syncing = "no"
           Idle == ~up \/ inbox # <<>> => job = IdleJob /\ replacing = NoLeg
<1> USE DEF broker, stream, sync, memory, swap, engine, core, Shape, Reset
<1>1. ASSUME UNCHANGED <<online, frames, syncing>> PROVE Offline'
  BY <1>1
<1>2. ASSUME NEW l, NEW v, Push(l, v), UNCHANGED <<online, syncing>> PROVE Offline'
  BY <1>2 DEF Push
<1>3. \A e, d : up /\ inbox = <<>> /\ EmitBoth(e, d) => inbox' = <<>>
  BY DEF EmitBoth
<1>4. IdleJob.at = "idle"
  BY DEF IdleJob
<1>5. ASSUME NEW l, NEW q, Lands(l, q) \/ Refused(l, q) \/ Unanswered(l, q),
             UNCHANGED <<online, syncing>>
      PROVE  Offline'
  BY <1>1, <1>2, <1>5 DEF Lands, Refused, Unanswered
<1>6. CASE BrokerNext
  <2>1. UNCHANGED <<up, inbox, job, replacing, online, syncing>>
    BY <1>6 DEF BrokerNext, Fill, Cancels, Expires
  <2>2. Offline'
    BY <1>2, <1>6, <2>1 DEF BrokerNext, Fill, Cancels, Expires
  <2> QED BY <2>1, <2>2
<1>7. CASE Submits
  <2>1. up /\ inbox = <<>> /\ up' = up
    BY <1>4, <1>7 DEF Submits, Post, Register, EmitAccepted
  <2>2. Offline'
    BY <1>1, <1>5, <1>7 DEF Submits, Post, Register, EmitAccepted
  <2>3. inbox' = <<>>
    BY <1>3, <1>7, <2>1 DEF Submits, Post, Register, EmitAccepted, Emit
  <2> QED BY <2>1, <2>2, <2>3
<1>8. CASE Replaces
  <2>1. up /\ inbox = <<>> /\ up' = up
    <3>1. (\E q \in Qtys : StartReplace(q)) => up /\ inbox = <<>> /\ up' = up
      BY DEF StartReplace
    <3>2. CancelOld \/ TimesOut \/ GiveUp \/ Confirmed
            => up /\ job.at # "idle" /\ up' = up
      BY DEF CancelOld, TimesOut, GiveUp, Confirmed
    <3>3. Resubmit \/ Switch \/ EmitReplaced \/ EmitDead
            => up /\ job.at # "idle" /\ up' = up
      BY DEF Resubmit, Switch, EmitReplaced, EmitDead
    <3> QED BY <1>4, <1>8, <3>1, <3>2, <3>3 DEF Replaces
  <2>2. Offline'
    <3>1. Resubmit => Offline'
      BY <1>5 DEF Resubmit
    <3>2. ~Resubmit => UNCHANGED <<online, frames, syncing>>
      BY <1>8 DEF Replaces, StartReplace, CancelOld, TimesOut, GiveUp, Confirmed, Switch,
                  EmitReplaced, EmitDead
    <3> QED BY <1>1, <3>1, <3>2
  <2>3. inbox' = <<>>
    <3>1. EmitReplaced \/ EmitDead => inbox' = <<>>
      BY <1>3, <2>1 DEF EmitReplaced, EmitDead, Emit
    <3>2. ~EmitReplaced /\ ~EmitDead => inbox' = inbox
      BY <1>8 DEF Replaces, StartReplace, CancelOld, TimesOut, GiveUp, Confirmed, Switch,
                  Resubmit
    <3> QED BY <2>1, <3>1, <3>2
  <2> QED BY <2>1, <2>2, <2>3
<1>9. CASE StartCancel \/ CancelRequest \/ Drop \/ Connect \/ ReadSnapshot \/ PollRead \/ PollApply
  <2>1. UNCHANGED <<up, inbox, job, replacing>>
    BY <1>9 DEF StartCancel, CancelRequest, Drop, Connect, ReadSnapshot, PollRead, PollApply
  <2>2. Offline'
    BY <1>9 DEF StartCancel, CancelRequest, Drop, Connect, ReadSnapshot, PollRead, PollApply
  <2> QED BY <2>1, <2>2
<1>10. CASE ReadFrame \/ ApplySnapshot
  <2>1. UNCHANGED <<up, job, replacing, online>>
    BY <1>10 DEF ReadFrame, ApplySnapshot
  <2>2. up /\ inbox = <<>> => inbox' = <<>>
    <3>1. ReadFrame /\ up /\ inbox = <<>> => inbox' = <<>>
      BY <1>3 DEF ReadFrame
    <3>2. ApplySnapshot /\ up /\ inbox = <<>> => inbox' = <<>>
      BY <1>3 DEF ApplySnapshot
    <3> QED BY <1>10, <3>1, <3>2
  <2>3. Offline'
    <3>1. ReadFrame => online
      BY DEF ReadFrame
    <3>2. ApplySnapshot => syncing # "no"
      BY DEF ApplySnapshot
    <3> QED BY <1>10, <2>1, <3>1, <3>2
  <2> QED BY <2>1, <2>2, <2>3
<1>11. CASE FoldOldest
  BY <1>11 DEF FoldOldest
<1>12. CASE Crash
  BY <1>12 DEF Crash
<1>13. CASE Boot
  BY <1>13 DEF Boot
<1> QED BY <1>6, <1>7, <1>8, <1>9, <1>10, <1>11, <1>12, <1>13 DEF Next

\* A list that is applied, however old it is.
LEMMA ListNumbers ==
  ASSUME Typed, Shape, NEW rows \in [Legs -> Leg],
         UNCHANGED <<legs, job, replacing>>,
         \A l \in Legs : rows[l].st # "none" => Known(l),
         Still => (\A l \in Legs : rows[l].st = "none")
                    \/ \A l \in Legs : Known(l) => rows[l].st # "none",
         seq' = RestoredSeq(rows),
         current' = IF CurrentLeg(rows) = NoLeg THEN current ELSE CurrentLeg(rows),
         CurrentLeg(rows) = NoLeg => reqQty' = reqQty
  PROVE  Numbered' /\ (~Blank => seq' = seq)
<1> DEFINE c == CurrentLeg(rows)
<1>1. Numbered /\ seq \in Legs
  BY DEF Shape, Typed
<1>2. /\ seq' \in Legs /\ \A l \in Legs : rows[l].st # "none" => l <= seq'
      /\ (\A l \in Legs : rows[l].st # "none" => l <= seq) => seq' = seq
  BY <1>1, RestoredSeqCovers
<1>3. c # NoLeg => c \in Legs /\ rows[c].st # "none"
  BY CurrentLegOfRows DEF Typed
<1> HIDE DEF c
<1>4. current' = IF c = NoLeg THEN current ELSE c
  BY DEF c
<1>5. Known(0)' = Known(0) /\ \A l : Known(l)' = Known(l)
  BY DEF Known
<1>6. ~Blank => seq' = seq
  BY <1>1, <1>2 DEF Numbered
<1>7. ~Blank' => \A l \in Legs : Known(l) => l <= seq'
  <2>1. CASE ~Blank
    BY <1>1, <1>6, <2>1 DEF Numbered
  <2>2. CASE Blank /\ ~Blank'
    <3>1. c # NoLeg
      BY <1>4, <2>2 DEF Blank
    <3>2. Still
      BY <2>2 DEF Still
    <3> QED BY <1>2, <1>3, <3>1, <3>2
  <2> QED BY <2>1, <2>2
<1>8. job.at # "idle" => ~Blank
  BY DEF Blank
<1>9. job.at = "post" => current' = NoLeg
  BY <1>1, <1>3, <1>4 DEF Numbered
<1>10. current' = NoLeg => reqQty' = 0
  <2>1. c # NoLeg => current' # NoLeg
    BY <1>4
  <2> QED BY <1>1, <1>4, <2>1 DEF Numbered, c
<1>11. current # NoLeg => current' # NoLeg
  BY <1>4
<1> QED BY <1>1, <1>5, <1>6, <1>7, <1>8, <1>9, <1>10, <1>11 DEF Numbered, Replacing

LEMMA StepNumbered ==
  ASSUME Typed, Shape, Next
  PROVE  Numbered'
<1> USE DEF broker, stream, sync, memory, swap, engine, core, Replacing, JobSteps, Blank
<1>0. Numbered /\ Reset /\ Truthful
  BY DEF Shape
<1>1. job \in Job /\ seq \in Legs /\ 0 \in Legs /\ Legs \subseteq Nat
  BY TZAssumption DEF Typed, Legs
<1>2. /\ \A at \in JobSteps : /\ [job EXCEPT !.at = at].at = at
                              /\ [job EXCEPT !.at = at].leg = job.leg
      /\ IdleJob.at = "idle"
  BY <1>1 DEF Job, IdleJob
<1>3. ~Post /\ ~Resubmit => \A l \in Legs : Known(l)' => Known(l)
  BY NewLegs
<1>4. ASSUME UNCHANGED <<job, seq, current, reqQty, replacing, up>>, ~Post, ~Resubmit,
             job.at \in {"post", "resubmit"} => legs' = legs
      PROVE  Numbered'
  BY <1>0, <1>3, <1>4 DEF Numbered, Known
<1>5. CASE BrokerNext
  <2> SUFFICES ASSUME NEW l \in Legs, Fill(l) \/ Cancels(l) \/ Expires(l) PROVE Numbered'
    BY <1>5 DEF BrokerNext
  <2>1. Known(l) /\ \A k \in Legs : k # l => legs'[k] = legs[k]
    BY DEF Fill, Cancels, Expires, Push, Open, OpenStates, Known, Typed
  <2>2. UNCHANGED <<job, seq, current, reqQty, replacing, up>>
    BY DEF Fill, Cancels, Expires
  <2>3. \A k \in Legs : Known(k)' => Known(k)
    BY <2>1 DEF Known
  <2>4. job.at # "post" /\ (job.at = "resubmit" => l # job.leg)
    BY <1>0, <2>1 DEF Numbered
  <2>5. job.at = "resubmit" => job.leg \in Legs
    BY <1>0 DEF Numbered, Typed
  <2> QED BY <1>0, <2>2, <2>3, <2>4, <2>5 DEF Numbered
<1>6. CASE Submits
  <2>1. CASE Post
    <3>1. \A l \in Legs : Known(l)' => Known(l) \/ l = 0
      <4>1. ~Resubmit
        BY <2>1 DEF Post, Resubmit
      <4> QED BY <4>1, NewLegs
    <3>2. job'.at \in {"posted", "idle"} /\ UNCHANGED <<seq, current, reqQty, up>>
      <4>1. job' = [job EXCEPT !.at = "posted"] \/ job' = IdleJob
        BY <2>1 DEF Post, Goto
      <4>2. UNCHANGED <<seq, current, reqQty, up>>
        BY <2>1 DEF Post
      <4>3. [job EXCEPT !.at = "posted"].at = "posted"
        BY <1>1 DEF Job
      <4> QED BY <1>2, <4>1, <4>2, <4>3
    <3>3. up' /\ \A l \in Legs : Known(l)' => l = 0
      BY <1>0, <2>1, <3>1 DEF Numbered, Post
    <3> QED BY <1>0, <1>1, <2>1, <3>1, <3>2, <3>3 DEF Numbered, Post
  <2>2. CASE Register
    <3>1. job'.at = "accepted" /\ current' # NoLeg
      BY <1>2, <2>2 DEF Register, Goto, NoLeg
    <3> QED BY <1>0, <2>2, <3>1 DEF Numbered, Register, Known
  <2>3. CASE EmitAccepted
    BY <1>0, <2>3 DEF Numbered, EmitAccepted, Known, IdleJob
  <2> QED BY <1>6, <2>1, <2>2, <2>3 DEF Submits
<1>7. CASE Replaces
  <2>1. ASSUME NEW q \in Qtys, StartReplace(q) PROVE Numbered'
    <3>1. job'.at = "cancel" /\ job'.leg = Target /\ replacing' = Target /\ Target # NoLeg
      BY <1>1, <2>1 DEF StartReplace, IdleJob, Target, NoLeg
    <3> QED BY <1>0, <2>1, <3>1 DEF Numbered, StartReplace, Known
  <2>2. CASE CancelOld
    <3>1. job'.at \in {"await", "give up"} /\ job'.leg = job.leg
      <4>1. job' = [job EXCEPT !.at = "await"] \/ job' = [job EXCEPT !.at = "give up"]
        BY <2>2 DEF CancelOld, Goto
      <4>2. \A a : [job EXCEPT !.at = a].at = a /\ [job EXCEPT !.at = a].leg = job.leg
        BY <1>1 DEF Job
      <4> QED BY <4>1, <4>2
    <3>2. job.at = "cancel" /\ UNCHANGED <<seq, current, reqQty, replacing, up>>
      BY <2>2 DEF CancelOld
    <3>3. ~Post /\ ~Resubmit
      BY <3>2 DEF Post, Resubmit
    <3> QED BY <1>0, <1>3, <3>1, <3>2, <3>3 DEF Numbered
  <2>3. CASE TimesOut \/ GiveUp
    <3>1. job'.at \in {"idle", "give up", "dead"}
      <4>1. job' = IdleJob \/ job' = [job EXCEPT !.at = "give up"] \/ job' = [job EXCEPT !.at = "dead"]
        BY <2>3 DEF TimesOut, GiveUp, Goto
      <4>2. IdleJob.at = "idle" /\ \A a : [job EXCEPT !.at = a].at = a
        BY <1>1 DEF IdleJob, Job
      <4> QED BY <4>1, <4>2
    <3>2. UNCHANGED <<legs, seq, current, reqQty>> /\ job.at \in {"await", "give up", "died"}
      BY <2>3 DEF TimesOut, GiveUp
    <3> QED BY <1>0, <3>1, <3>2 DEF Numbered, Known
  <2>4. CASE Confirmed
    <3>1. seq < MaxLegs /\ seq + 1 \in Nat /\ legs' = legs /\ up /\ up' = up /\ current' = current
      BY <1>0, <1>1, <2>4 DEF Confirmed, Numbered
    <3>2. current # NoLeg /\ current' # NoLeg /\ job.at = "await"
      BY <1>0, <2>4, <3>1 DEF Confirmed, Numbered
    <3>3. CASE Remaining = 0
      <4>1. job'.at = "dead" /\ seq' = seq /\ reqQty' = reqQty
        BY <1>2, <2>4, <3>3 DEF Confirmed, Goto
      <4> QED BY <1>0, <3>1, <3>2, <4>1 DEF Numbered, Known
    <3>4. CASE Remaining # 0
      <4>1. job'.at = "resubmit" /\ job'.leg = seq + 1 /\ seq' = seq + 1
        BY <1>1, <2>4, <3>4 DEF Confirmed, Job
      <4>2. \A l \in Legs : Known(l)' => l <= seq
        BY <1>0, <3>1, <3>2 DEF Numbered, Known
      <4>3. seq + 1 \in Legs /\ \A l \in Legs : l <= seq => l # seq + 1 /\ l <= seq + 1
        BY <1>1, <3>1, TZAssumption DEF Legs
      <4>4. ~Known(job.leg)' /\ \A l \in Legs : Known(l)' => l <= seq'
        BY <4>1, <4>2, <4>3 DEF Known
      <4> QED BY <3>1, <3>2, <4>1, <4>4 DEF Numbered
    <3> QED BY <3>3, <3>4
  <2>5. CASE Resubmit
    <3>1. \A l \in Legs : Known(l)' => Known(l) \/ l = job.leg
      <4>1. ~Post
        BY <2>5 DEF Post, Resubmit
      <4> QED BY <4>1, NewLegs
    <3>2. job'.at \in {"resubmitted", "died"} /\ job'.leg = job.leg /\ job.leg = seq
      BY <1>0, <1>2, <2>5 DEF Resubmit, Goto, Numbered
    <3>3. UNCHANGED <<seq, current, reqQty>> /\ job.at = "resubmit"
      BY <2>5 DEF Resubmit
    <3> QED BY <1>0, <1>1, <3>1, <3>2, <3>3 DEF Numbered
  <2>6. CASE Switch
    <3>1. job'.at = "replaced" /\ current' # NoLeg
      BY <1>0, <1>1, <1>2, <2>6 DEF Switch, Goto, Numbered, NoLeg
    <3> QED BY <1>0, <2>6, <3>1 DEF Numbered, Switch, Known
  <2>7. CASE EmitReplaced \/ EmitDead
    BY <1>0, <2>7 DEF Numbered, EmitReplaced, EmitDead, Known, IdleJob
  <2> QED BY <1>7, <2>1, <2>2, <2>3, <2>4, <2>5, <2>6, <2>7 DEF Replaces
<1>8. CASE StartCancel \/ CancelRequest \/ ReadFrame \/ Drop \/ Connect \/ ReadSnapshot
  <2>1. UNCHANGED <<job, seq, current, reqQty, replacing, up>>
    BY <1>8 DEF StartCancel, CancelRequest, ReadFrame, Drop, Connect, ReadSnapshot
  <2>2. \A l \in Legs : Known(l)' = Known(l)
    <3>1. CASE CancelRequest
      <4>1. canceling \in Maybe /\ legs \in [Legs -> Leg]
        BY DEF Typed
      <4>2. \/ legs' = legs
            \/ Open(canceling) /\ legs' = [legs EXCEPT ![canceling].st = "pending"]
        BY <3>1 DEF CancelRequest, CancelSucceeds, CancelFails
      <4> QED BY <4>1, <4>2 DEF Known, Open, OpenStates, Leg
    <3> QED BY <1>8, <3>1 DEF StartCancel, ReadFrame, Drop, Connect, ReadSnapshot, Known
  <2>3. job.at = "resubmit" => job.leg \in Legs
    BY <1>0 DEF Numbered, Typed
  <2>4. job.at = "resubmit" => Known(job.leg)' = Known(job.leg)
    BY <2>1, <2>2, <2>3
  <2> QED BY <1>0, <2>1, <2>2, <2>4 DEF Numbered
<1>9. CASE ApplySnapshot
  <2> DEFINE c == CurrentLeg(snapshot)
  <2>1. /\ UNCHANGED <<legs, job, replacing>> /\ seq' = RestoredSeq(snapshot)
        /\ current' = IF c = NoLeg THEN current ELSE c
        /\ c = NoLeg => reqQty' = reqQty
    BY <1>9 DEF ApplySnapshot
  <2>2. /\ \A l \in Legs : snapshot[l].st # "none" => Known(l)
        /\ Still => (\A l \in Legs : snapshot[l].st = "none")
                      \/ \A l \in Legs : Known(l) => snapshot[l].st # "none"
    BY DEF Shape, Truthful, Listed, AllOrNone
  <2>3. snapshot \in [Legs -> Leg]
    BY DEF Typed
  <2> QED BY <2>1, <2>2, <2>3, ListNumbers
<1>10. CASE Crash
  BY <1>2, <1>10 DEF Crash, Numbered
<1>11. CASE PollApply \/ (Boot /\ Restore(polled))
  <2> DEFINE c == CurrentLeg(polled)
  <2>1. UNCHANGED <<legs, job, replacing>> /\ Restore(polled)
    BY <1>11 DEF PollApply, Boot
  <2>2. /\ seq' = RestoredSeq(polled)
        /\ current' = IF c = NoLeg THEN current ELSE c
        /\ c = NoLeg => reqQty' = reqQty
    BY <2>1 DEF Restore, RestoredQty
  <2>3. /\ \A l \in Legs : polled[l].st # "none" => Known(l)
        /\ Still => (\A l \in Legs : polled[l].st = "none")
                      \/ \A l \in Legs : Known(l) => polled[l].st # "none"
    BY DEF Shape, Truthful, Polled, AllOrNone
  <2>4. polled \in [Legs -> Leg]
    BY DEF Typed
  <2> QED BY <2>1, <2>2, <2>3, <2>4, ListNumbers
<1>12. CASE Boot /\ ~Restore(polled)
  <2>1. UNCHANGED <<legs, job, seq, current, reqQty, replacing>>
    BY <1>12 DEF Boot
  <2> QED BY <1>0, <2>1 DEF Numbered, Known
<1>13. CASE PollRead \/ FoldOldest
  <2>1. UNCHANGED <<legs, job, seq, current, reqQty, replacing>>
    BY <1>13 DEF PollRead, FoldOldest
  <2> QED BY <1>0, <2>1 DEF Numbered, Known
<1> QED BY <1>5, <1>6, <1>7, <1>8, <1>9, <1>10, <1>11, <1>12, <1>13 DEF Next

\* A process never forgets which leg it takes for the current one.
LEMMA CurrentStays ==
  ASSUME Typed, Shape, Next, ~Crash, current # NoLeg
  PROVE  current' # NoLeg
<1>1. CASE Register \/ Switch
  <2>1. job.at = "resubmitted" => job.leg \in Legs
    BY DEF Shape, Numbered, Typed
  <2>2. 0 # NoLeg /\ \A l \in Legs : l # NoLeg
    BY TZAssumption DEF NoLeg, Legs
  <2> QED BY <1>1, <2>1, <2>2 DEF Register, Switch
<1>2. CASE ApplySnapshot \/ PollApply \/ Boot
  BY <1>2 DEF ApplySnapshot, PollApply, Boot, Restore, memory
<1>3. CASE ~Register /\ ~Switch /\ ~ApplySnapshot /\ ~PollApply /\ ~Boot
  BY <1>3 DEF Next, BrokerNext, Fill, Cancels, Expires, Submits, Post, EmitAccepted,
     Replaces, StartReplace, CancelOld, TimesOut, GiveUp, Confirmed, Resubmit,
     EmitReplaced, EmitDead, StartCancel, CancelRequest, ReadFrame, Drop, Connect,
     ReadSnapshot, PollRead, FoldOldest, memory
<1> QED BY <1>1, <1>2, <1>3

\* What a process submits, and then remembers, it keeps until it dies.
LEMMA StillSteps ==
  ASSUME Typed, Shape, Next, Still', ~Crash, ~Post
  PROVE  Still
<1> SUFFICES ASSUME ~Still PROVE FALSE
  OBVIOUS
<1>1. up /\ up' /\ ~Blank /\ Blank'
  <2>1. up /\ ~Blank
    BY DEF Still
  <2>2. up' = up
    BY <2>1 DEF Next, BrokerNext, Fill, Cancels, Expires, Submits, Register, EmitAccepted,
       Replaces, StartReplace, CancelOld, TimesOut, GiveUp, Confirmed, Resubmit, Switch,
       EmitReplaced, EmitDead, StartCancel, CancelRequest, ReadFrame, Drop, Connect,
       ReadSnapshot, ApplySnapshot, PollRead, PollApply, FoldOldest, Boot, engine
  <2> QED BY <2>1, <2>2 DEF Still
<1>2. current # NoLeg => current' # NoLeg
  BY CurrentStays
<1>3. job.at \in {"post", "posted"} /\ job'.at = "idle"
  BY <1>1, <1>2 DEF Blank, Shape, Numbered
<1>4. ~Submits /\ ~Replaces
  <2>1. ~EmitAccepted
    BY <1>3 DEF EmitAccepted
  <2>2. Register => job'.at = "accepted"
    BY DEF Register, Goto, Typed, Job
  <2>3. ~Replaces
    BY <1>3 DEF Replaces, StartReplace, CancelOld, TimesOut, GiveUp, Confirmed, Resubmit,
       Switch, EmitReplaced, EmitDead
  <2> QED BY <1>3, <2>1, <2>2, <2>3 DEF Submits
<1>5. job' = job
  BY <1>4 DEF Next, BrokerNext, Fill, Cancels, Expires, StartCancel, CancelRequest,
     ReadFrame, Drop, Connect, ReadSnapshot, ApplySnapshot, PollRead, PollApply, FoldOldest,
     Boot
<1> QED BY <1>3, <1>5

LEMMA StillSubmitsNothing == Still /\ Typed /\ Shape => ~Resubmit
<1> SUFFICES ASSUME Resubmit, Shape PROVE ~Still
  OBVIOUS
<1>1. up /\ job.at = "resubmit"
  BY DEF Resubmit
<1> QED BY <1>1 DEF Still, Blank

LEMMA BlankSteps ==
  ASSUME Typed, Shape, Next, Blank', ~Crash, ~Post
  PROVE  Blank
<1>1. Still
  BY StillSteps DEF Still
<1>2. current = NoLeg
  BY CurrentStays DEF Blank
<1>3. ~up => job.at = "idle"
  BY DEF Shape, Reset, IdleJob
<1> QED BY <1>1, <1>2, <1>3 DEF Still, Blank

\* Meanwhile the broker has the same legs.
LEMMA StillLegs ==
  ASSUME Typed, Shape, Next, Still
  PROVE  /\ ~Post /\ ~Resubmit
         /\ \A l \in Legs : Known(l)' <=> Known(l)
<1>1. ~Post
  BY DEF Post, Still, Blank
<1>2. ~Resubmit
  BY StillSubmitsNothing
<1> QED BY <1>1, <1>2, NewLegs, EndsAreFinal

LEMMA UnheardOf ==
  ASSUME Typed, Shape, Post
  PROVE  /\ UNCHANGED <<snapshot, polled>>
         /\ \A l \in Legs : ~Known(l) /\ snapshot[l].st = "none" /\ polled[l].st = "none"
BY DEF Post, sync, Shape, Numbered, Truthful, Listed, Polled

\* The next process's lists have every leg or none: it has submitted nothing.
LEMMA StepAllOrNone ==
  ASSUME Typed, Shape, Next
  PROVE  AllOrNone'
<1> DEFINE Whole(rows) == \/ \A l \in Legs : rows[l].st = "none"
                          \/ \A l \in Legs : Known(l) => rows[l].st # "none"
<1>1. SUFFICES ASSUME Still'
               PROVE  Whole(snapshot)' /\ Whole(polled)'
  BY <1>1 DEF AllOrNone, Listed, Polled
<1>2. CASE Crash
  BY <1>2 DEF Crash, NoRows, NoOrder
<1>3. CASE Post
  BY <1>3, UnheardOf
<1>4. CASE ~Crash /\ ~Post /\ Still
  <2>1. \A l \in Legs : Known(l)' => Known(l)
    <3>1. ~Resubmit
      BY <1>4, StillSubmitsNothing
    <3> QED BY <1>4, <3>1, NewLegs
  <2>2. ASSUME NEW rows, NEW rows1, Whole(rows),
               rows1 = rows \/ rows1 = NoRows \/ (rows1 = legs /\ legs' = legs)
        PROVE  \/ \A l \in Legs : rows1[l].st = "none"
               \/ \A l \in Legs : Known(l)' => rows1[l].st # "none"
    <3>1. CASE rows1 = rows
      BY <2>1, <2>2, <3>1
    <3>2. CASE rows1 = NoRows
      BY <3>2 DEF NoRows, NoOrder
    <3>3. CASE rows1 = legs /\ legs' = legs
      BY <3>3 DEF Known
    <3> QED BY <2>2, <3>1, <3>2, <3>3
  <2>3. Whole(snapshot) /\ Whole(polled)
    BY <1>4 DEF Shape, AllOrNone, Listed, Polled
  <2>4. polled' = polled \/ polled' = NoRows \/ (polled' = legs /\ legs' = legs)
    BY PollSteps
  <2>5. snapshot' = snapshot \/ snapshot' = NoRows \/ (snapshot' = legs /\ legs' = legs)
    BY ListSteps
  <2> HIDE DEF Whole
  <2>6. Whole(snapshot)'
    BY <2>2, <2>3, <2>5 DEF Whole
  <2>7. Whole(polled)'
    BY <2>2, <2>3, <2>4 DEF Whole
  <2> QED BY <2>6, <2>7
<1>5. ~Crash /\ ~Post => Still
  BY <1>1, StillSteps
<1> QED BY <1>1, <1>2, <1>3, <1>4, <1>5

LEMMA StepRemembered ==
  ASSUME Typed, Shape, Next
  PROVE  Remembered'
<1> SUFFICES ASSUME ~up', current' # NoLeg PROVE Known(current)'
  BY DEF Remembered
<1>1. ~Crash
  BY DEF Crash
<1>2. ~up
  BY <1>1 DEF Next, BrokerNext, Fill, Cancels, Expires, Submits, Post, Register, EmitAccepted,
     Replaces, StartReplace, CancelOld, TimesOut, GiveUp, Confirmed, Resubmit, Switch,
     EmitReplaced, EmitDead, StartCancel, CancelRequest, ReadFrame, Drop, Connect,
     ReadSnapshot, ApplySnapshot, PollRead, PollApply, FoldOldest, Boot, engine
<1>3. current' \in Legs
  BY StepTyped DEF Typed, Maybe
<1>4. CASE current' = current
  BY <1>2, <1>3, <1>4, EndsAreFinal DEF Shape, Remembered
<1>5. CASE ApplySnapshot
  <2> DEFINE c == CurrentLeg(snapshot)
  <2>1. current' = current \/ (c # NoLeg /\ current' = c)
    BY <1>5 DEF ApplySnapshot
  <2>2. c # NoLeg => c \in Legs /\ snapshot[c].st # "none"
    BY CurrentLegOfRows DEF Typed
  <2>3. legs' = legs
    BY <1>5 DEF ApplySnapshot, broker
  <2> QED BY <1>4, <2>1, <2>2, <2>3 DEF Shape, Truthful, Listed, Known
<1>6. ~PollApply /\ ~Boot /\ ~Submits /\ ~Replaces
  BY <1>2 DEF PollApply, Boot, Submits, Post, Register, EmitAccepted, Replaces, StartReplace,
     CancelOld, TimesOut, GiveUp, Confirmed, Resubmit, Switch, EmitReplaced, EmitDead
<1>7. ~ApplySnapshot => current' = current
  BY <1>1, <1>6 DEF Next, BrokerNext, Fill, Cancels, Expires, StartCancel, CancelRequest,
     ReadFrame, Drop, Connect, ReadSnapshot, PollRead, FoldOldest, memory
<1> QED BY <1>4, <1>5, <1>7

LEMMA StepShape ==
  ASSUME Typed, Shape, Next
  PROVE  Shape'
BY StepReset, StepTruthful, StepNumbered, StepAllOrNone, StepRemembered DEF Shape

-----------------------------------------------------------------------------
(* The end of a leg is certain before the next one is submitted *)

\* While a process has submitted nothing, what its polls read open is the leg
\* that is.
LEMMA StepPollBehind ==
  ASSUME Typed, Shape, OneOpen, PollBehind, Next
  PROVE  PollBehind'
<1>1. SUFFICES ASSUME Still', NEW k \in Legs, NEW l \in Legs, Open(k)', k # l
               PROVE  ~OpenRow(polled'[l])
  BY DEF PollBehind
<1>2. ~OpenRow(NoRows[l])
  BY DEF NoRows, NoOrder, OpenRow, OpenStates
<1>3. CASE Crash
  BY <1>2, <1>3 DEF Crash
<1>4. CASE Post
  BY <1>4, UnheardOf DEF OpenRow, OpenStates
<1>5. CASE ~Crash /\ ~Post
  <2>1. Still /\ ~Resubmit
    BY <1>1, <1>5, StillSteps, StillSubmitsNothing
  <2>2. Known(k)' => Known(k)
    BY <1>5, <2>1, NewLegs
  <2>3. Open(k)
    BY <1>1, <2>2, EndsAreFinal DEF Known, Open, OpenStates
  <2>4. CASE polled' = polled
    BY <1>1, <2>1, <2>3, <2>4 DEF PollBehind
  <2>5. CASE polled' = legs /\ legs' = legs
    BY <1>1, <2>3, <2>5 DEF OneOpen, OpenRow, Open
  <2> QED BY <1>2, <2>4, <2>5, PollSteps
<1> QED BY <1>3, <1>4, <1>5

\* Steps that submit nothing, read no list and leave the current leg alone.
LEMMA CalmStep ==
  ASSUME Typed, Shape, Certain, Next, ~Post, ~Resubmit,
         UNCHANGED <<current, lastKnown>>,
         \A l \in Legs : seen'[l] >= seen[l],
         syncing' = "no" \/ UNCHANGED sync,
         Sure' => ~Alive, syncing' # "no" /\ Sure' => Sure,
         Replacing' => Replacing /\ replacing' = replacing,
         job.at = "resubmitted" => job'.at = "resubmitted",
         job'.at = "resubmitted" => job.at = "resubmitted" /\ job'.leg = job.leg,
         job'.at = "posted" => job.at = "posted"
  PROVE  Certain'
<1>1. \A l \in Legs : Known(l) => Known(l)' /\ (~Open(l) => legs'[l] = legs[l])
  BY EndsAreFinal
<1>2. \A l \in Legs : Known(l)' => Known(l)
  BY NewLegs
<1>3. \A l \in Legs : Open(l)' => Open(l) /\ Known(l)
  BY <1>1, <1>2 DEF Open, OpenStates, Known
<1>4. ASSUME NEW f \in Queued', f.status = "CANCELED"
      PROVE  f \in Queued \/ (f.leg \in Legs /\ Open(f.leg) /\ ~Open(f.leg)')
  BY <1>4, NewFrames DEF Open, OpenStates
<1>5. OneOpen'
  BY <1>3 DEF Certain, OneOpen
<1>6. (Sure => ~Alive)'
  BY <1>3 DEF Alive
<1>7. ASSUME syncing' # "no", Sure' \/ Alive' PROVE NoCancelFrames'
  <2>1. syncing # "no" /\ (Sure \/ Alive)
    BY <1>3, <1>7 DEF Alive, sync
  <2>2. NoCancelFrames
    BY <2>1 DEF Certain
  <2>3. \A l \in Legs : Open(l) => Open(l)'
    <3>1. CASE Sure'
      BY <3>1 DEF Alive
    <3>2. CASE Alive'
      BY <1>3, <3>2 DEF Alive, Certain, OneOpen
    <3> QED BY <1>7, <3>1, <3>2
  <2> QED BY <1>4, <2>2, <2>3 DEF NoCancelFrames
<1>8. Newest'
  BY <1>3 DEF Certain, Newest
<1>9. ListBehind'
  <2>1. CASE syncing' = "no"
    BY <2>1 DEF ListBehind
  <2>2. CASE UNCHANGED sync /\ syncing' # "no"
    <3>1. \A l \in Legs : OpenRow(snapshot[l])' = OpenRow(snapshot[l]) /\ Listed(l)' = Listed(l)
      BY <2>2 DEF sync, OpenRow, Listed
    <3> QED BY <1>2, <1>3, <2>2, <3>1 DEF Certain, ListBehind, sync
  <2> QED BY <2>1, <2>2
<1>10. StaleIsSettled'
  <2>1. ASSUME NEW k \in Legs, Open(k)', current' \notin {NoLeg, k}, job'.at # "resubmitted"
        PROVE  Settled(current)'
    <3>1. Settled(current) /\ Open(k) /\ current # k
      BY <1>3, <2>1 DEF Certain, StaleIsSettled
    <3>2. current \in Legs /\ ~Open(current)
      BY <2>1, <3>1 DEF Certain, OneOpen, Typed, Maybe
    <3>3. legs'[current] = legs[current] /\ Known(current)'
      BY <1>1, <3>1, <3>2 DEF Settled
    <3>4. NoCancelFrame(current)'
      BY <1>4, <3>1, <3>2 DEF Settled, NoCancelFrame
    <3>5. seen'[current] >= legs[current].exec
      <4>1. seen[current] >= legs[current].exec /\ seen'[current] >= seen[current]
        BY <3>1, <3>2 DEF Settled
      <4>2. seen[current] \in Nat /\ legs[current].exec \in Nat /\ seen'[current] \in Nat
        <5>1. Typed'
          BY StepTyped
        <5> QED BY <3>2, <5>1 DEF Typed, Leg
      <4> QED BY <4>1, <4>2
    <3> QED BY <3>1, <3>3, <3>4, <3>5 DEF Settled, Known
  <2>2. ASSUME NEW k \in Legs, Open(k)', Replacing', replacing' # k PROVE current' = replacing'
    BY <1>3, <2>2 DEF Certain, StaleIsSettled
  <2> QED BY <2>1, <2>2 DEF StaleIsSettled
<1>11. PollBehind'
  BY StepPollBehind DEF Certain
<1> QED BY <1>5, <1>6, <1>7, <1>8, <1>9, <1>10, <1>11 DEF Certain

\* A submit is sent when no leg can fill.
LEMMA SubmitStep ==
  ASSUME Typed, Shape, Certain, Next, Post \/ Resubmit, "answer" \notin lost'
  PROVE  Certain'
<1> DEFINE at == job'.at
           new == IF Post THEN 0 ELSE job.leg
<1> USE DEF broker, stream, sync, memory, swap, engine, core
<1>0. new \in Legs /\ ~Known(new) /\ ~Alive /\ (Resubmit => ~Post)
  <2>1. CASE Post
    BY <2>1, TZAssumption DEF Post, Shape, Numbered, Alive, Open, OpenStates, Known, Legs, Resubmit
  <2>2. CASE Resubmit
    BY <2>2 DEF Resubmit, Post, Shape, Numbered, Certain, Sure, Typed
  <2> QED BY <2>1, <2>2
<1>1. \A l \in Legs : Known(l)' => Known(l) \/ l = new
  BY <1>0, NewLegs
<1>2. \A l \in Legs : Known(l) => Known(l)' /\ legs'[l] = legs[l]
  BY <1>0, EndsAreFinal DEF Alive
<1>3. \A l \in Legs : Open(l)' => l = new
  BY <1>0, <1>1, <1>2 DEF Alive, Open, OpenStates, Known
<1>4. \A f \in Queued' : f.status = "CANCELED" => f \in Queued
  BY <1>0, NewFrames DEF Alive
<1>5. UNCHANGED <<sync, current, lastKnown, seen>>
  BY DEF Post, Resubmit
<1>6. /\ Post => at \in {"posted", "idle"} /\ (Alive' => at = "posted")
      /\ Resubmit => /\ at \in {"resubmitted", "died"} /\ job'.leg = job.leg
                     /\ Alive' => at = "resubmitted"
  <2>1. \A a \in JobSteps : [job EXCEPT !.at = a].at = a /\ [job EXCEPT !.at = a].leg = job.leg
    BY DEF Typed, Job
  <2>2. IdleJob.at = "idle"
    BY DEF IdleJob
  <2>3. ASSUME NEW l \in Legs, NEW q, Refused(l, q), l = new PROVE ~Alive'
    <3>1. legs'[l].st = "rejected"
      BY <2>3 DEF Refused, Push, Typed
    <3> QED BY <1>3, <2>3, <3>1 DEF Alive, Open, OpenStates
  <2>4. \A l, q : ~Unanswered(l, q)
    BY DEF Unanswered
  <2>5. CASE Post
    <3>1. \/ job' = [job EXCEPT !.at = "posted"]
          \/ job' = IdleJob /\ Refused(0, job.want)
      BY <2>4, <2>5 DEF Post, Goto
    <3>2. [job EXCEPT !.at = "posted"].at = "posted"
      BY <2>1 DEF JobSteps
    <3>3. CASE job' = [job EXCEPT !.at = "posted"]
      BY <1>0, <2>5, <3>2, <3>3
    <3>4. CASE job' = IdleJob /\ Refused(0, job.want)
      <4>1. ~Alive'
        BY <1>0, <2>3, <2>5, <3>4
      <4> QED BY <1>0, <2>2, <2>5, <3>4, <4>1
    <3> QED BY <3>1, <3>3, <3>4
  <2>6. CASE Resubmit
    <3>1. \/ job' = [job EXCEPT !.at = "resubmitted"]
          \/ job' = [job EXCEPT !.at = "died"] /\ Refused(job.leg, job.qty)
      BY <2>4, <2>6 DEF Resubmit, Goto
    <3> QED BY <1>0, <2>1, <2>3, <2>6, <3>1 DEF JobSteps
  <2> QED BY <2>5, <2>6
<1>7. ~Sure' /\ ~Replacing'
  BY <1>6 DEF Sure, Replacing
<1>8. OneOpen' /\ Newest'
  BY <1>3, <1>6 DEF OneOpen, Newest
<1>9. syncing # "no" => NoCancelFrames
  <2>1. CASE Post
    <3>1. Queued = {}
      <4>1. ASSUME NEW f \in Queued PROVE FALSE
        BY <2>1, <4>1, QueueChanges DEF Post, Shape, Truthful, Numbered, Frames
      <4> QED BY <4>1
    <3> QED BY <3>1 DEF NoCancelFrames
  <2>2. CASE Resubmit
    BY <2>2 DEF Resubmit, Sure, Certain
  <2> QED BY <2>1, <2>2
<1>10. (syncing # "no" /\ (Sure \/ Alive) => NoCancelFrames)'
  BY <1>4, <1>5, <1>9 DEF NoCancelFrames
<1>11. ListBehind'
  <2> SUFFICES ASSUME syncing = "apply", NEW k \in Legs, NEW l \in Legs, Open(k)', k # l
               PROVE  ~OpenRow(snapshot[l]) /\ (Known(l)' => Listed(l))
    BY <1>5, <1>7 DEF ListBehind, OpenRow, Listed
  <2>1. k = new /\ (Known(l)' => Known(l))
    BY <1>1, <1>3
  <2>2. CASE Post
    BY <2>1, <2>2 DEF Post, Shape, Truthful, Numbered, Listed, OpenRow, OpenStates
  <2>3. CASE Resubmit
    BY <2>1, <2>3 DEF Resubmit, Certain, ListBehind, Sure
  <2> QED BY <2>2, <2>3
<1>12. StaleIsSettled'
  <2>1. ASSUME NEW k \in Legs, Open(k)', current' \notin {NoLeg, k}, at # "resubmitted"
        PROVE  FALSE
    <3>1. Post
      BY <1>6, <2>1 DEF Alive
    <3>2. current = NoLeg
      BY <3>1 DEF Post, Shape, Numbered
    <3> QED BY <1>5, <2>1, <3>2
  <2> QED BY <1>7, <2>1 DEF StaleIsSettled
<1>13. PollBehind'
  BY StepPollBehind DEF Certain
<1> QED BY <1>7, <1>8, <1>10, <1>11, <1>12, <1>13 DEF Certain

LEMMA QuietStep ==
  ASSUME Typed, Shape, Certain, Next,
         \/ BrokerNext \/ EmitAccepted \/ StartCancel \/ CancelRequest \/ Drop
         \/ PollRead \/ FoldOldest
         \/ Replaces /\ ~Resubmit /\ ~Switch
  PROVE  Certain'
<1> USE DEF broker, stream, sync, memory, swap, engine, core
<1>1. /\ \A a \in JobSteps : /\ [job EXCEPT !.at = a].at = a
                             /\ [job EXCEPT !.at = a].leg = job.leg
      /\ IdleJob.at = "idle"
  BY DEF Typed, Job, IdleJob
<1>2. \A l \in Legs : seen[l] >= seen[l]
  BY DEF Typed
<1>3. Sure => ~Alive
  BY DEF Certain
<1>4. ASSUME UNCHANGED <<job, current, lastKnown, seen, confirmed, replacing>>,
             syncing' = "no" \/ UNCHANGED sync, ~Post, ~Resubmit
      PROVE  Certain'
  <2>1. Sure' = Sure /\ Replacing' = Replacing
    BY <1>4 DEF Sure, Replacing
  <2> QED BY <1>2, <1>3, <1>4, <2>1, CalmStep
<1>5. CASE BrokerNext
  <2>1. UNCHANGED <<job, current, lastKnown, seen, confirmed, replacing, sync, reqQty>>
    BY <1>5 DEF BrokerNext, Fill, Cancels, Expires
  <2>2. ~Post /\ ~Resubmit
    <3>1. \A a \in JobSteps : a # job.at => job' # [job EXCEPT !.at = a]
      BY <1>1, <2>1
    <3>2. job.at = "post" => job' # IdleJob
      BY <1>1, <2>1
    <3> QED BY <3>1, <3>2 DEF Post, Resubmit, Goto, JobSteps
  <2> QED BY <1>4, <2>1, <2>2
<1>6. CASE StartCancel \/ CancelRequest \/ Drop \/ PollRead \/ FoldOldest
  <2>1. UNCHANGED <<job, current, lastKnown, seen, confirmed, replacing>>
    BY <1>6 DEF StartCancel, CancelRequest, Drop, PollRead, FoldOldest
  <2>2. syncing' = "no" \/ UNCHANGED sync
    BY <1>6 DEF StartCancel, CancelRequest, Drop, PollRead, FoldOldest
  <2>3. ~Post /\ ~Resubmit
    <3>1. \A a \in JobSteps : a # job.at => job' # [job EXCEPT !.at = a]
      BY <1>1, <2>1
    <3>2. job.at = "post" => job' # IdleJob
      BY <1>1, <2>1
    <3> QED BY <3>1, <3>2 DEF Post, Resubmit, Goto, JobSteps
  <2> QED BY <1>4, <2>1, <2>2, <2>3
<1>7. ASSUME UNCHANGED <<sync, current, lastKnown, seen>>, job.at \notin {"post", "resubmit"},
             job.at # "resubmitted", job'.at \notin {"posted", "resubmitted"},
             Replacing' => Replacing /\ replacing' = replacing,
             Sure' => Sure
      PROVE  Certain'
  <2>1. ~Post /\ ~Resubmit
    BY <1>7 DEF Post, Resubmit
  <2> QED BY <1>2, <1>3, <1>7, <2>1, CalmStep
<1>8. CASE EmitAccepted \/ EmitReplaced \/ EmitDead
  <2>1. job.at \in {"accepted", "replaced", "dead"} /\ job' = IdleJob
    BY <1>8 DEF EmitAccepted, EmitReplaced, EmitDead
  <2>2. UNCHANGED <<sync, current, lastKnown, seen>>
    BY <1>8 DEF EmitAccepted, EmitReplaced, EmitDead
  <2> QED BY <1>1, <1>7, <2>1, <2>2 DEF Replacing, Sure
<1>9. CASE CancelOld
  <2>1. job.at = "cancel" /\ UNCHANGED <<sync, current, lastKnown, seen, confirmed, replacing>>
    BY <1>9 DEF CancelOld
  <2>2. job' = [job EXCEPT !.at = "await"] \/ job' = [job EXCEPT !.at = "give up"]
    BY <1>9 DEF CancelOld, Goto
  <2>3. job'.at \in {"await", "give up"}
    <3>1. "await" \in JobSteps /\ "give up" \in JobSteps
      BY DEF JobSteps
    <3> QED BY <1>1, <2>2, <3>1
  <2> QED BY <1>7, <2>1, <2>3 DEF Replacing, Sure
<1>10. CASE TimesOut \/ GiveUp
  <2>1. job.at \in {"await", "give up", "died"} /\ UNCHANGED <<sync, current, lastKnown, seen>>
    BY <1>10 DEF TimesOut, GiveUp
  <2>2. job'.at \in {"give up", "idle", "dead"}
    BY ZenonT(40), <1>1, <1>10 DEF TimesOut, GiveUp, Goto, JobSteps
  <2> QED BY <1>7, <2>1, <2>2 DEF Replacing, Sure
<1>11. CASE Confirmed
  <2>1. Sure /\ job.at = "await" /\ UNCHANGED <<sync, current, lastKnown, seen>>
    BY <1>11 DEF Confirmed, Sure, Replacing
  <2>2. job'.at \in {"resubmit", "dead"}
    <3>1. [job EXCEPT !.at = "resubmit", !.qty = Remaining, !.want = Total,
                      !.leg = seq + 1].at = "resubmit"
      BY DEF Typed, Job
    <3> QED BY <1>1, <1>11, <3>1 DEF Confirmed, Goto, JobSteps
  <2> QED BY <1>7, <2>1, <2>2 DEF Replacing
<1>12. ASSUME NEW q \in Qtys, StartReplace(q) PROVE Certain'
  <2>1. job'.at = "cancel" /\ replacing' = current /\ ~Sure'
    BY <1>12 DEF StartReplace, IdleJob, Sure, Replacing, Target, Shape, Numbered
  <2>2. ~Post /\ ~Resubmit /\ job.at = "idle"
    BY <1>12 DEF StartReplace, Post, Resubmit
  <2>3. UNCHANGED <<legs, frames, sync, current, lastKnown, seen>>
    BY <1>12 DEF StartReplace
  <2> USE DEF Certain
  <2>4. OneOpen' /\ ListBehind' /\ Newest'
    BY <2>1, <2>3 DEF OneOpen, ListBehind, Newest, Open, OpenRow, Listed, Known
  <2>5. (syncing # "no" /\ (Sure \/ Alive) => NoCancelFrames)'
    BY <2>1, <2>3 DEF NoCancelFrames, Queued, Alive, Open
  <2>6. StaleIsSettled'
    BY <2>1, <2>2, <2>3 DEF StaleIsSettled, Settled, NoCancelFrame, Queued, Known, Open
  <2>7. PollBehind'
    BY StepPollBehind
  <2> QED BY <2>1, <2>4, <2>5, <2>6, <2>7
<1> QED BY <1>5, <1>6, <1>8, <1>9, <1>10, <1>11, <1>12 DEF Replaces

\* Steps that make the leg just submitted the current one.
LEMMA CurrentStep ==
  ASSUME Typed, Shape, Certain, Next, Register \/ Switch
  PROVE  Certain'
<1> USE DEF broker, stream, sync, memory, swap, engine, core
<1>1. UNCHANGED <<legs, frames, syncing, snapshot>>
  BY DEF Register, Switch
<1>2. \A l \in Legs : Open(l) => l = current'
  BY DEF Register, Switch, Certain, Newest
<1>3. job'.at \in {"accepted", "replaced"}
  BY DEF Register, Switch, Goto, Typed, Job
<1> USE DEF Certain
<1>4. ~Sure' /\ ~Replacing'
  BY <1>3 DEF Sure, Replacing
<1>5. OneOpen' /\ ListBehind' /\ Newest'
  BY <1>1, <1>3, <1>4 DEF OneOpen, ListBehind, Newest, Open, OpenRow, Listed, Known
<1>6. (syncing # "no" /\ (Sure \/ Alive) => NoCancelFrames)'
  BY <1>1, <1>4 DEF NoCancelFrames, Queued, Alive, Open
<1>7. StaleIsSettled'
  BY <1>1, <1>2, <1>4 DEF StaleIsSettled, Open
<1>8. PollBehind'
  BY StepPollBehind
<1> QED BY <1>4, <1>5, <1>6, <1>7, <1>8

LEMMA ReadFrameStep ==
  ASSUME Typed, Shape, Certain, Next, ReadFrame
  PROVE  Certain'
<1> DEFINE f == Head(frames)
<1> USE DEF broker, stream, sync, memory, swap, engine, core
<1>1. f \in Frames /\ f \in Queued
  BY QueueChanges
<1>2. UNCHANGED <<job, current, lastKnown, replacing, sync>> /\ syncing = "no"
  BY DEF ReadFrame
<1>3. \A l \in Legs : seen'[l] >= seen[l]
  <2>1. seen \in [Legs -> Nat] /\ f.exec \in Nat /\ f.leg \in Legs
    BY <1>1 DEF Frames, Typed
  <2>2. seen' = IF NewFill(f) THEN [seen EXCEPT ![f.leg] = f.exec] ELSE seen
    BY DEF ReadFrame
  <2>3. NewFill(f) => f.exec > seen[f.leg]
    BY DEF NewFill
  <2> HIDE DEF f
  <2> QED BY <2>1, <2>2, <2>3
<1>4. Sure' => ~Alive
  <2>1. CASE Sure
    BY <2>1 DEF Certain
  <2>2. CASE ~Sure /\ Sure'
    <3>1. Replacing /\ confirmed' /\ ~confirmed
      BY <1>2, <2>2 DEF Sure, Replacing, Typed
    <3>2. f.status = "CANCELED" /\ replacing = f.leg
      BY <3>1 DEF ReadFrame, Signals
    <3>3. ASSUME NEW k \in Legs, Open(k) PROVE FALSE
      <4>1. legs[replacing].st = "canceled"
        BY <1>1, <3>2 DEF Shape, Truthful
      <4>2. k # replacing
        BY <3>3, <4>1 DEF Open, OpenStates
      <4>3. current = replacing
        BY <3>1, <3>3, <4>2 DEF Certain, StaleIsSettled
      <4>4. Settled(current)
        BY <3>1, <3>3, <4>2, <4>3 DEF Certain, StaleIsSettled, Replacing, Shape, Numbered
      <4> QED BY <1>1, <3>2, <4>3, <4>4 DEF Settled, NoCancelFrame
    <3> QED BY <3>3 DEF Alive
  <2> QED BY <2>1, <2>2
<1>5. ~Post /\ ~Resubmit
  BY <1>2 DEF Post, Resubmit, ReadFrame, Goto, IdleJob, Typed, Job
<1> HIDE DEF f
<1> QED BY <1>2, <1>3, <1>4, <1>5, CalmStep DEF Replacing

\* A new connection, and the list it reads.
LEMMA ConnectStep ==
  ASSUME Typed, Shape, Certain, Next, Connect \/ ReadSnapshot
  PROVE  Certain'
<1> USE DEF broker, stream, sync, memory, swap, engine, core, Certain
<1>1. UNCHANGED <<legs, frames, seen, current, lastKnown, job, confirmed, replacing>>
  BY DEF Connect, ReadSnapshot
<1>2. Sure' = Sure /\ Replacing' = Replacing /\ Alive' = Alive
  BY <1>1 DEF Sure, Replacing, Alive, Open
<1>3. OneOpen' /\ Newest'
  BY <1>1 DEF OneOpen, Newest, Open
<1>4. (syncing # "no" /\ (Sure \/ Alive) => NoCancelFrames)'
  <2>1. Queued' = Queued
    BY <1>1 DEF Queued
  <2>2. CASE Connect
    <3>1. Queued' = {}
      BY <2>2, QueueChanges DEF Connect, Shape, Reset
    <3> QED BY <3>1 DEF NoCancelFrames
  <2>3. CASE ReadSnapshot
    BY <1>2, <2>1, <2>3 DEF ReadSnapshot, NoCancelFrames
  <2> QED BY <2>2, <2>3
<1>5. ListBehind'
  <2>1. CASE syncing' = "apply"
    <3>1. snapshot' = legs
      BY <2>1 DEF Connect, ReadSnapshot
    <3> QED BY <1>1, <1>2, <3>1
            DEF ListBehind, OpenRow, Listed, Known, Alive, Open, OneOpen
  <2> QED BY <2>1 DEF ListBehind
<1>6. StaleIsSettled'
  BY <1>1, <1>2 DEF StaleIsSettled, Settled, NoCancelFrame, Queued, Known, Open
<1>7. PollBehind'
  BY StepPollBehind
<1> QED BY <1>2, <1>3, <1>4, <1>5, <1>6, <1>7

\* A list confirms the end of the old leg only where that is news.
LEMMA ApplySnapshotStep ==
  ASSUME Typed, Shape, Certain, Next, ApplySnapshot
  PROVE  Certain'
<1> DEFINE rows == snapshot
           c == CurrentLeg(rows)
           s == Restored(rows, c, TRUE)
           st == Status(rows[c])
<1> USE DEF broker, stream, sync, memory, swap, engine, core
<1>1. /\ UNCHANGED <<legs, frames, job, replacing>>
      /\ syncing = "apply" /\ syncing' = "no"
  BY DEF ApplySnapshot
<1>2. /\ c # NoLeg => c \in Legs /\ Listed(c)
      /\ current \in Present(rows) => c = current
      /\ rows \in [Legs -> Leg]
  BY CurrentLegOfRows DEF Typed, Listed
<1>3. s \in [Legs -> Nat] /\ \A l \in Legs : s[l] >= seen[l]
  BY RestoredRises DEF Typed
<1>4. c = NoLeg => UNCHANGED <<current, lastKnown, confirmed>> /\ seen' = s
  BY DEF ApplySnapshot
<1>5. c # NoLeg => /\ current' = c /\ lastKnown' = st
                   /\ seen' = [s EXCEPT ![c] = Larger(@, rows[c].exec)]
                   /\ confirmed' => \/ confirmed
                                    \/ /\ lastKnown # st \/ rows[c].exec > s[c]
                                       /\ st = "CANCELED" /\ replacing = c
  BY DEF ApplySnapshot, Signals
<1> HIDE DEF s
<1>6. c # NoLeg => seen'[c] >= rows[c].exec
  <2> SUFFICES ASSUME c # NoLeg PROVE seen'[c] >= rows[c].exec
    OBVIOUS
  <2>1. s[c] \in Nat /\ rows[c].exec \in Nat
    BY <1>2, <1>3 DEF Leg
  <2>2. seen'[c] = Larger(s[c], rows[c].exec)
    BY <1>2, <1>3, <1>5
  <2> QED BY <2>1, <2>2 DEF Larger
<1>7. \A l \in Legs : seen'[l] >= seen[l]
  <2> SUFFICES ASSUME NEW l \in Legs PROVE seen'[l] >= seen[l]
    OBVIOUS
  <2>1. s[l] \in Nat /\ seen[l] \in Nat /\ rows[l].exec \in Nat /\ s[l] >= seen[l]
    BY <1>2, <1>3 DEF Leg, Typed
  <2>2. seen'[l] = s[l] \/ seen'[l] = Larger(s[l], rows[l].exec)
    BY <1>2, <1>3, <1>4, <1>5
  <2> QED BY <2>1, <2>2 DEF Larger
<1>8. \A l \in Legs : Listed(l) /\ ~OpenRow(rows[l]) => Known(l) /\ rows[l] = legs[l]
  BY DEF Shape, Truthful
<1>9. ASSUME NEW k \in Legs, Open(k), c \notin {NoLeg, k}
      PROVE  Known(c) /\ rows[c] = legs[c] /\ NoCancelFrame(c)
  <2>1. ~OpenRow(rows[c])
    BY <1>1, <1>2, <1>9 DEF Certain, ListBehind
  <2>2. NoCancelFrame(c)
    BY <1>1, <1>9 DEF Certain, Alive, NoCancelFrames, NoCancelFrame
  <2> QED BY <1>2, <1>8, <1>9, <2>1, <2>2
<1>10. Sure' => ~Alive'
  <2> SUFFICES ASSUME Sure', NEW k \in Legs, Open(k) PROVE FALSE
    BY <1>1 DEF Alive, Open
  <2>1. ~Sure
    BY DEF Certain, Alive
  <2>2. Replacing /\ ~confirmed /\ confirmed'
    BY <1>1, <2>1 DEF Sure, Replacing, Typed
  <2>3. /\ c # NoLeg /\ replacing = c /\ st = "CANCELED"
        /\ lastKnown # st \/ rows[c].exec > s[c]
    BY <1>4, <1>5, <2>2
  <2>4. rows[c].st = "canceled"
    BY <1>2, <2>3, StatusOfLeg
  <2>5. rows[c] = legs[c] /\ c # k
    BY <1>2, <1>8, <2>3, <2>4 DEF OpenRow, OpenStates, Open
  <2>6. current = c
    BY <2>2, <2>3, <2>5 DEF Certain, StaleIsSettled
  <2>7. Settled(c)
    BY <1>1, <2>2, <2>3, <2>5, <2>6 DEF Certain, StaleIsSettled, Replacing
  <2>8. seen[c] >= legs[c].exec /\ lastKnown = Status(legs[c])
    BY <2>7 DEF Settled
  <2>9. s[c] \in Nat /\ seen[c] \in Nat /\ rows[c].exec \in Nat /\ s[c] >= seen[c]
    BY <1>2, <1>3, <2>3 DEF Leg, Typed
  <2> QED BY <2>3, <2>5, <2>8, <2>9
<1>11. OneOpen' /\ Newest'
  BY <1>1 DEF Certain, OneOpen, Newest, Open
<1>12. ListBehind' /\ (syncing # "no" /\ (Sure \/ Alive) => NoCancelFrames)'
  BY <1>1 DEF ListBehind
<1>13. StaleIsSettled'
  <2>1. ASSUME NEW k \in Legs, Open(k)', current' \notin {NoLeg, k}, job'.at # "resubmitted"
        PROVE  Settled(current)'
    <3>1. Open(k) /\ job.at # "resubmitted"
      BY <1>1, <2>1 DEF Open
    <3>2. CASE c = NoLeg
      <4>1. UNCHANGED <<current, lastKnown>> /\ Settled(current) /\ current \in Legs
        BY <1>4, <2>1, <3>1, <3>2 DEF Certain, StaleIsSettled, Typed, Maybe
      <4>2. seen'[current] >= legs[current].exec
        <5>1. /\ seen[current] \in Nat /\ seen'[current] \in Nat /\ legs[current].exec \in Nat
          BY <1>3, <1>4, <3>2, <4>1 DEF Typed, Leg
        <5> QED BY <1>7, <4>1, <5>1 DEF Settled
      <4> QED BY <1>1, <4>1, <4>2 DEF Settled, NoCancelFrame, Queued, Known
    <3>3. CASE c # NoLeg
      <4>1. Known(c) /\ rows[c] = legs[c] /\ NoCancelFrame(c) /\ current' = c /\ lastKnown' = st
        BY <1>5, <1>9, <2>1, <3>1, <3>3
      <4> QED BY <1>1, <1>6, <3>3, <4>1 DEF Settled, NoCancelFrame, Queued, Known
    <3> QED BY <3>2, <3>3
  <2>2. ASSUME NEW k \in Legs, Open(k)', Replacing', replacing' # k PROVE current' = replacing'
    <3>1. Open(k) /\ Replacing /\ replacing # k /\ current = replacing
      BY <1>1, <2>2 DEF Open, Replacing, Certain, StaleIsSettled
    <3>2. current \in Legs /\ Known(current)
      BY <3>1 DEF Certain, StaleIsSettled, Settled, Shape, Numbered, Typed, Maybe, Replacing
    <3>3. Listed(current)
      BY <1>1, <3>1, <3>2 DEF Certain, ListBehind
    <3>4. c = current
      BY <1>2, <3>2, <3>3 DEF Present, Listed
    <3> QED BY <1>1, <1>4, <1>5, <3>1, <3>4
  <2> QED BY <2>1, <2>2 DEF StaleIsSettled
<1>14. PollBehind'
  BY StepPollBehind DEF Certain
<1> QED BY <1>10, <1>11, <1>12, <1>13, <1>14 DEF Certain

\* A list that is restored changes the current leg of a process that had none,
\* or, where that is remembered as a loss, of a running one.
LEMMA RestoreStep ==
  ASSUME Typed, Shape, Certain, Next, PollApply \/ Boot,
         Boot \/ current \in {NoLeg, current'}
  PROVE  Certain'
<1> DEFINE rows == polled
           c == CurrentLeg(rows)
<1> USE DEF broker, stream, sync, memory, swap, engine, core
<1>1. UNCHANGED <<legs, frames, job, confirmed, replacing, sync, lastKnown>>
  BY DEF PollApply, Boot, Restore
<1>2. ~Post /\ ~Resubmit
  BY <1>1 DEF Post, Resubmit, Goto, IdleJob, Typed, Job
<1>3. Sure' = Sure /\ Replacing' = Replacing /\ Alive' = Alive
  BY <1>1 DEF Sure, Replacing, Alive, Open
<1>4. Restore(rows) \/ UNCHANGED <<current, seen>>
  BY DEF PollApply, Boot
<1>5. \A l \in Legs : seen'[l] >= seen[l]
  <2>1. CASE Restore(rows)
    BY <2>1, RestoredRises DEF Restore, Typed
  <2>2. CASE UNCHANGED seen
    BY <2>2 DEF Typed
  <2> QED BY <1>4, <2>1, <2>2
<1>6. CASE current' = current
  BY <1>1, <1>2, <1>3, <1>5, <1>6, CalmStep DEF Certain
<1>7. CASE current' # current
  <2>1. Restore(rows) /\ c # NoLeg /\ current' = c
    BY <1>4, <1>7 DEF Restore
  <2>2. c \in Legs /\ rows[c].st # "none" /\ (current \in Present(rows) => c = current)
    BY <2>1, CurrentLegOfRows DEF Typed
  <2>3. current = NoLeg
    <3>1. CASE PollApply
      BY <1>7, <3>1 DEF PollApply, Boot
    <3>2. CASE Boot
      <4> SUFFICES ASSUME current # NoLeg PROVE FALSE
        OBVIOUS
      <4>1. ~up /\ (Present(rows) = Present(legs) \/ current' = current)
        BY <3>2 DEF Boot
      <4>2. current \in Present(legs)
        BY <4>1 DEF Shape, Remembered, Typed, Present, Known, Maybe
      <4> QED BY <1>7, <2>1, <2>2, <4>1, <4>2
    <3> QED BY <3>1, <3>2
  <2>4. ~Replacing /\ ~Sure /\ job.at \in {"idle", "post", "posted"}
    BY <2>3 DEF Shape, Numbered, Replacing, Sure
  <2>5. ASSUME NEW k \in Legs, Open(k) PROVE c = k
    <3>1. CASE job.at \in {"post", "posted"}
      <4>1. Known(c) /\ Known(k)
        BY <2>2, <2>5 DEF Shape, Truthful, Polled, Known, Open, OpenStates
      <4> QED BY <2>2, <3>1, <4>1 DEF Shape, Numbered
    <3>2. CASE job.at = "idle"
      <4>1. Still
        BY <2>3, <3>2 DEF Still, Blank
      <4>2. Polled(k)
        BY <2>2, <2>5, <4>1 DEF Shape, AllOrNone, Polled, Known, Open, OpenStates
      <4>3. OpenRow(rows[k])
        BY <2>5, <4>2 DEF Shape, Truthful, Open, OpenRow
      <4>4. \A l \in Legs : l # k => ~OpenRow(rows[l])
        BY <2>5, <4>1 DEF Certain, PollBehind
      <4> QED BY <2>3, <4>3, <4>4, BootTakesTheLiveLeg DEF Typed
    <3> QED BY <2>4, <3>1, <3>2
  <2>6. OneOpen' /\ Newest' /\ ListBehind'
    BY <1>1, <1>3 DEF Certain, OneOpen, Newest, ListBehind, Open, OpenRow, Listed, Known
  <2>7. (syncing # "no" /\ (Sure \/ Alive) => NoCancelFrames)'
    BY <1>1, <1>3 DEF Certain, NoCancelFrames, Queued
  <2>8. StaleIsSettled'
    BY <1>1, <1>3, <2>1, <2>4, <2>5 DEF StaleIsSettled, Open
  <2>9. PollBehind'
    BY StepPollBehind DEF Certain
  <2> QED BY <1>3, <2>4, <2>6, <2>7, <2>8, <2>9 DEF Certain
<1> QED BY <1>6, <1>7

LEMMA RestartStep ==
  ASSUME Typed, Shape, Certain, Next, Crash
  PROVE  Certain'
<1> USE DEF broker, stream, sync, memory, swap, engine, core
<1>1. job' = IdleJob /\ syncing' = "no"
  BY DEF Crash
<1>2. ~Sure' /\ ~Replacing'
  BY <1>1 DEF Sure, Replacing, IdleJob
<1>3. \A l \in Legs : Open(l)' => Open(l)
  <2>1. ~Post /\ ~Resubmit
    BY DEF Post, Resubmit, Crash
  <2>2. \A l \in Legs : Known(l)' => Known(l)
    BY <2>1, NewLegs
  <2> QED BY <2>2, EndsAreFinal DEF Open, OpenStates, Known
<1>4. OneOpen' /\ Newest' /\ ListBehind'
  BY <1>1, <1>3 DEF Certain, OneOpen, Newest, ListBehind, IdleJob
<1>5. StaleIsSettled'
  BY <1>2 DEF StaleIsSettled, Crash
<1>6. PollBehind'
  BY StepPollBehind DEF Certain
<1> QED BY <1>1, <1>2, <1>4, <1>5, <1>6 DEF Certain

-----------------------------------------------------------------------------

LEMMA InitInv == Init => IInv
<1> SUFFICES ASSUME Init PROVE IInv
  OBVIOUS
<1>1. 0 \in Legs /\ 0 \in Nat
  BY TZAssumption DEF Legs
<1>2. Typed
  <2>1. NoRows \in [Legs -> Leg]
    BY DEF NoRows, NoOrder, Leg, LegStates
  <2>2. job \in Job
    <3>1. PICK q \in 1 .. MaxQty : job = [IdleJob EXCEPT !.at = "post", !.want = q]
      BY DEF Init
    <3>2. job = [at |-> "post", orig |-> 0, want |-> q, qty |-> 0, leg |-> NoLeg]
      BY <3>1 DEF IdleJob
    <3>3. q \in Nat
      BY TZAssumption
    <3> QED BY <1>1, <3>2, <3>3 DEF Job, JobSteps, Maybe
  <2>3. <<>> \in Seq(Frames)
    OBVIOUS
  <2> QED BY <1>1, <2>1, <2>2, <2>3 DEF Init, Typed, Maybe
<1>3. Queued = {}
  BY <1>2, QueueChanges DEF Init, Queued
<1>4. \A l \in Legs : ~Known(l) /\ ~Listed(l) /\ ~Open(l)
  BY DEF Init, NoRows, NoOrder, Known, Listed, Open, OpenStates
<1>5. job.at = "post"
  BY DEF Init, IdleJob
<1>6. Shape
  BY <1>3, <1>4, <1>5 DEF Init, Shape, Reset, Truthful, Numbered, AllOrNone, Remembered, Replacing, Polled,
     NoRows, NoOrder
<1>7. Certain
  BY <1>4, <1>5, SMTT(30) DEF Init, Certain, OneOpen, Sure, Replacing, Alive, Newest, ListBehind,
     PollBehind, StaleIsSettled
<1> QED BY <1>2, <1>6, <1>7 DEF IInv

LEMMA LossIsRemembered == Next => lost \subseteq lost'
BY DEF Next, BrokerNext, Fill, Cancels, Expires, Submits, Post, Register, EmitAccepted,
   Replaces, StartReplace, CancelOld, TimesOut, GiveUp, Confirmed, Resubmit, Switch,
   EmitReplaced, EmitDead, StartCancel, CancelRequest, ReadFrame, Drop, Connect,
   ReadSnapshot, ApplySnapshot, PollRead, PollApply, FoldOldest, Crash, Boot, Unanswered, engine, core

LEMMA NextInv == IInv /\ [Next]_vars => IInv'
<1> SUFFICES ASSUME IInv, [Next]_vars PROVE IInv'
  OBVIOUS
<1>1. Typed
  BY DEF IInv
<1>2. CASE Next
  <2>1. Typed' /\ Shape'
    BY <1>1, <1>2, StepTyped, StepShape DEF IInv
  <2>2. ASSUME Sound' PROVE Certain'
    <3>1. Certain /\ Shape /\ "answer" \notin lost'
      BY <1>2, <2>2, LossIsRemembered DEF IInv, Sound
    <3>2. CASE Post \/ Resubmit
      BY <1>1, <1>2, <2>2, <3>1, <3>2, SubmitStep
    <3>3. CASE Register \/ Switch
      BY <1>1, <1>2, <3>1, <3>3, CurrentStep
    <3>4. CASE ReadFrame
      BY <1>1, <1>2, <3>1, <3>4, ReadFrameStep
    <3>5. CASE Connect \/ ReadSnapshot
      BY <1>1, <1>2, <3>1, <3>5, ConnectStep
    <3>6. CASE ApplySnapshot
      BY <1>1, <1>2, <3>1, <3>6, ApplySnapshotStep
    <3>7. CASE Crash
      BY <1>1, <1>2, <3>1, <3>7, RestartStep
    <3>8. CASE \/ BrokerNext \/ EmitAccepted \/ StartCancel \/ CancelRequest \/ Drop
               \/ PollRead \/ FoldOldest
               \/ Replaces /\ ~Resubmit /\ ~Switch
      BY <1>1, <1>2, <3>1, <3>8, QuietStep
    <3>9. CASE PollApply \/ Boot
      <4>1. PollApply => current \in {NoLeg, current'}
        BY <2>2 DEF PollApply, Sound
      <4> QED BY <1>1, <1>2, <3>1, <3>9, <4>1, RestoreStep
    <3> QED BY <1>2, <3>2, <3>3, <3>4, <3>5, <3>6, <3>7, <3>8, <3>9 DEF Next, Submits
  <2> QED BY <2>1, <2>2 DEF IInv
<1>3. CASE UNCHANGED vars
  <2> USE DEF vars, broker, stream, sync, memory, swap, engine, core, IInv
  <2>1. Typed'
    BY <1>1, <1>3 DEF Typed
  <2>2. Shape'
    BY <1>3 DEF Shape, Reset, Truthful, Numbered, AllOrNone, Remembered, Still, Blank, Queued, Known, Listed,
       Polled, OpenRow, Replacing
  <2>3. Certain' = Certain
    BY <1>3 DEF Certain, OneOpen, Sure, Replacing, Alive, NoCancelFrames, NoCancelFrame, Newest,
       ListBehind, PollBehind, Still, Blank, StaleIsSettled, Settled, Queued, Known, Listed,
       OpenRow, Open
  <2> QED BY <1>3, <2>1, <2>2, <2>3 DEF Sound
<1> QED BY <1>2, <1>3

\* One order never has two legs that can fill, as long as no answer to a
\* submit is lost and no poll that read the list before a switch puts the old
\* leg back after it: over every replace, timeout, reject, expiry, drop, failed
\* list, poll and restart, ReplaceOrder submits the next leg only when the last
\* one cannot fill any more.
THEOREM OneLegIsLive == Spec => []OneLegLive
<1>1. IInv => OneLegLive
  BY DEF IInv, Sound, Certain, OneOpen, OneLegLive
<1> QED BY <1>1, InitInv, NextInv, PTL DEF Spec

-----------------------------------------------------------------------------
(***************************************************************************)
(* What is counted of one order at TradeZero, for every size and any number *)
(* of replaces and failures: no share is reported that did not trade, none  *)
(* reported is taken back while the core runs, and the legs never fill more *)
(* than the size asked for.                                                 *)
(*                                                                         *)
(* Books ties what was read and told to what has filled.  Counted says why  *)
(* each fill is counted before the next leg is submitted: a leg is Loose    *)
(* while something is still to be heard of it, only the newest leg may be,  *)
(* what is to be heard is in a frame or in the list, and none is Loose once *)
(* the end of the old leg is sure.  Then the size of the next leg, computed *)
(* from the counters, is what the fills left, and Sized follows: the newest *)
(* leg at its full size and what the others filled stay within the size.    *)
(*                                                                         *)
(* The last part keeps to behaviours in which no answer, list or connection *)
(* is lost and no poll moves the adapter off the current leg; the process   *)
(* may die.  Then the end of an order is called when it has come            *)
(* (DoneIsDead), what the core believes may still fill covers what may      *)
(* (LeavesCover), and so does what it has yet to fold (MailCovers).         *)
(***************************************************************************)

\* the ways a leg changes: the broker moves an open one, or a submit lands
Fills(l, v) == /\ v.exec = legs[l].exec + 1
               /\ v.st = IF v.exec = legs[l].qty THEN "filled" ELSE legs[l].st
Ends(l, v) == /\ v.exec = legs[l].exec
              /\ v.st = "expired" \/ (v.st = "canceled" /\ legs[l].st = "pending")
Waits(l, v) == v.exec = legs[l].exec /\ v.st = "pending"
Moves(l, v) == Open(l) /\ v.qty = legs[l].qty /\ (Fills(l, v) \/ Ends(l, v) \/ Waits(l, v))
Starts(l, v) == /\ ~Known(l) /\ v.exec = 0 /\ v.st \in {"open", "rejected"}
                /\ \/ Post /\ l = 0 /\ v.qty = job.want
                   \/ Resubmit /\ l = job.leg /\ v.qty = job.qty
Changes(l, v) ==
  /\ legs' = [legs EXCEPT ![l] = v]
  /\ \/ Push(l, v) /\ (Moves(l, v) \/ Starts(l, v))
     \/ Moves(l, v) /\ Waits(l, v) /\ frames' \in {frames, <<>>}

\* a leg as the broker may keep it
Fits(v) == /\ v.exec <= v.qty
           /\ v.st \in {"open", "pending", "canceled"} => v.exec < v.qty
           /\ v.st \in {"none", "rejected"} => v.exec = 0
           /\ v.st # "none" => v.qty > 0
\* what is read of a leg did trade
ReadIsTraded ==
  /\ \A l \in Legs :
       /\ seen[l] <= legs[l].exec /\ snapshot[l].exec <= legs[l].exec
       /\ polled[l].exec <= legs[l].exec
       /\ Listed(l) => snapshot[l].qty = legs[l].qty
       /\ Polled(l) => polled[l].qty = legs[l].qty
  /\ \A f \in Queued : f.exec <= legs[f.leg].exec /\ f.qty = legs[f.leg].qty
\* what is told was read, by this process or by one before it
ToldIsRead ==
  /\ told.exec <= Executed(Booked)
  /\ \A e \in Mail : e.exec <= Executed(seen)
  /\ up /\ "list" \notin lost => told.exec <= Executed(seen)
\* what is submitted has a size
Asked == /\ job.at = "post" => job.want > 0
         /\ job.at = "resubmit" => job.qty > 0
Books == (\A l \in Legs : Fits(legs[l])) /\ ReadIsTraded /\ ToldIsRead /\ Asked

-----------------------------------------------------------------------------
(* Sums over the legs *)

\* What the legs have filled grows with what each has.
LEMMA ExecutedRises ==
  ASSUME NEW s \in [Legs -> Nat], NEW t \in [Legs -> Nat], \A l \in Legs : s[l] <= t[l]
  PROVE  Executed(s) <= Executed(t)
<1>1. \A l \in Legs : s[l] \in Int /\ t[l] \in Int /\ s[l] <= t[l]
  OBVIOUS
<1> QED BY <1>1, LegsAreFinite, SumRises DEF Executed

\* One counter counts once in it.
LEMMA ExecutedWith ==
  ASSUME NEW s \in [Legs -> Nat], NEW c \in Legs, NEW n \in Nat
  PROVE  Executed([s EXCEPT ![c] = n]) = Executed(s) - s[c] + n
<1> DEFINE t == [s EXCEPT ![c] = n]
<1>1. t[c] = n
  OBVIOUS
<1>2. \A l \in Legs : s[l] \in Int /\ t[l] \in Int
  OBVIOUS
<1>3. \A l \in Legs \ {c} : s[l] = t[l]
  OBVIOUS
<1> HIDE DEF t
<1>4. Executed(t) = Executed(s) - s[c] + t[c]
  BY <1>2, <1>3, LegsAreFinite, SumDiffers DEF Executed
<1> QED BY <1>1, <1>4 DEF t

-----------------------------------------------------------------------------
(* The steps *)

\* Every step leaves the broker's books, moves an open leg, or submits one.
LEMMA LegSteps ==
  ASSUME Typed, Shape, Next
  PROVE  \/ legs' = legs /\ (frames' \in {frames, <<>>} \/ ReadFrame)
         \/ \E l \in Legs, v \in Leg : Changes(l, v)
<1> DEFINE Some == \/ legs' = legs /\ (frames' \in {frames, <<>>} \/ ReadFrame)
                   \/ \E l \in Legs, v \in Leg : Changes(l, v)
<1> USE DEF broker, stream
<1>1. legs \in [Legs -> Leg]
  BY DEF Typed
<1>2. ASSUME NEW l \in Legs, Fill(l) \/ Cancels(l) \/ Expires(l) PROVE Some
  <2>1. legs[l] \in Leg
    BY <1>1
  <2>2. Open(l)
    BY <1>2 DEF Fill, Cancels, Expires, Open, OpenStates
  <2>3. CASE Fill(l)
    <3> DEFINE v == [legs[l] EXCEPT !.exec = @ + 1,
                                    !.st = IF legs[l].exec + 1 = legs[l].qty THEN "filled" ELSE @]
    <3>1. v \in Leg
      <4>1. legs[l].exec + 1 \in Nat /\ legs[l].st \in LegStates /\ "filled" \in LegStates
        BY <2>1 DEF Leg, LegStates
      <4> QED BY <2>1, <4>1 DEF Leg
    <3>2. /\ v.exec = legs[l].exec + 1 /\ v.qty = legs[l].qty
          /\ v.st = IF v.exec = legs[l].qty THEN "filled" ELSE legs[l].st
      BY <2>1 DEF Leg
    <3>3. Push(l, v)
      BY <2>3 DEF Fill
    <3> HIDE DEF v
    <3>4. legs' = [legs EXCEPT ![l] = v]
      BY <3>3 DEF Push
    <3>5. Moves(l, v)
      BY <2>2, <3>2 DEF Moves, Fills
    <3> QED BY <3>1, <3>3, <3>4, <3>5 DEF Changes
  <2>4. CASE Cancels(l)
    <3> DEFINE v == [legs[l] EXCEPT !.st = "canceled"]
    <3>1. v \in Leg /\ v.exec = legs[l].exec /\ v.qty = legs[l].qty /\ v.st = "canceled"
      BY <2>1 DEF Leg, LegStates
    <3>2. Push(l, v) /\ legs[l].st = "pending"
      BY <2>4 DEF Cancels
    <3> HIDE DEF v
    <3> QED BY <2>2, <3>1, <3>2 DEF Changes, Moves, Ends, Push
  <2>5. CASE Expires(l)
    <3> DEFINE v == [legs[l] EXCEPT !.st = "expired"]
    <3>1. v \in Leg /\ v.exec = legs[l].exec /\ v.qty = legs[l].qty /\ v.st = "expired"
      BY <2>1 DEF Leg, LegStates
    <3>2. Push(l, v)
      BY <2>5 DEF Expires
    <3> HIDE DEF v
    <3> QED BY <2>2, <3>1, <3>2 DEF Changes, Moves, Ends, Push
  <2> QED BY <1>2, <2>3, <2>4, <2>5
<1>3. ASSUME NEW l \in Maybe, Open(l), legs' = [legs EXCEPT ![l].st = "pending"],
             frames' \in {frames, <<>>}
      PROVE  Some
  <2>1. CASE l \notin Legs
    BY <1>1, <1>3, <2>1
  <2> SUFFICES ASSUME l \in Legs PROVE Some
    BY <2>1
  <2> DEFINE v == [legs[l] EXCEPT !.st = "pending"]
  <2>2. v \in Leg /\ v.exec = legs[l].exec /\ v.qty = legs[l].qty /\ v.st = "pending"
    BY <1>1, <2>1 DEF Leg, LegStates
  <2>3. legs' = [legs EXCEPT ![l] = v]
    BY <1>3
  <2> HIDE DEF v
  <2> QED BY <1>3, <2>1, <2>2, <2>3 DEF Changes, Moves, Waits
<1>4. ASSUME NEW l \in Maybe, CancelSucceeds(l) \/ CancelFails(l), frames' = frames PROVE Some
  BY <1>3, <1>4 DEF CancelSucceeds, CancelFails
<1>5. ASSUME NEW l \in Legs, NEW q \in Nat, ~Known(l),
             (Post /\ l = 0 /\ q = job.want) \/ (Resubmit /\ l = job.leg /\ q = job.qty),
             Lands(l, q) \/ Refused(l, q) \/ Unanswered(l, q)
      PROVE  Some
  <2>1. ASSUME NEW st \in {"open", "rejected"}, Push(l, [st |-> st, qty |-> q, exec |-> 0])
        PROVE  Some
    <3> DEFINE v == [st |-> st, qty |-> q, exec |-> 0]
    <3>1. v \in Leg /\ v.exec = 0 /\ v.qty = q /\ v.st = st
      BY DEF Leg, LegStates
    <3>2. Push(l, v)
      BY <2>1
    <3> HIDE DEF v
    <3> QED BY <1>5, <3>1, <3>2 DEF Changes, Starts, Push
  <2> QED BY <1>5, <2>1 DEF Lands, Refused, Unanswered
<1>6. job.leg \in Maybe /\ job.want \in Nat /\ job.qty \in Nat /\ canceling \in Maybe /\ 0 \in Legs
  BY TZAssumption DEF Typed, Job, Legs
<1>7. CASE Submits
  <2>1. CASE Post
    BY <1>5, <1>6, <2>1 DEF Post, Shape, Numbered
  <2> QED BY <1>7, <2>1 DEF Submits, Register, EmitAccepted
<1>8. CASE Replaces
  <2>1. CASE CancelOld
    BY <1>4, <1>6, <2>1 DEF CancelOld
  <2>2. CASE Resubmit
    <3>1. job.leg \in Legs /\ ~Known(job.leg)
      BY <2>2 DEF Resubmit, Shape, Numbered, Typed
    <3> QED BY <1>5, <1>6, <2>2, <3>1 DEF Resubmit
  <2> QED BY <1>8, <2>1, <2>2 DEF Replaces, StartReplace, TimesOut, GiveUp, Confirmed,
          Switch, EmitReplaced, EmitDead
<1>9. CASE CancelRequest
  BY <1>4, <1>6, <1>9 DEF CancelRequest
<1>10. CASE Crash
  <2>1. frames' = <<>> /\ \/ legs' = legs
                          \/ \E l \in {job.leg, canceling} :
                               Open(l) /\ legs' = [legs EXCEPT ![l].st = "pending"]
    BY <1>10 DEF Crash
  <2> QED BY <1>3, <1>6, <2>1
<1> QED BY <1>2, <1>7, <1>8, <1>9, <1>10 DEF Next, BrokerNext, StartCancel, ReadFrame,
         Drop, Connect, ReadSnapshot, ApplySnapshot, PollRead, PollApply, FoldOldest, Boot

\* A leg only fills, within its size, which it keeps.
LEMMA LegsGrow ==
  ASSUME Typed, Shape, Books, Next
  PROVE  /\ \A l \in Legs : Fits(legs'[l])
         /\ \A l \in Legs : legs[l].exec <= legs'[l].exec
         /\ \A l \in Legs : Known(l) => legs'[l].qty = legs[l].qty
<1>1. legs \in [Legs -> Leg] /\ \A l \in Legs : Fits(legs[l])
  BY DEF Typed, Books
<1>2. ASSUME NEW l \in Legs, NEW v \in Leg, Changes(l, v)
      PROVE  Fits(v) /\ legs[l].exec <= v.exec /\ (Known(l) => v.qty = legs[l].qty)
  <2>1. v.exec \in Nat /\ v.qty \in Nat /\ legs[l].exec \in Nat /\ legs[l].qty \in Nat
    BY <1>1 DEF Leg
  <2>2. CASE Moves(l, v)
    <3>1. legs[l].exec < legs[l].qty /\ legs[l].st \in {"open", "pending"} /\ v.qty = legs[l].qty
      BY <1>1, <2>2 DEF Fits, Moves, Open, OpenStates
    <3>2. CASE Fills(l, v)
      BY <2>1, <3>1, <3>2 DEF Fits, Fills
    <3>3. CASE Ends(l, v) \/ Waits(l, v)
      BY <2>1, <3>1, <3>3 DEF Fits, Ends, Waits
    <3> QED BY <2>2, <3>2, <3>3 DEF Moves
  <2>3. CASE Starts(l, v)
    <3>1. job.want \in Nat /\ job.qty \in Nat
      BY DEF Typed, Job
    <3>2. v.qty > 0 /\ v.exec = 0 /\ v.st \in {"open", "rejected"}
      BY <2>3, <3>1 DEF Starts, Books, Asked, Post, Resubmit
    <3>3. legs[l].exec = 0
      BY <1>1, <2>3 DEF Fits, Starts, Known
    <3> QED BY <2>1, <2>3, <3>2, <3>3 DEF Fits, Starts
  <2> QED BY <1>2, <2>2, <2>3 DEF Changes
<1>3. CASE legs' = legs
  <2>1. \A l \in Legs : legs[l].exec \in Nat
    BY <1>1 DEF Leg
  <2> QED BY <1>1, <1>3, <2>1
<1>4. ASSUME NEW l \in Legs, NEW v \in Leg, Changes(l, v)
      PROVE  \A k \in Legs : legs'[k] = IF k = l THEN v ELSE legs[k]
  BY <1>1, <1>4 DEF Changes
<1>5. \A k \in Legs : legs[k].exec \in Nat
  BY <1>1 DEF Leg
<1>6. ASSUME NEW l \in Legs, NEW v \in Leg, Changes(l, v), NEW k \in Legs
      PROVE  /\ Fits(legs'[k]) /\ legs[k].exec <= legs'[k].exec
             /\ Known(k) => legs'[k].qty = legs[k].qty
  <2>1. CASE k = l
    BY <1>2, <1>4, <1>6, <2>1
  <2>2. CASE k # l
    BY <1>1, <1>4, <1>5, <1>6, <2>2
  <2> QED BY <2>1, <2>2
<1> QED BY <1>3, <1>6, LegSteps

\* The counters are written by the reader and by a restart alone.
LEMMA SeenSteps ==
  ASSUME Next
  PROVE  \/ seen' = seen \/ ReadFrame \/ ApplySnapshot \/ Crash
         \/ (PollApply \/ Boot) /\ Restore(polled)
<1>1. CASE PollApply \/ Boot
  BY <1>1 DEF PollApply, Boot, memory
<1>2. CASE ~PollApply /\ ~Boot
  BY <1>2
  DEF Next, BrokerNext, Fill, Cancels, Expires, Submits, Post, Register, EmitAccepted,
      Replaces, StartReplace, CancelOld, TimesOut, GiveUp, Confirmed, Resubmit, Switch,
      EmitReplaced, EmitDead, StartCancel, CancelRequest, Drop, Connect, ReadSnapshot,
      PollRead, FoldOldest, memory
<1> QED BY <1>1, <1>2

-----------------------------------------------------------------------------
(* The events, and the core's fold of them *)

\* what may stand where an event does, and what says how much has filled
Events == Event \cup {NoEvent}
TellsFills(e) == e.kind \in {"filled", "listed"}
\* an event tells what was read so far, or nothing of it
Says(e, n) == e \in Events /\ e.exec = IF TellsFills(e) THEN n ELSE 0

LEMMA EventsTyped ==
  ASSUME NEW st \in WorkingStates \cup DeadStates, NEW cum \in Nat, NEW left \in Nat,
         NEW o \in Told
  PROVE  /\ OrderAccepted \in Event /\ OrderAccepted.kind = "accepted"
         /\ OrderRejected \in Event /\ OrderRejected.kind = "rejected"
         /\ OrderEnded(st) \in Event /\ OrderEnded(st).kind = "ended"
         /\ OrderEnded(st).status = st
         /\ OrderReplaced(cum) \in Event /\ OrderReplaced(cum).kind = "replaced"
         /\ OrderReplaced(cum).qty = cum
         /\ OrderFilled(cum, left) \in Event /\ OrderFilled(cum, left).kind = "filled"
         /\ OrderFilled(cum, left).exec = cum /\ OrderFilled(cum, left).leaves = left
         /\ OrderListed(o) \in Event /\ OrderListed(o).kind = "listed"
         /\ OrderListed(o).exec = o.exec /\ OrderListed(o).leaves = o.leaves
         /\ OrderListed(o).status = o.status
         /\ OrderAccepted.exec = 0 /\ OrderRejected.exec = 0 /\ OrderEnded(st).exec = 0
         /\ OrderReplaced(cum).exec = 0
<1>1. "SUBMITTED" \in WorkingStates \cup DeadStates
  BY DEF WorkingStates
<1>2. NoEvent = [kind |-> "none", status |-> "SUBMITTED", qty |-> 0, exec |-> 0, leaves |-> 0]
  BY DEF NoEvent
<1>3. OrderAccepted \in Event /\ OrderAccepted.kind = "accepted" /\ OrderAccepted.exec = 0
  BY <1>1, <1>2 DEF OrderAccepted, Event
<1>4. OrderRejected \in Event /\ OrderRejected.kind = "rejected" /\ OrderRejected.exec = 0
  BY <1>1, <1>2 DEF OrderRejected, Event
<1>5. /\ OrderEnded(st) \in Event /\ OrderEnded(st).kind = "ended"
      /\ OrderEnded(st).status = st /\ OrderEnded(st).exec = 0
  BY <1>2 DEF OrderEnded, Event
<1>6. /\ OrderReplaced(cum) \in Event /\ OrderReplaced(cum).kind = "replaced"
      /\ OrderReplaced(cum).qty = cum /\ OrderReplaced(cum).exec = 0
  BY <1>1, <1>2 DEF OrderReplaced, Event
<1>7. /\ OrderFilled(cum, left) \in Event /\ OrderFilled(cum, left).kind = "filled"
      /\ OrderFilled(cum, left).exec = cum /\ OrderFilled(cum, left).leaves = left
  BY <1>1, <1>2 DEF OrderFilled, Event
<1>8. /\ OrderListed(o) \in Event /\ OrderListed(o).kind = "listed"
      /\ OrderListed(o).exec = o.exec /\ OrderListed(o).leaves = o.leaves
      /\ OrderListed(o).status = o.status
  BY DEF OrderListed, Event, Told
<1> QED BY <1>3, <1>4, <1>5, <1>6, <1>7, <1>8

LEMMA NoEventIsNone == NoEvent.kind = "none" /\ NoEvent \notin Event
BY DEF NoEvent, Event

LEMMA SomeOrder == \E o \in Told : TRUE
<1>1. [status |-> "SUBMITTED", qty |-> 0, exec |-> 0, leaves |-> 0] \in Told
  BY DEF Told, WorkingStates
<1> QED BY <1>1

\* The events that say nothing of what has filled.
LEMMA PlainEvents ==
  ASSUME NEW e \in {OrderAccepted, OrderRejected, OrderEnded("EXPIRED"), OrderEnded("CANCELED"),
                    NoEvent}
  PROVE  e \in Events /\ ~TellsFills(e) /\ e.exec = 0
<1>1. "EXPIRED" \in DeadStates /\ "CANCELED" \in DeadStates /\ 0 \in Nat
  BY DEF DeadStates
<1>2. NoEvent \in Events /\ ~TellsFills(NoEvent) /\ NoEvent.exec = 0
  BY DEF NoEvent, Events, TellsFills
<1>3. /\ \A st \in {"EXPIRED", "CANCELED"} :
           OrderEnded(st) \in Event /\ OrderEnded(st).kind = "ended" /\ OrderEnded(st).exec = 0
      /\ OrderAccepted \in Event /\ OrderAccepted.kind = "accepted" /\ OrderAccepted.exec = 0
      /\ OrderRejected \in Event /\ OrderRejected.kind = "rejected" /\ OrderRejected.exec = 0
  BY <1>1, SomeOrder, EventsTyped
<1> QED BY <1>2, <1>3 DEF Events, TellsFills

\* The fold of an event that counts takes over what it says has filled; the
\* others leave that alone.
LEMMA FoldTyped ==
  ASSUME NEW o \in Told, NEW e \in Events
  PROVE  Fold(o, e) \in Told /\ Fold(o, e).exec = IF TellsFills(e) THEN e.exec ELSE o.exec
<1>1. /\ o.exec \in Nat /\ o.qty \in Nat /\ o.leaves \in Nat
      /\ o.status \in WorkingStates \cup DeadStates
      /\ "ACCEPTED" \in WorkingStates /\ "REJECTED" \in DeadStates
      /\ "FILLED" \in DeadStates /\ "PARTIALLY_FILLED" \in WorkingStates
  BY DEF Told, WorkingStates, DeadStates
<1>2. \A x \in WorkingStates \cup DeadStates :
        [o EXCEPT !.status = x] \in Told /\ [o EXCEPT !.status = x].exec = o.exec
  BY DEF Told
<1>3. CASE e.kind = "none"
  BY <1>3 DEF Fold, TellsFills
<1>4. CASE e.kind # "none"
  <2>1. /\ e \in Event /\ e.status \in WorkingStates \cup DeadStates
        /\ e.qty \in Nat /\ e.exec \in Nat /\ e.leaves \in Nat
    BY <1>4, NoEventIsNone DEF Events, Event
  <2>2. CASE e.kind = "accepted"
    BY <1>1, <1>2, <2>2 DEF Fold, TellsFills, Accepted
  <2>3. CASE e.kind = "rejected"
    BY <1>1, <1>2, <2>3 DEF Fold, TellsFills, Rejected
  <2>4. CASE e.kind = "ended"
    <3>1. Fold(o, e) \in {o, [o EXCEPT !.status = e.status]}
      BY <2>4 DEF Fold, Ended
    <3> QED BY <1>2, <2>1, <2>4, <3>1 DEF TellsFills
  <2>5. CASE e.kind = "replaced"
    <3> DEFINE m == Minus(e.qty, o.exec)
    <3>1. m \in Nat
      BY <1>1, <2>1, MinusNat
    <3>2. Fold(o, e) \in {o, [o EXCEPT !.status = "ACCEPTED", !.qty = e.qty, !.leaves = m]}
      BY <2>5 DEF Fold, Replaced
    <3> HIDE DEF m
    <3>3. /\ [o EXCEPT !.status = "ACCEPTED", !.qty = e.qty, !.leaves = m] \in Told
          /\ [o EXCEPT !.status = "ACCEPTED", !.qty = e.qty, !.leaves = m].exec = o.exec
      BY <1>1, <2>1, <3>1 DEF Told
    <3> QED BY <2>5, <3>2, <3>3 DEF TellsFills
  <2>6. CASE e.kind = "filled"
    <3>1. Fold(o, e) = Filled(o, e.exec, e.leaves)
      BY <2>6 DEF Fold
    <3>2. Filled(o, e.exec, e.leaves) \in Told /\ Filled(o, e.exec, e.leaves).exec = e.exec
      BY <1>1, <2>1 DEF Filled, Told
    <3> QED BY <2>6, <3>1, <3>2 DEF TellsFills
  <2>7. CASE e.kind = "listed"
    BY <2>1, <2>7 DEF Fold, TellsFills, Told
  <2> QED BY <2>1, <2>2, <2>3, <2>4, <2>5, <2>6, <2>7 DEF Event
<1> QED BY <1>3, <1>4

Carried(q) == {q[i] : i \in 1 .. Len(q)}

\* An event that has to wait joins the others.
LEMMA Queues ==
  ASSUME NEW q \in Seq(Event), NEW e \in Events
  PROVE  /\ Queue(q, e) \in Seq(Event)
         /\ Carried(Queue(q, e)) \subseteq Carried(q) \cup ({e} \ {NoEvent})
<1>1. CASE e.kind = "none"
  BY <1>1 DEF Queue
<1>2. CASE e.kind # "none"
  <2>1. e \in Event /\ Queue(q, e) = Append(q, e) /\ e # NoEvent
    BY <1>2, NoEventIsNone DEF Events, Queue
  <2>2. Append(q, e) \in Seq(Event) /\ Len(Append(q, e)) = Len(q) + 1 /\ Len(q) \in Nat
    BY <2>1
  <2>3. \A i \in 1 .. Len(q) + 1 : Append(q, e)[i] = IF i = Len(q) + 1 THEN e ELSE q[i]
    BY <2>1
  <2> SUFFICES ASSUME NEW i \in 1 .. Len(q) + 1
               PROVE  Append(q, e)[i] \in {q[j] : j \in 1 .. Len(q)} \cup {e}
    BY <2>1, <2>2 DEF Carried
  <2>4. i = Len(q) + 1 \/ i \in 1 .. Len(q)
    BY <2>2
  <2> QED BY <2>3, <2>4
<1> QED BY <1>1, <1>2

\* An event is folded at once, or waits for its turn.
LEMMA EmitTyped ==
  ASSUME told \in Told, inbox \in Seq(Event), NEW e \in Events, NEW d \in Events, EmitBoth(e, d)
  PROVE  /\ told' \in Told /\ inbox' \in Seq(Event)
         /\ Mail' \subseteq Mail \cup ({e, d} \ {NoEvent})
         /\ told'.exec \in {told.exec} \cup {x.exec : x \in {y \in {e, d} : TellsFills(y)}}
         /\ up /\ inbox = <<>> => told' = Fold(Fold(told, e), d) /\ inbox' = <<>>
         /\ ~(up /\ inbox = <<>>) => told' = told
<1>1. CASE up /\ inbox = <<>>
  <2>1. told' = Fold(Fold(told, e), d) /\ inbox' = inbox
    BY <1>1 DEF EmitBoth
  <2>2. Fold(told, e) \in Told /\ Fold(told, e).exec = IF TellsFills(e) THEN e.exec ELSE told.exec
    BY FoldTyped
  <2>3. /\ told' \in Told
        /\ told'.exec = IF TellsFills(d) THEN d.exec ELSE Fold(told, e).exec
    BY <2>1, <2>2, FoldTyped
  <2> QED BY <1>1, <2>1, <2>2, <2>3 DEF Mail
<1>2. CASE ~(up /\ inbox = <<>>)
  <2> DEFINE q == Queue(inbox, e)
  <2>1. told' = told /\ inbox' = Queue(q, d)
    BY <1>2 DEF EmitBoth
  <2>2. q \in Seq(Event) /\ Carried(q) \subseteq Mail \cup ({e} \ {NoEvent})
    <3>1. Mail = Carried(inbox)
      BY DEF Mail, Carried
    <3> QED BY <3>1, Queues
  <2> HIDE DEF q
  <2> DEFINE r == Queue(q, d)
  <2>3. r \in Seq(Event) /\ Carried(r) \subseteq Carried(q) \cup ({d} \ {NoEvent})
    BY <2>2, Queues
  <2>4. inbox' = r
    BY <2>1
  <2> HIDE DEF r
  <2>5. Mail' = Carried(r)
    BY <2>4 DEF Mail, Carried
  <2> QED BY <1>2, <2>1, <2>2, <2>3, <2>4, <2>5
<1> QED BY <1>1, <1>2

\* The oldest of those that wait is folded.
LEMMA OldestIsMail ==
  ASSUME inbox \in Seq(Event), FoldOldest
  PROVE  /\ Head(inbox) \in Mail /\ Head(inbox) \in Event
         /\ inbox' \in Seq(Event) /\ Mail' \subseteq Mail
         /\ told' = Fold(told, Head(inbox))
<1>1. inbox # <<>> /\ inbox' = Tail(inbox) /\ told' = Fold(told, Head(inbox))
  BY DEF FoldOldest
<1>2. Len(inbox) \in Nat /\ Len(inbox) >= 1 /\ Head(inbox) = inbox[1]
  BY <1>1
<1>3. Len(inbox') = Len(inbox) - 1 /\ inbox' \in Seq(Event)
  BY <1>1
<1>4. \A i \in 1 .. Len(inbox') : inbox'[i] = inbox[i + 1] /\ i + 1 \in 1 .. Len(inbox)
  BY <1>1, <1>2, <1>3
<1> QED BY <1>1, <1>2, <1>3, <1>4 DEF Mail

-----------------------------------------------------------------------------
(* What is read, and told *)

\* what a frame counts, and the two events it becomes
FrameSeen(f) == IF NewFill(f) THEN [seen EXCEPT ![f.leg] = f.exec] ELSE seen
FrameLeft(f) == Minus(FillTotal(FrameSeen(f), f.leg, f.qty), Executed(FrameSeen(f)))
FrameFill(f) == IF NewFill(f) THEN OrderFilled(Executed(FrameSeen(f)), FrameLeft(f)) ELSE NoEvent
FrameNews(f) == CASE f.status = "ACCEPTED" -> OrderAccepted
                  [] f.status = "CANCELED" -> OnCanceled
                  [] f.status = "REJECTED" -> OrderRejected
                  [] f.status = "EXPIRED"  -> OrderEnded("EXPIRED")
                  [] OTHER -> NoEvent

\* A frame counts a fill once (normalizeOrder), ...
LEMMA FrameIsRead ==
  ASSUME Typed, Shape, Books, ReadFrame
  PROVE  /\ seen' \in [Legs -> Nat] /\ seen' = FrameSeen(Head(frames))
         /\ \A l \in Legs : seen[l] <= seen'[l] /\ seen'[l] <= legs[l].exec
         /\ FrameLeft(Head(frames)) \in Nat /\ Executed(seen') \in Nat
         /\ EmitBoth(FrameFill(Head(frames)), FrameNews(Head(frames)))
         /\ Says(FrameFill(Head(frames)), Executed(seen'))
         /\ \A n : Says(FrameNews(Head(frames)), n)
<1> DEFINE f == Head(frames)
           s == FrameSeen(f)
           cum == Executed(s)
           left == FrameLeft(f)
<1>1. f \in Queued /\ f \in Frames
  BY QueueChanges
<1>2. f.leg \in Legs /\ f.exec \in Nat /\ f.qty \in Nat /\ f.exec <= legs[f.leg].exec
  BY <1>1 DEF Frames, Books, ReadIsTraded
<1>3. seen' = s
  BY DEF ReadFrame, FrameSeen
<1>4. EmitBoth(FrameFill(f), FrameNews(f))
  BY DEF ReadFrame, FrameFill, FrameNews, FrameSeen, FrameLeft
<1>5. NewFill(f) => f.exec > seen[f.leg]
  BY DEF NewFill
<1> HIDE DEF f
<1>6. seen \in [Legs -> Nat] /\ \A l \in Legs : seen[l] <= legs[l].exec /\ legs[l].exec \in Nat
  BY DEF Typed, Leg, Books, ReadIsTraded
<1>7. s \in [Legs -> Nat] /\ \A l \in Legs : seen[l] <= s[l] /\ s[l] <= legs[l].exec
  BY <1>2, <1>5, <1>6 DEF FrameSeen
<1> HIDE DEF s
<1>8. cum \in Nat
  BY <1>7, ExecutedNat
<1>9. left \in Nat
  <2> DEFINE total == FillTotal(s, f.leg, f.qty)
  <2>1. left = Minus(total, cum)
    BY DEF FrameLeft, s
  <2>2. CASE reqQty > 0
    BY <1>8, <2>1, <2>2, MinusNat DEF FillTotal, Typed
  <2>3. CASE ~(reqQty > 0)
    <3>1. s[f.leg] \in Nat /\ Executed(s) = cum
      BY <1>2, <1>7
    <3>2. s[f.leg] <= cum
      BY <1>2, <1>7, LegsAreFinite, SumHolds DEF Executed
    <3>3. total = cum - s[f.leg] + f.qty
      BY <2>3 DEF FillTotal
    <3> HIDE DEF cum, total
    <3>4. cum - s[f.leg] + f.qty \in Nat
      BY <1>2, <1>8, <3>1, <3>2
    <3> QED BY <1>8, <2>1, <3>3, <3>4, MinusNat
  <2> QED BY <2>2, <2>3
<1> HIDE DEF cum, left
<1>10. Says(FrameFill(f), cum)
  <2>1. CASE NewFill(f)
    <3>1. FrameFill(f) = OrderFilled(cum, left)
      BY <2>1 DEF FrameFill, cum, left, s
    <3>2. PICK o \in Told : TRUE
      BY SomeOrder
    <3>3. "FILLED" \in WorkingStates \cup DeadStates
      BY DEF DeadStates
    <3>4. /\ OrderFilled(cum, left) \in Event /\ OrderFilled(cum, left).exec = cum
          /\ OrderFilled(cum, left).kind = "filled"
      BY <1>8, <1>9, <3>2, <3>3, EventsTyped
    <3> QED BY <3>1, <3>4 DEF Events, Says, TellsFills
  <2>2. CASE ~NewFill(f)
    <3>1. FrameFill(f) = NoEvent
      BY <2>2 DEF FrameFill
    <3> QED BY <3>1 DEF Events, NoEvent, TellsFills, Says
  <2> QED BY <2>1, <2>2
<1>11. \A n : Says(FrameNews(f), n)
  <2>1. FrameNews(f) \in {OrderAccepted, OrderRejected, OrderEnded("EXPIRED"),
                          OrderEnded("CANCELED"), NoEvent}
    BY DEF FrameNews, OnCanceled
  <2> QED BY <2>1, PlainEvents DEF Says
<1>12. Executed(seen') = cum /\ FrameLeft(f) \in Nat /\ seen' = FrameSeen(f)
  BY <1>3, <1>9 DEF cum, left, s
<1> QED BY <1>3, <1>4, <1>7, <1>8, <1>10, <1>11, <1>12 DEF f

\* what a list counts, and the two events it becomes
Reread(s, rows, c) == [s EXCEPT ![c] = Larger(@, rows[c].exec)]
ListLeg == CurrentLeg(snapshot)
ListSeen == Restored(snapshot, ListLeg, TRUE)
ListQty == RestoredQty(snapshot, ListLeg, ListSeen)
ListTurn == /\ connected /\ lastKnown # "none"
            /\ \/ lastKnown # Status(snapshot[ListLeg])
               \/ snapshot[ListLeg].exec > ListSeen[ListLeg]
ListFill == IF ListTurn THEN MissedFill(ListSeen, ListQty, snapshot, ListLeg) ELSE NoEvent
ListNews ==
  CASE OpenRow(snapshot[ListLeg]) -> OrderListed(DomainOrder(ListSeen, ListQty, snapshot, ListLeg))
    [] ~OpenRow(snapshot[ListLeg]) /\ ListTurn -> MissedEnd(Status(snapshot[ListLeg]))
    [] OTHER -> NoEvent

LEMMA RowIsCounted ==
  ASSUME NEW rows \in [Legs -> Leg], NEW s \in [Legs -> Nat], NEW c \in Legs, NEW q \in Nat
  PROVE  /\ Reread(s, rows, c) \in [Legs -> Nat]
         /\ DomainOrder(s, q, rows, c) \in Told
         /\ DomainOrder(s, q, rows, c).exec = Executed(Reread(s, rows, c))
         /\ Says(MissedFill(s, q, rows, c), Executed(Reread(s, rows, c)))
         /\ Says(OrderListed(DomainOrder(s, q, rows, c)), Executed(Reread(s, rows, c)))
<1> DEFINE n == Larger(s[c], rows[c].exec)
           t == [s EXCEPT ![c] = n]
           x == rows[c].exec
           y == rows[c].qty
           e == Executed(s)
<1>1. rows[c] \in Leg /\ x \in Nat /\ y \in Nat /\ s[c] \in Nat
  BY DEF Leg
<1>2. n \in Nat /\ s[c] <= n /\ (x > s[c] => n = x)
  BY <1>1 DEF Larger
<1>3. e \in Nat
  BY ExecutedNat
<1>4. s[c] <= e
  BY LegsAreFinite, SumHolds DEF Executed
<1>5. Executed(t) = e - s[c] + n
  BY <1>2, ExecutedWith
<1>6. t \in [Legs -> Nat]
  BY <1>2
<1>7. DomainExec(s, rows, c) = e - s[c] + n
  <2>1. Larger(x, s[c]) = n
    BY <1>1 DEF Larger
  <2> QED BY <2>1 DEF DomainExec
<1>8. DomainOrder(s, q, rows, c) \in Told /\ DomainOrder(s, q, rows, c).exec = Executed(t)
  <2> DEFINE d == DomainExec(s, rows, c)
             total == IF q > 0 THEN q ELSE y + d - Larger(x, s[c])
  <2>1. Larger(x, s[c]) = n
    BY <1>1 DEF Larger
  <2>2. d \in Nat
    BY <1>1, <1>2, <1>3, <1>4, <1>7
  <2>3. total \in Nat
    <3> HIDE DEF d
    <3>1. d - n = e - s[c]
      BY <1>1, <1>2, <1>3, <1>7 DEF d
    <3>2. y + d - n \in Nat
      BY <1>1, <1>2, <1>3, <1>4, <2>2, <3>1
    <3> QED BY <2>1, <3>2
  <2>4. Status(rows[c]) \in WorkingStates \cup DeadStates
    BY <1>1, StatusOfLeg
  <2>5. Minus(total, d) \in Nat
    BY <2>2, <2>3, MinusNat
  <2>6. DomainOrder(s, q, rows, c)
          = [status |-> Status(rows[c]), qty |-> total, exec |-> d, leaves |-> Minus(total, d)]
    BY DEF DomainOrder
  <2> HIDE DEF d, total
  <2>7. DomainOrder(s, q, rows, c) \in Told
    BY <2>2, <2>3, <2>4, <2>5, <2>6 DEF Told
  <2>8. DomainOrder(s, q, rows, c).exec = d
    BY <2>6
  <2> QED BY <1>5, <1>7, <2>7, <2>8 DEF d
<1>9. Says(MissedFill(s, q, rows, c), Executed(t))
  <2>1. CASE x > s[c]
    <3> DEFINE cum == e + x - s[c]
               total == IF q > 0 THEN q ELSE cum - x + y
    <3>1. cum \in Nat /\ total \in Nat
      BY <1>1, <1>3, <1>4
    <3>2. cum = Executed(t)
      BY <1>1, <1>2, <1>3, <1>5, <2>1
    <3>3. Minus(total, cum) \in Nat
      BY <3>1, MinusNat
    <3>4. MissedFill(s, q, rows, c) = OrderFilled(cum, Minus(total, cum))
      BY <2>1 DEF MissedFill
    <3> HIDE DEF cum, total
    <3>5. PICK o \in Told : TRUE
      BY SomeOrder
    <3>6. "FILLED" \in WorkingStates \cup DeadStates
      BY DEF DeadStates
    <3>7. /\ OrderFilled(cum, Minus(total, cum)) \in Event
          /\ OrderFilled(cum, Minus(total, cum)).exec = cum
          /\ OrderFilled(cum, Minus(total, cum)).kind = "filled"
      BY <3>1, <3>3, <3>5, <3>6, EventsTyped
    <3> HIDE DEF t
    <3> QED BY <3>2, <3>4, <3>7 DEF Says, Events, TellsFills
  <2>2. CASE ~(x > s[c])
    <3>1. MissedFill(s, q, rows, c) = NoEvent
      BY <2>2 DEF MissedFill
    <3> QED BY <3>1 DEF Says, Events, TellsFills, NoEvent
  <2> QED BY <2>1, <2>2
<1>10. Reread(s, rows, c) = t
  BY DEF Reread
<1> HIDE DEF t
<1>11. Says(OrderListed(DomainOrder(s, q, rows, c)), Executed(t))
  <2>1. "FILLED" \in WorkingStates \cup DeadStates /\ 0 \in Nat
    BY DEF DeadStates
  <2> DEFINE d == OrderListed(DomainOrder(s, q, rows, c))
  <2>2. d \in Event /\ d.kind = "listed" /\ d.exec = Executed(t)
    BY <1>8, <2>1, EventsTyped
  <2> HIDE DEF d
  <2> QED BY <2>2 DEF Says, Events, TellsFills, d
<1> QED BY <1>6, <1>8, <1>9, <1>10, <1>11

LEMMA ListIsRead ==
  ASSUME Typed, Shape, Books, ApplySnapshot
  PROVE  /\ seen' \in [Legs -> Nat]
         /\ \A l \in Legs : seen[l] <= seen'[l] /\ seen'[l] <= legs[l].exec
         /\ ListLeg \in Maybe
         /\ ListLeg = NoLeg => seen' = ListSeen /\ UNCHANGED core
         /\ ListLeg # NoLeg => /\ seen' = Reread(ListSeen, snapshot, ListLeg)
                               /\ EmitBoth(ListFill, ListNews)
                               /\ Says(ListFill, Executed(seen'))
                               /\ Says(ListNews, Executed(seen'))
<1> DEFINE rows == snapshot
           c == ListLeg
           s == ListSeen
           q == ListQty
           t == Reread(s, rows, c)
<1>1. rows \in [Legs -> Leg] /\ c \in Maybe /\ (c # NoLeg => c \in Legs)
  BY CurrentLegOfRows DEF Typed, ListLeg
<1>2. \A l \in Legs : /\ rows[l].exec \in Nat /\ seen[l] \in Nat /\ legs[l].exec \in Nat
                      /\ seen[l] <= legs[l].exec /\ rows[l].exec <= legs[l].exec
  BY DEF Typed, Leg, Books, ReadIsTraded
<1>3. s \in [Legs -> Nat] /\ \A l \in Legs : s[l] >= seen[l]
  BY RestoredRises DEF Typed, ListSeen
<1>4. \A l \in Legs : s[l] <= legs[l].exec
  BY <1>2 DEF ListSeen, Restored, Larger
<1>5. q \in Nat
  BY <1>1, <1>3, RestoredQtyNat DEF Typed, ListQty
<1>6. c = NoLeg => seen' = s /\ UNCHANGED core
  BY DEF ApplySnapshot, ListLeg, ListSeen
<1>7. c # NoLeg => seen' = t /\ EmitBoth(ListFill, ListNews)
  BY DEF ApplySnapshot, Reread, ListLeg, ListSeen, ListQty, ListTurn, ListFill, ListNews
<1>8. CASE c = NoLeg
  BY <1>1, <1>2, <1>3, <1>4, <1>6, <1>8
<1>9. CASE c # NoLeg
  <2>1. c \in Legs
    BY <1>1, <1>9
  <2>2. /\ t \in [Legs -> Nat]
        /\ Says(MissedFill(s, q, rows, c), Executed(t))
        /\ Says(OrderListed(DomainOrder(s, q, rows, c)), Executed(t))
    BY <1>1, <1>3, <1>5, <2>1, RowIsCounted
  <2>3. \A n : Says(NoEvent, n) /\ Says(MissedEnd(Status(rows[c])), n)
    <3>1. MissedEnd(Status(rows[c])) \in {OrderAccepted, OrderRejected, OrderEnded("EXPIRED"),
                                          OrderEnded("CANCELED"), NoEvent}
      BY DEF MissedEnd, OnCanceled
    <3> QED BY <3>1, PlainEvents DEF Says
  <2>4. ListFill \in {MissedFill(s, q, rows, c), NoEvent}
    BY DEF ListFill
  <2>5. ListNews \in {OrderListed(DomainOrder(s, q, rows, c)), MissedEnd(Status(rows[c])), NoEvent}
    BY DEF ListNews
  <2>6. \A l \in Legs : seen[l] <= t[l] /\ t[l] <= legs[l].exec
    <3>1. s[c] \in Nat /\ s[c] <= Larger(s[c], rows[c].exec)
          /\ Larger(s[c], rows[c].exec) <= legs[c].exec /\ Larger(s[c], rows[c].exec) \in Nat
      BY <1>2, <1>3, <1>4, <2>1 DEF Larger
    <3>2. \A l \in Legs : t[l] = IF l = c THEN Larger(s[c], rows[c].exec) ELSE s[l]
      BY <1>3 DEF Reread
    <3> HIDE DEF t
    <3> QED BY <1>2, <1>3, <1>4, <2>1, <3>1, <3>2
  <2> HIDE DEF t
  <2>7. Says(ListFill, Executed(t)) /\ Says(ListNews, Executed(t))
    BY <2>2, <2>3, <2>4, <2>5
  <2>8. seen' = t /\ EmitBoth(ListFill, ListNews)
    BY <1>7, <1>9
  <2> QED BY <1>1, <1>9, <2>2, <2>6, <2>7, <2>8 DEF t
<1> QED BY <1>8, <1>9

\* A poll, and the snapshot of a boot, count what traded (restoreOrderStateLocked).
LEMMA RestoreIsRead ==
  ASSUME Typed, Shape, Books, Restore(polled)
  PROVE  /\ seen' \in [Legs -> Nat]
         /\ \A l \in Legs : seen[l] <= seen'[l] /\ seen'[l] <= legs[l].exec
         /\ CurrentLeg(polled) # NoLeg =>
              LET o == DomainOrder(seen', RestoredQty(polled, CurrentLeg(polled), seen'), polled,
                                   CurrentLeg(polled))
              IN  o \in Told /\ o.exec = Executed(seen')
<1> DEFINE rows == polled
           c == CurrentLeg(rows)
           s == Restored(rows, c, FALSE)
           q == RestoredQty(rows, c, s)
           t == Reread(s, rows, c)
<1>1. rows \in [Legs -> Leg] /\ c \in Maybe /\ (c # NoLeg => c \in Legs /\ c \in Present(rows))
  BY CurrentLegOfRows DEF Typed, Present
<1>2. \A l \in Legs : /\ rows[l].exec \in Nat /\ seen[l] \in Nat /\ legs[l].exec \in Nat
                      /\ seen[l] <= legs[l].exec /\ rows[l].exec <= legs[l].exec
  BY DEF Typed, Leg, Books, ReadIsTraded
<1>3. s \in [Legs -> Nat] /\ \A l \in Legs : s[l] >= seen[l]
  BY RestoredRises DEF Typed
<1>4. \A l \in Legs : s[l] <= legs[l].exec
  BY <1>2 DEF Restored, Larger
<1>5. seen' = s
  BY DEF Restore
<1>6. c # NoLeg => s[c] >= rows[c].exec
  BY <1>1, <1>2 DEF Restored, Larger, Present
<1> HIDE DEF s
<1>7. q \in Nat
  BY <1>1, <1>3, RestoredQtyNat DEF Typed
<1> HIDE DEF q
<1>8. ASSUME c # NoLeg
      PROVE  DomainOrder(s, q, rows, c) \in Told /\ DomainOrder(s, q, rows, c).exec = Executed(s)
  <2>1. c \in Legs
    BY <1>1, <1>8
  <2>2. t = s
    <3>1. Larger(s[c], rows[c].exec) = s[c]
      BY <1>2, <1>3, <1>6, <1>8, <2>1 DEF Larger
    <3> QED BY <1>3, <2>1, <3>1 DEF Reread
  <2> HIDE DEF t, c
  <2>3. DomainOrder(s, q, rows, c) \in Told /\ DomainOrder(s, q, rows, c).exec = Executed(t)
    BY <1>1, <1>3, <1>7, <2>1, RowIsCounted DEF t
  <2> QED BY <2>2, <2>3
<1> QED BY <1>2, <1>3, <1>4, <1>5, <1>8 DEF q

\* The order of the core changes as it boots, and by the events it folds.
LEMMA BootTells ==
  ASSUME Typed, Recorded, Shape, Books, Boot
  PROVE  /\ told' \in Told /\ inbox' = inbox /\ seen' \in [Legs -> Nat]
         /\ \A l \in Legs : seen[l] <= seen'[l] /\ seen'[l] <= legs[l].exec
         /\ told'.exec \in {told.exec, Executed(seen')}
         /\ "list" \notin lost' => told'.exec = Executed(seen') \/ \A l \in Legs : ~Known(l)
<1>1. told \in Told /\ seen \in [Legs -> Nat]
  BY DEF Recorded, Typed
<1>2. CASE Restore(polled) /\ Present(polled) = Present(legs)
            /\ told' = IF CurrentLeg(polled) = NoLeg THEN told
                       ELSE DomainOrder(seen', RestoredQty(polled, CurrentLeg(polled), seen'),
                                        polled, CurrentLeg(polled))
  <2>1. CASE CurrentLeg(polled) = NoLeg
    <3>1. Present(polled) = {} \/ (current # NoLeg /\ current \notin Present(polled))
      BY <2>1, CurrentLegOfRows DEF Typed
    <3>2. current # NoLeg => current \in Present(legs)
      BY DEF Boot, Shape, Remembered, Known, Present, Typed, Maybe
    <3>3. \A l \in Legs : ~Known(l)
      BY <1>2, <3>1, <3>2 DEF Present, Known
    <3> QED BY <1>1, <1>2, <2>1, <3>3, RestoreIsRead DEF Boot
  <2>2. CASE CurrentLeg(polled) # NoLeg
    BY <1>2, <2>2, RestoreIsRead DEF Boot
  <2> QED BY <2>1, <2>2
<1>3. CASE UNCHANGED <<memory, told>> /\ "list" \in lost'
  <2>1. seen' = seen /\ told' = told
    BY <1>3 DEF memory
  <2>2. \A l \in Legs : seen[l] <= legs[l].exec /\ seen[l] \in Nat
    BY DEF Typed, Books, ReadIsTraded
  <2> QED BY <1>1, <1>3, <2>1, <2>2 DEF Boot
<1>4. \/ Restore(polled) /\ Present(polled) = Present(legs)
           /\ told' = IF CurrentLeg(polled) = NoLeg THEN told
                      ELSE DomainOrder(seen', RestoredQty(polled, CurrentLeg(polled), seen'),
                                       polled, CurrentLeg(polled))
      \/ UNCHANGED <<memory, told>> /\ "list" \in lost'
  BY DEF Boot, Restore
<1> QED BY <1>2, <1>3, <1>4

LEMMA CoreSteps ==
  ASSUME Typed, Recorded, Shape, Books, Next
  PROVE  \/ UNCHANGED core
         \/ Crash /\ told' = told /\ inbox' = <<>>
         \/ FoldOldest
         \/ Boot
         \/ /\ \E e, d \in Events : /\ EmitBoth(e, d) /\ Says(e, Executed(seen'))
                                    /\ Says(d, Executed(seen'))
            /\ ~Crash /\ up' = up /\ lost \subseteq lost'
<1>1. CASE FoldOldest \/ Boot
  BY <1>1
<1>2. CASE Crash
  BY <1>2 DEF Crash
<1>3. CASE ReadFrame
  <2>1. Says(FrameFill(Head(frames)), Executed(seen')) /\ Says(FrameNews(Head(frames)), Executed(seen'))
        /\ EmitBoth(FrameFill(Head(frames)), FrameNews(Head(frames)))
    BY <1>3, FrameIsRead
  <2>2. up' = up /\ lost' = lost /\ ~Crash
    BY <1>3 DEF ReadFrame, Crash
  <2> QED BY <2>1, <2>2 DEF Says
<1>4. CASE ApplySnapshot
  <2>1. UNCHANGED core \/ (EmitBoth(ListFill, ListNews) /\ Says(ListFill, Executed(seen'))
                           /\ Says(ListNews, Executed(seen')))
    BY <1>4, ListIsRead
  <2>2. up' = up /\ lost' = lost /\ ~Crash
    BY <1>4 DEF ApplySnapshot, Crash
  <2> QED BY <2>1, <2>2 DEF Says
<1>5. ASSUME NEW e \in Events, Emit(e), Says(e, Executed(seen')), up' = up, up, lost \subseteq lost'
      PROVE  /\ \E x, d \in Events : /\ EmitBoth(x, d) /\ Says(x, Executed(seen'))
                                     /\ Says(d, Executed(seen'))
             /\ ~Crash /\ up' = up /\ lost \subseteq lost'
  <2>1. NoEvent \in Events /\ Says(NoEvent, Executed(seen'))
    BY PlainEvents DEF Says
  <2> QED BY <1>5, <2>1 DEF Emit, Crash
<1>6. CASE Post \/ EmitAccepted \/ EmitDead
  <2>1. UNCHANGED core \/ \E e \in {OrderAccepted, OrderRejected, OrderEnded("EXPIRED"),
                                    OrderEnded("CANCELED"), NoEvent} : Emit(e)
    BY <1>6 DEF Post, EmitAccepted, EmitDead
  <2>2. up' = up /\ up /\ lost \subseteq lost'
    BY <1>6 DEF Post, EmitAccepted, EmitDead, Unanswered
  <2>3. CASE UNCHANGED core
    BY <2>3
  <2>4. CASE \E e \in {OrderAccepted, OrderRejected, OrderEnded("EXPIRED"),
                       OrderEnded("CANCELED"), NoEvent} : Emit(e)
    <3>1. PICK e \in {OrderAccepted, OrderRejected, OrderEnded("EXPIRED"),
                      OrderEnded("CANCELED"), NoEvent} : Emit(e)
      BY <2>4
    <3>2. e \in Events /\ Says(e, Executed(seen'))
      BY PlainEvents DEF Says
    <3> QED BY <1>5, <2>2, <3>1, <3>2
  <2> QED BY <2>1, <2>3, <2>4
<1>7. CASE EmitReplaced
  <2>1. job.want \in Nat /\ "FILLED" \in WorkingStates \cup DeadStates /\ 0 \in Nat
    BY DEF Typed, Job, DeadStates
  <2> DEFINE e == OrderReplaced(job.want)
  <2>2. e \in Event /\ e.kind = "replaced" /\ e.exec = 0
    BY <2>1, SomeOrder, EventsTyped
  <2>3. Emit(e) /\ up' = up /\ up /\ lost' = lost
    BY <1>7 DEF EmitReplaced
  <2> HIDE DEF e
  <2>4. e \in Events /\ Says(e, Executed(seen'))
    BY <2>2 DEF Says, Events, TellsFills
  <2> QED BY <1>5, <2>3, <2>4
<1> QED BY <1>1, <1>2, <1>3, <1>4, <1>6, <1>7
    DEF Next, BrokerNext, Fill, Cancels, Expires, Submits, Register,
    Replaces, StartReplace, CancelOld, TimesOut, GiveUp, Confirmed, Resubmit, Switch,
    StartCancel, CancelRequest, Drop, Connect, ReadSnapshot, PollRead, PollApply, engine, core

LEMMA StepRecorded ==
  ASSUME Typed, Recorded, Shape, Books, Next
  PROVE  Recorded'
<1> USE DEF broker, memory, engine, core, stream, sync, swap
<1>1. told' \in Told /\ inbox' \in Seq(Event)
  <2>1. told \in Told /\ inbox \in Seq(Event)
    BY DEF Recorded
  <2>2. CASE FoldOldest
    <3>1. Head(inbox) \in Events /\ told' = Fold(told, Head(inbox)) /\ inbox' \in Seq(Event)
      BY <2>1, <2>2, OldestIsMail DEF Events
    <3> QED BY <2>1, <3>1, FoldTyped
  <2>3. CASE Boot
    BY <2>1, <2>3, BootTells
  <2>4. ASSUME NEW e \in Events, NEW d \in Events, EmitBoth(e, d)
        PROVE  told' \in Told /\ inbox' \in Seq(Event)
    BY <2>1, <2>4, EmitTyped
  <2>5. <<>> \in Seq(Event)
    OBVIOUS
  <2> QED BY <2>1, <2>2, <2>3, <2>4, <2>5, CoreSteps
<1>2. lastKnown' \in WorkingStates \cup DeadStates \cup {"none"} /\ connected' \in BOOLEAN
  <2>1. \/ UNCHANGED <<lastKnown, connected>> \/ Crash \/ ApplySnapshot
    BY DEF Next, BrokerNext, Fill, Cancels, Expires, Submits, Post, Register, EmitAccepted,
       Replaces, StartReplace, CancelOld, TimesOut, GiveUp, Confirmed, Resubmit, Switch,
       EmitReplaced, EmitDead, StartCancel, CancelRequest, ReadFrame, Drop, Connect,
       ReadSnapshot, Boot, PollRead, PollApply, FoldOldest, Restore
  <2>2. CASE ApplySnapshot
    <3> DEFINE c == CurrentLeg(snapshot)
    <3>1. connected' = TRUE /\ (lastKnown' = lastKnown \/ (c # NoLeg /\ lastKnown' = Status(snapshot[c])))
      BY <2>2 DEF ApplySnapshot
    <3>2. c # NoLeg => snapshot[c] \in Leg
      BY CurrentLegOfRows DEF Typed
    <3> HIDE DEF c
    <3> QED BY <3>1, <3>2, StatusOfLeg DEF Recorded
  <2> QED BY <2>1, <2>2 DEF Crash, Recorded
<1>3. lost' \subseteq Losses
  <2>1. lost' \subseteq lost \cup {"push", "answer", "list", "leg"}
    BY DEF Next, BrokerNext, Fill, Cancels, Expires, Submits, Post, Register, EmitAccepted,
       Replaces, StartReplace, CancelOld, TimesOut, GiveUp, Confirmed, Resubmit, Switch,
       EmitReplaced, EmitDead, StartCancel, CancelRequest, ReadFrame, Drop, Connect,
       ReadSnapshot, ApplySnapshot, Crash, Boot, Unanswered, PollRead, PollApply, FoldOldest
  <2> QED BY <2>1 DEF Recorded, Losses
<1>4. upsets' \in 0 .. MaxUpsets
  <2>1. upsets' = upsets \/ \E k : Upset(k)
    BY DEF Next, BrokerNext, Fill, Cancels, Expires, Submits, Post, Register, EmitAccepted,
       Replaces, StartReplace, CancelOld, TimesOut, GiveUp, Confirmed, Resubmit, Switch,
       EmitReplaced, EmitDead, StartCancel, CancelRequest, ReadFrame, Drop, Connect,
       ReadSnapshot, ApplySnapshot, Crash, Boot, Unanswered, Refused, CancelSucceeds, CancelFails,
       PollRead, PollApply, FoldOldest
  <2> QED BY <2>1, TZAssumption DEF Upset, Recorded
<1> QED BY <1>1, <1>2, <1>3, <1>4 DEF Recorded

-----------------------------------------------------------------------------
(* Nothing is counted that did not trade *)

\* A step never lowers a counter of a running process, and no counter passes
\* what its leg traded.
LEMMA CountersHold ==
  ASSUME Typed, Recorded, Shape, Books, Next
  PROVE  /\ \A l \in Legs : seen'[l] <= legs'[l].exec
         /\ ~Crash => \A l \in Legs : seen[l] <= seen'[l]
<1> USE DEF memory, broker
<1>1. \A l \in Legs : /\ seen[l] \in Nat /\ legs[l].exec \in Nat /\ seen[l] <= legs[l].exec
  BY DEF Typed, Leg, Books, ReadIsTraded
<1>2. Typed'
  BY StepTyped
<1>3. \A l \in Legs : /\ legs'[l].exec \in Nat /\ seen'[l] \in Nat /\ legs[l].exec <= legs'[l].exec
  BY <1>2, LegsGrow DEF Typed, Leg
<1>4. CASE seen' = seen
  BY <1>1, <1>3, <1>4
<1>5. CASE ReadFrame \/ ApplySnapshot \/ Restore(polled)
  <2>1. \A l \in Legs : seen[l] <= seen'[l] /\ seen'[l] <= legs[l].exec
    BY <1>5, FrameIsRead, ListIsRead, RestoreIsRead
  <2> QED BY <1>1, <1>3, <2>1
<1>6. CASE Crash
  BY <1>3, <1>6 DEF Crash
<1> QED BY <1>4, <1>5, <1>6, SeenSteps

LEMMA StepReadIsTraded ==
  ASSUME Typed, Recorded, Shape, Books, Next
  PROVE  ReadIsTraded'
<1>1. Typed'
  BY StepTyped
<1>2. \A l \in Legs : /\ legs[l].exec \in Nat /\ legs'[l].exec \in Nat
                      /\ legs[l].exec <= legs'[l].exec
                      /\ Known(l) => legs'[l].qty = legs[l].qty
                      /\ snapshot[l].exec \in Nat /\ snapshot[l].exec <= legs[l].exec
                      /\ Listed(l) => Known(l) /\ snapshot[l].qty = legs[l].qty
                      /\ polled[l].exec \in Nat /\ polled[l].exec <= legs[l].exec
                      /\ Polled(l) => Known(l) /\ polled[l].qty = legs[l].qty
  BY <1>1, LegsGrow DEF Typed, Leg, Books, ReadIsTraded, Shape, Truthful
<1>3. \A l \in Legs : seen'[l] <= legs'[l].exec
  BY CountersHold
<1>4. \A l \in Legs : snapshot'[l].exec <= legs'[l].exec /\ (Listed(l)' => snapshot'[l].qty = legs'[l].qty)
  <2>1. CASE snapshot' = snapshot
    BY <1>2, <2>1 DEF Listed
  <2>2. CASE snapshot' = NoRows
    BY <1>2, <2>2 DEF Listed, NoRows, NoOrder
  <2>3. CASE snapshot' = legs /\ legs' = legs
    BY <1>2, <2>3
  <2> QED BY <2>1, <2>2, <2>3, ListSteps
<1>7. \A l \in Legs : polled'[l].exec <= legs'[l].exec /\ (Polled(l)' => polled'[l].qty = legs'[l].qty)
  <2>1. CASE polled' = polled
    BY <1>2, <2>1 DEF Polled
  <2>2. CASE polled' = NoRows
    BY <1>2, <2>2 DEF Polled, NoRows, NoOrder
  <2>3. CASE polled' = legs /\ legs' = legs
    BY <1>2, <2>3
  <2> QED BY <2>1, <2>2, <2>3, PollSteps
<1>5. ASSUME NEW f \in Queued PROVE f.exec <= legs'[f.leg].exec /\ f.qty = legs'[f.leg].qty
  <2>1. f \in Frames
    BY QueueChanges
  <2>2. f.leg \in Legs /\ Known(f.leg) /\ f.exec <= legs[f.leg].exec /\ f.qty = legs[f.leg].qty /\ f.exec \in Nat
    BY <2>1 DEF Frames, Shape, Truthful, Books, ReadIsTraded
  <2> QED BY <1>2, <2>2
<1>6. ASSUME NEW f \in Queued' PROVE f.exec <= legs'[f.leg].exec /\ f.qty = legs'[f.leg].qty
  <2>1. CASE f \in Queued
    BY <1>5, <2>1
  <2>2. CASE f \notin Queued
    <3>1. ~ReadFrame /\ frames' # frames /\ frames' # <<>>
      BY <1>6, <2>2, QueueChanges
    <3>2. PICK l \in Legs, v \in Leg : Changes(l, v)
      BY <3>1, LegSteps
    <3>3. Push(l, v) /\ legs'[l] = v
      BY <3>1, <3>2 DEF Changes, Typed
    <3>4. f = Frame(l, v)
      BY <1>6, <2>2, <3>3, QueueChanges
    <3>5. f.leg = l /\ f.exec = v.exec /\ f.qty = v.qty
      BY <3>4 DEF Frame
    <3> QED BY <3>3, <3>5 DEF Leg
  <2> QED BY <2>1, <2>2
<1> QED BY <1>3, <1>4, <1>6, <1>7 DEF ReadIsTraded

LEMMA StepToldIsRead ==
  ASSUME Typed, Recorded, Shape, Books, Next
  PROVE  /\ ToldIsRead'
         /\ up /\ up' /\ inbox = <<>> /\ "list" \notin lost => told'.exec >= told.exec
<1> USE DEF core
<1>1. Typed' /\ Recorded'
  BY StepTyped, StepRecorded
<1>2. /\ told.exec \in Nat /\ told'.exec \in Nat /\ told \in Told /\ inbox \in Seq(Event)
      /\ Executed(seen) \in Nat /\ Executed(seen') \in Nat
  BY <1>1, ExecutedNat DEF Recorded, Told, Typed
<1>3. Booked \in [Legs -> Nat] /\ Booked' \in [Legs -> Nat]
  BY <1>1 DEF Booked, Typed, Leg
<1>4. Executed(Booked) \in Nat /\ Executed(Booked') \in Nat
  BY <1>3, ExecutedNat
<1>5. Executed(Booked) <= Executed(Booked')
  <2>1. \A l \in Legs : Booked[l] <= Booked'[l]
    BY LegsGrow DEF Booked
  <2> QED BY <1>3, <2>1, ExecutedRises
<1>6. Executed(seen') <= Executed(Booked')
  <2>1. \A l \in Legs : seen'[l] <= Booked'[l]
    BY CountersHold DEF Booked
  <2> QED BY <1>1, <1>3, <2>1, ExecutedRises DEF Typed
<1>7. ~Crash => Executed(seen) <= Executed(seen')
  BY <1>1, CountersHold, ExecutedRises DEF Typed
<1>8. /\ told.exec <= Executed(Booked) /\ (up /\ "list" \notin lost => told.exec <= Executed(seen))
      /\ \A e \in Mail : e.exec <= Executed(seen)
  BY DEF Books, ToldIsRead
<1>9. \A e \in Events : e.exec \in Nat
  BY DEF Events, Event, NoEvent
<1>10. CASE Crash
  <2>1. ~up' /\ told' = told /\ Mail' = {}
    BY <1>10 DEF Crash, Mail
  <2> QED BY <1>2, <1>4, <1>5, <1>8, <2>1 DEF ToldIsRead
<1>11. ASSUME ~Crash, told'.exec \in {told.exec, Executed(seen')}, Mail' \subseteq Mail,
              up' = up, lost \subseteq lost'
       PROVE  /\ ToldIsRead'
              /\ up /\ up' /\ inbox = <<>> /\ "list" \notin lost => told'.exec >= told.exec
  <2>1. \A e \in Mail : e.exec \in Nat /\ e.exec <= Executed(seen')
    <3>1. \A i \in 1 .. Len(inbox) : inbox[i] \in Event
      BY <1>2
    <3>2. \A e \in Mail : e \in Event
      BY <3>1 DEF Mail
    <3> QED BY <1>2, <1>7, <1>8, <1>9, <1>11, <3>2 DEF Events
  <2> QED BY <1>2, <1>4, <1>5, <1>6, <1>7, <1>8, <1>11, <2>1 DEF ToldIsRead
<1>12. CASE FoldOldest
  <2> DEFINE h == Head(inbox)
  <2>1. /\ h \in Mail /\ h \in Event /\ Mail' \subseteq Mail /\ told' = Fold(told, h)
        /\ inbox # <<>> /\ ~Crash /\ up' = up /\ lost' = lost
    BY <1>2, <1>12, OldestIsMail DEF FoldOldest, Crash
  <2> HIDE DEF h
  <2>2. h.exec \in Nat /\ h.exec <= Executed(seen) /\ told'.exec \in {told.exec, h.exec}
    BY <1>2, <1>8, <1>9, <2>1, FoldTyped DEF Events
  <2>3. \A e \in Mail' : e.exec <= Executed(seen')
    <3>1. \A i \in 1 .. Len(inbox) : inbox[i] \in Event
      BY <1>2
    <3>2. \A e \in Mail : e \in Event
      BY <3>1 DEF Mail
    <3> QED BY <1>2, <1>7, <1>8, <1>9, <2>1, <3>2 DEF Events
  <2> QED BY <1>2, <1>4, <1>5, <1>6, <1>7, <1>8, <2>1, <2>2, <2>3 DEF ToldIsRead
<1>13. CASE Boot
  <2>1. /\ inbox' = inbox /\ told'.exec \in {told.exec, Executed(seen')}
        /\ "list" \notin lost' => told'.exec = Executed(seen') \/ \A l \in Legs : ~Known(l)
    BY <1>13, BootTells
  <2>2. ~up /\ ~Crash /\ Mail' = Mail
    BY <1>13, <2>1 DEF Boot, Crash, Mail
  <2>3. (\A l \in Legs : ~Known(l)) => Executed(Booked) <= Executed(seen')
    <3>1. \A l \in Legs : ~Known(l) => Booked[l] = 0
      BY DEF Booked, Books, Fits, Known, Typed, Leg
    <3>2. \A l \in Legs : seen'[l] \in Nat
      BY <1>1 DEF Typed
    <3> SUFFICES ASSUME \A l \in Legs : ~Known(l) PROVE \A l \in Legs : Booked[l] <= seen'[l]
      BY <1>1, <1>3, ExecutedRises DEF Typed
    <3> QED BY <3>1, <3>2
  <2>4. \A e \in Mail : e.exec \in Nat /\ e.exec <= Executed(seen')
    <3>1. \A i \in 1 .. Len(inbox) : inbox[i] \in Event
      BY <1>2
    <3>2. \A e \in Mail : e \in Event
      BY <3>1 DEF Mail
    <3> QED BY <1>2, <1>7, <1>8, <1>9, <2>2, <3>2 DEF Events
  <2> QED BY <1>2, <1>4, <1>5, <1>6, <1>7, <1>8, <2>1, <2>2, <2>3, <2>4 DEF ToldIsRead
<1>14. ASSUME NEW e \in Events, NEW d \in Events, EmitBoth(e, d), Says(e, Executed(seen')),
              Says(d, Executed(seen')), ~Crash, up' = up, lost \subseteq lost'
       PROVE  /\ ToldIsRead'
              /\ up /\ up' /\ inbox = <<>> /\ "list" \notin lost => told'.exec >= told.exec
  <2>1. /\ Mail' \subseteq Mail \cup ({e, d} \ {NoEvent})
        /\ told'.exec \in {told.exec} \cup {x.exec : x \in {y \in {e, d} : TellsFills(y)}}
    BY <1>2, <1>14, EmitTyped
  <2>2. told'.exec \in {told.exec, Executed(seen')}
    BY <1>14, <2>1 DEF Says
  <2>3. \A x \in Mail : x.exec \in Nat /\ x.exec <= Executed(seen')
    <3>1. \A i \in 1 .. Len(inbox) : inbox[i] \in Event
      BY <1>2
    <3>2. \A x \in Mail : x \in Event
      BY <3>1 DEF Mail
    <3> QED BY <1>2, <1>7, <1>8, <1>9, <1>14, <3>2 DEF Events
  <2>4. \A x \in {e, d} : x.exec <= Executed(seen')
    BY <1>2, <1>14 DEF Says
  <2>5. \A x \in Mail' : x.exec <= Executed(seen')
    BY <2>1, <2>3, <2>4
  <2> QED BY <1>2, <1>4, <1>5, <1>6, <1>7, <1>8, <1>14, <2>2, <2>5 DEF ToldIsRead
<1>15. CASE UNCHANGED core /\ ~Crash /\ ~Boot
  <2>1. Mail' = Mail /\ told' = told
    BY <1>15 DEF Mail
  <2>2. up' = up /\ lost \subseteq lost'
    BY <1>15
    DEF Next, BrokerNext, Fill, Cancels, Expires, Submits, Post, Register, EmitAccepted,
    Replaces, StartReplace, CancelOld, TimesOut, GiveUp, Confirmed, Resubmit, Switch,
    EmitReplaced, EmitDead, StartCancel, CancelRequest, ReadFrame, Drop, Connect,
    ReadSnapshot, ApplySnapshot, PollRead, PollApply, FoldOldest, Unanswered, engine
  <2> QED BY <1>11, <1>15, <2>1, <2>2
<1> QED BY <1>10, <1>12, <1>13, <1>14, <1>15, CoreSteps

LEMMA StepAsked ==
  ASSUME Typed, Shape, Books, Next
  PROVE  Asked'
<1> USE DEF Asked
<1>1. CASE job' = job
  BY <1>1 DEF Books
<1>2. CASE Confirmed
  <2>1. Executed(seen) \in Nat /\ job \in Job
    BY ExecutedNat DEF Typed
  <2>2. Total \in Nat
    BY <2>1 DEF Total, Job
  <2>3. Remaining \in Nat
    BY <2>1, <2>2, MinusNat DEF Remaining
  <2>4. CASE Remaining = 0
    BY <1>2, <2>1, <2>4 DEF Confirmed, Goto, Job
  <2>5. CASE Remaining # 0
    <3>1. job' = [job EXCEPT !.at = "resubmit", !.qty = Remaining, !.want = Total, !.leg = seq + 1]
      BY <1>2, <2>5 DEF Confirmed
    <3> HIDE DEF Remaining, Total
    <3>2. job'.at = "resubmit" /\ job'.qty = Remaining
      BY <2>1, <3>1 DEF Job
    <3> QED BY <2>3, <2>5, <3>2
  <2> QED BY <2>4, <2>5
<1>3. ASSUME job' # job, ~Confirmed PROVE job'.at \notin {"post", "resubmit"}
  <2>1. \A at \in JobSteps : [job EXCEPT !.at = at].at = at
    BY DEF Typed, Job
  <2>2. IdleJob.at = "idle" /\ \A o, w, l : [IdleJob EXCEPT !.at = "cancel", !.orig = o, !.want = w, !.leg = l].at = "cancel"
    BY DEF IdleJob
  <2>3. \/ \E at \in JobSteps \ {"post", "resubmit"} : job' = [job EXCEPT !.at = at]
        \/ job' = IdleJob
        \/ \E o, w, l : job' = [IdleJob EXCEPT !.at = "cancel", !.orig = o, !.want = w, !.leg = l]
    BY <1>3 DEF Next, BrokerNext, Fill, Cancels, Expires, Submits, Post, Register, EmitAccepted,
       Replaces, StartReplace, CancelOld, TimesOut, GiveUp, Resubmit, Switch,
       EmitReplaced, EmitDead, StartCancel, CancelRequest, ReadFrame, Drop, Connect,
       ReadSnapshot, ApplySnapshot, Crash, Boot, PollRead, PollApply, FoldOldest, Goto, JobSteps
  <2>4. ASSUME NEW at \in JobSteps \ {"post", "resubmit"}, job' = [job EXCEPT !.at = at]
        PROVE  job'.at \notin {"post", "resubmit"}
    BY <2>1, <2>4
  <2>5. ASSUME NEW o, NEW w, NEW l,
               job' = [IdleJob EXCEPT !.at = "cancel", !.orig = o, !.want = w, !.leg = l]
        PROVE  job'.at = "cancel"
    BY <2>2, <2>5
  <2>6. job' = IdleJob => job'.at = "idle"
    BY <2>2
  <2> HIDE DEF IdleJob
  <2> QED BY <2>3, <2>4, <2>5, <2>6
<1> QED BY <1>1, <1>2, <1>3

LEMMA StepBooks ==
  ASSUME Typed, Recorded, Shape, Books, Next
  PROVE  Books'
BY LegsGrow, StepReadIsTraded, StepToldIsRead, StepAsked DEF Books

-----------------------------------------------------------------------------
(* The order of things *)

\* the newest leg the broker has
Latest(l) == Known(l) /\ \A k \in Legs : Known(k) => k <= l
\* a frame that ends a leg is the last of that leg
FramesEnd ==
  /\ \A f \in Queued : f.status \in DeadStates => Status(legs[f.leg]) = f.status
  /\ \A i, j \in 1 .. Len(frames) :
       i < j /\ frames[i].leg = frames[j].leg => frames[i].status \notin DeadStates
\* a submit that was answered is in the books
Landed ==
  /\ job.at = "posted" => /\ Known(0) /\ legs[0].qty = job.want
                          /\ \A l \in Legs : Known(l) => l = 0
  /\ job.at = "resubmitted" => Known(job.leg)
CurrentIsKnown == current # NoLeg => Known(current)
EmptyRows == \A l \in Legs : /\ ~Listed(l) => snapshot[l].exec = 0
                             /\ ~Polled(l) => polled[l].exec = 0
LiveIsLatest == Sound => \A l \in Legs : Open(l) => Latest(l)
\* a list is as new as the frames that are behind it are old
ListIsFresh ==
  syncing = "apply" => \A l \in Legs :
    \/ snapshot[l].exec = legs[l].exec
    \/ \E f \in Queued : f.leg = l /\ f.fill /\ f.exec = legs[l].exec
\* an adapter that does not know the order hears of its newest leg alone
NewsOfTheLatest ==
  Sound /\ Still =>
    /\ \A l \in Legs : OpenRow(snapshot[l]) \/ OpenRow(polled[l]) => Latest(l)
    /\ \A f \in Queued : Latest(f.leg)
\* at most a refused first leg
Unused == \A l \in Legs : Known(l) => l = 0 /\ legs[l].st = "rejected"
\* and stays so only of an order that has no leg
BlankIsUnused ==
  lost \subseteq {"push"} /\ Blank =>
    \/ Unused
    \/ ~up /\ (~online \/ syncing = "ask" \/ (syncing = "apply" /\ \E l \in Legs : Listed(l)))
Lined == /\ FramesEnd /\ Landed /\ CurrentIsKnown /\ EmptyRows /\ LiveIsLatest /\ ListIsFresh
         /\ NewsOfTheLatest /\ BlankIsUnused

LEMMA QueueKeeps ==
  ASSUME Typed
  PROVE  /\ \A l, v : Push(l, v) /\ online => Queued \cup {Frame(l, v)} \subseteq Queued'
         /\ ReadFrame => Queued \subseteq Queued' \cup {Head(frames)}
<1>1. frames \in Seq(Frames) /\ Len(frames) \in Nat
  BY DEF Typed
<1>2. ASSUME NEW l, NEW v, Push(l, v), online
      PROVE  Queued \cup {Frame(l, v)} \subseteq Queued'
  <2> DEFINE f == Frame(l, v)
  <2>1. frames' = Append(frames, f)
    BY <1>2 DEF Push
  <2> HIDE DEF f
  <2>2. Len(frames') = Len(frames) + 1 /\ frames'[Len(frames) + 1] = f
        /\ \A i \in 1 .. Len(frames) : frames'[i] = frames[i]
    BY <1>1, <2>1
  <2>3. f \in Queued'
    BY <1>1, <2>2 DEF Queued
  <2>4. \A i \in 1 .. Len(frames) : i \in 1 .. Len(frames')
    BY <1>1, <2>2
  <2>5. Queued \subseteq Queued'
    BY <2>2, <2>4 DEF Queued
  <2> QED BY <2>3, <2>5 DEF f
<1>3. ASSUME ReadFrame, NEW i \in 1 .. Len(frames) PROVE frames[i] \in Queued' \cup {Head(frames)}
  <2>1. frames # <<>> /\ frames' = Tail(frames)
    BY <1>3 DEF ReadFrame
  <2>2. CASE i = 1
    BY <1>1, <2>1, <2>2
  <2>3. CASE i # 1
    <3>1. Len(frames') = Len(frames) - 1 /\ i - 1 \in 1 .. Len(frames) - 1
      BY <1>1, <2>1, <2>3
    <3>2. frames'[i - 1] = frames[i]
      BY <1>1, <2>1, <3>1
    <3> QED BY <3>1, <3>2 DEF Queued
  <2> QED BY <2>2, <2>3
<1> QED BY <1>2, <1>3 DEF Queued

\* What the broker says of a leg is dead when the leg is.
LEMMA DeadLegs ==
  ASSUME NEW v \in Leg
  PROVE  Status(v) \in DeadStates <=> v.st \in {"filled", "canceled", "expired", "rejected"}
BY DEF Status, DeadStates, Leg, LegStates

\* A frame that ends a leg is its last: nothing happens to it afterwards.
LEMMA StepFramesEnd ==
  ASSUME Typed, Shape, FramesEnd, Next
  PROVE  FramesEnd'
<1>1. frames \in Seq(Frames) /\ Len(frames) \in Nat /\ Queued \subseteq Frames /\ legs \in [Legs -> Leg]
  BY QueueChanges DEF Typed
<1>2. ASSUME NEW f \in Queued, f.status \in DeadStates
      PROVE  f.leg \in Legs /\ Known(f.leg) /\ ~Open(f.leg) /\ legs'[f.leg] = legs[f.leg]
  <2>1. f.leg \in Legs /\ Known(f.leg) /\ Status(legs[f.leg]) \in DeadStates
    BY <1>1, <1>2 DEF FramesEnd, Frames, Shape, Truthful
  <2>2. ~Open(f.leg)
    BY <1>1, <2>1, DeadLegs DEF Open, OpenStates
  <2> QED BY <2>1, <2>2, EndsAreFinal
<1>3. CASE legs' = legs /\ (frames' \in {frames, <<>>} \/ ReadFrame)
  <2>1. CASE frames' = frames
    BY <1>3, <2>1 DEF FramesEnd, Queued
  <2>2. CASE frames' = <<>>
    <3>1. Len(frames') = 0
      BY <2>2
    <3> QED BY <3>1 DEF FramesEnd, Queued
  <2>3. CASE ReadFrame
    <3>1. frames # <<>> /\ frames' = Tail(frames)
      BY <2>3 DEF ReadFrame
    <3>2. Len(frames') = Len(frames) - 1
          /\ \A i \in 1 .. Len(frames') : frames'[i] = frames[i + 1] /\ i + 1 \in 1 .. Len(frames)
      BY <1>1, <3>1
    <3>3. Queued' \subseteq Queued
      BY <2>3, QueueChanges
    <3>4. \A f \in Queued' : f.status \in DeadStates => Status(legs[f.leg]) = f.status
      BY <3>3 DEF FramesEnd
    <3>5. ASSUME NEW i \in 1 .. Len(frames'), NEW j \in 1 .. Len(frames'),
                 i < j, frames'[i].leg = frames'[j].leg
          PROVE  frames'[i].status \notin DeadStates
      <4>1. i + 1 < j + 1
        BY <3>5
      <4> QED BY <3>2, <3>5, <4>1 DEF FramesEnd
    <3> QED BY <1>3, <3>4, <3>5 DEF FramesEnd
  <2> QED BY <1>3, <2>1, <2>2, <2>3
<1>4. ASSUME NEW l \in Legs, NEW v \in Leg, Changes(l, v) PROVE FramesEnd'
  <2>1. legs' = [legs EXCEPT ![l] = v] /\ legs'[l] = v /\ (Open(l) \/ ~Known(l))
    BY <1>1, <1>4 DEF Changes, Moves, Starts
  <2>2. \A f \in Queued : f.status \in DeadStates => f.leg # l /\ Status(legs'[f.leg]) = f.status
    BY <1>2, <2>1 DEF FramesEnd
  <2>3. CASE frames' = frames
    BY <2>2, <2>3 DEF FramesEnd, Queued
  <2>4. CASE frames' = <<>>
    <3>1. Len(frames') = 0
      BY <2>4
    <3> QED BY <3>1 DEF FramesEnd, Queued
  <2>5. CASE Push(l, v) /\ frames' # frames
    <3> DEFINE g == Frame(l, v)
    <3>1. frames' = Append(frames, g)
      BY <2>5 DEF Push
    <3>2. g.leg = l /\ g.status = Status(v)
      BY DEF Frame
    <3>3. Queued' \subseteq Queued \cup {g}
      BY <2>5, QueueChanges
    <3> HIDE DEF g
    <3>4. \A f \in Queued' : f.status \in DeadStates => Status(legs'[f.leg]) = f.status
      BY <2>1, <2>2, <3>2, <3>3
    <3>5. Len(frames') = Len(frames) + 1 /\ frames'[Len(frames) + 1] = g
          /\ \A i \in 1 .. Len(frames) : frames'[i] = frames[i]
      BY <1>1, <3>1
    <3>6. ASSUME NEW i \in 1 .. Len(frames'), NEW j \in 1 .. Len(frames'),
                 i < j, frames'[i].leg = frames'[j].leg
          PROVE  frames'[i].status \notin DeadStates
      <4>1. i \in 1 .. Len(frames) /\ frames'[i] = frames[i] /\ frames[i] \in Queued
        BY <1>1, <3>5, <3>6 DEF Queued
      <4>2. CASE j = Len(frames) + 1
        BY <2>2, <3>2, <3>5, <3>6, <4>1, <4>2
      <4>3. CASE j # Len(frames) + 1
        <5>1. j \in 1 .. Len(frames)
          BY <1>1, <3>5, <4>3
        <5> QED BY <3>5, <3>6, <4>1, <5>1 DEF FramesEnd
      <4> QED BY <4>2, <4>3
    <3> QED BY <3>4, <3>6 DEF FramesEnd
  <2> QED BY <1>4, <2>3, <2>4, <2>5 DEF Changes
<1> QED BY <1>3, <1>4, LegSteps

\* What the goroutine of the order does next.
LEMMA JobMoves ==
  ASSUME Typed, Next
  PROVE  \/ job' = job
         \/ Crash /\ job'.at = "idle"
         \/ Post /\ job'.at = "posted" /\ job'.want = job.want /\ Lands(0, job.want)
         \/ Post /\ job'.at = "idle" /\ (Refused(0, job.want) \/ Unanswered(0, job.want))
         \/ Register /\ job'.at = "accepted"
         \/ EmitAccepted /\ job'.at = "idle"
         \/ (\E want \in Qtys : StartReplace(want) /\ job'.want = want)
              /\ job'.at = "cancel" /\ job'.orig = reqQty
         \/ CancelOld /\ job'.at \in {"await", "give up"} /\ job'.want = job.want /\ job'.orig = job.orig
         \/ TimesOut /\ job'.at = "give up"
         \/ GiveUp /\ job.at = "died" /\ job'.at = "dead"
         \/ GiveUp /\ job'.at = "idle"
         \/ Confirmed /\ Remaining = 0 /\ job'.at = "dead"
         \/ /\ Confirmed /\ Remaining # 0
            /\ job'.at = "resubmit" /\ job'.qty = Remaining /\ job'.want = Total /\ job'.leg = seq + 1
         \/ /\ Resubmit /\ job'.at = "resubmitted" /\ Lands(job.leg, job.qty)
            /\ job'.want = job.want /\ job'.leg = job.leg
         \/ Resubmit /\ job'.at = "died" /\ (Refused(job.leg, job.qty) \/ Unanswered(job.leg, job.qty))
         \/ Switch /\ job'.at = "replaced" /\ job'.want = job.want
         \/ EmitReplaced /\ job'.at = "idle"
         \/ EmitDead /\ job'.at = "idle"
<1>1. job \in Job
  BY DEF Typed
<1>2. \A at : /\ [job EXCEPT !.at = at].at = at /\ [job EXCEPT !.at = at].want = job.want
              /\ [job EXCEPT !.at = at].orig = job.orig /\ [job EXCEPT !.at = at].leg = job.leg
  BY <1>1 DEF Job
<1>3. IdleJob.at = "idle"
  BY DEF IdleJob
<1>4. CASE Post
  <2>1. \/ Lands(0, job.want) /\ job' = [job EXCEPT !.at = "posted"]
        \/ (Refused(0, job.want) \/ Unanswered(0, job.want)) /\ job' = IdleJob
    BY <1>4 DEF Post, Goto
  <2>2. CASE Lands(0, job.want) /\ job' = [job EXCEPT !.at = "posted"]
    <3>1. job'.at = "posted" /\ job'.want = job.want
      BY <1>1, <2>2 DEF Job
    <3> QED BY <1>4, <2>2, <3>1
  <2>3. CASE (Refused(0, job.want) \/ Unanswered(0, job.want)) /\ job' = IdleJob
    <3>1. job'.at = "idle"
      BY <1>3, <2>3
    <3> QED BY <1>4, <2>3, <3>1
  <2> QED BY <2>1, <2>2, <2>3
<1>5. CASE Register
  BY <1>2, <1>5 DEF Register, Goto
<1>6. CASE EmitAccepted
  BY <1>3, <1>6 DEF EmitAccepted
<1>7. ASSUME NEW want \in Qtys, StartReplace(want)
      PROVE  job'.at = "cancel" /\ job'.want = want /\ job'.orig = reqQty
  BY <1>7 DEF StartReplace, IdleJob
<1>8. CASE CancelOld
  <2>1. PICK at \in {"await", "give up"} : job' = [job EXCEPT !.at = at]
    BY <1>8 DEF CancelOld, Goto
  <2> QED BY <1>2, <1>8, <2>1
<1>9. CASE TimesOut
  BY <1>2, <1>9 DEF TimesOut, Goto
<1>10. CASE GiveUp
  BY <1>2, <1>3, <1>10 DEF GiveUp
<1>11. CASE Confirmed
  <2> HIDE DEF Remaining, Total
  <2>1. CASE Remaining # 0
    <3>1. job' = [job EXCEPT !.at = "resubmit", !.qty = Remaining, !.want = Total, !.leg = seq + 1]
      BY <1>11, <2>1 DEF Confirmed
    <3>2. job'.at = "resubmit" /\ job'.qty = Remaining /\ job'.want = Total /\ job'.leg = seq + 1
      BY <1>1, <3>1 DEF Job
    <3> QED BY <1>11, <2>1, <3>2
  <2>2. CASE Remaining = 0
    <3>1. job' = [job EXCEPT !.at = "dead"]
      BY <1>11, <2>2 DEF Confirmed, Goto
    <3> QED BY <1>2, <1>11, <2>2, <3>1
  <2> QED BY <2>1, <2>2
<1>12. CASE Resubmit
  <2>1. \/ Lands(job.leg, job.qty) /\ job' = [job EXCEPT !.at = "resubmitted"]
        \/ (Refused(job.leg, job.qty) \/ Unanswered(job.leg, job.qty))
             /\ job' = [job EXCEPT !.at = "died"]
    BY <1>12 DEF Resubmit, Goto
  <2>2. CASE Lands(job.leg, job.qty) /\ job' = [job EXCEPT !.at = "resubmitted"]
    <3>1. job'.at = "resubmitted" /\ job'.want = job.want /\ job'.leg = job.leg
      BY <1>1, <2>2 DEF Job
    <3> QED BY <1>12, <2>2, <3>1
  <2>3. CASE (Refused(job.leg, job.qty) \/ Unanswered(job.leg, job.qty))
               /\ job' = [job EXCEPT !.at = "died"]
    <3>1. job'.at = "died"
      BY <1>1, <2>3 DEF Job
    <3> QED BY <1>12, <2>3, <3>1
  <2> QED BY <2>1, <2>2, <2>3
<1>13. CASE Switch
  BY <1>2, <1>13 DEF Switch, Goto
<1>14. CASE EmitReplaced \/ EmitDead
  BY <1>3, <1>14 DEF EmitReplaced, EmitDead
<1>15. CASE Crash
  BY <1>3, <1>15 DEF Crash
<1>16. CASE BrokerNext \/ StartCancel \/ CancelRequest \/ ReadFrame \/ Drop \/ Connect
            \/ ReadSnapshot \/ ApplySnapshot \/ PollRead \/ PollApply \/ FoldOldest \/ Boot
  BY <1>16 DEF BrokerNext, Fill, Cancels, Expires, StartCancel, CancelRequest, ReadFrame, Drop,
     Connect, ReadSnapshot, ApplySnapshot, PollRead, PollApply, FoldOldest, Boot
<1> QED BY <1>4, <1>5, <1>6, <1>7, <1>8, <1>9, <1>10, <1>11, <1>12, <1>13, <1>14, <1>15, <1>16
        DEF Next, Submits, Replaces

LEMMA StepLanded ==
  ASSUME Typed, Shape, Books, Landed, Next
  PROVE  Landed'
<1>1. \A l \in Legs : Known(l) => Known(l)' /\ legs'[l].qty = legs[l].qty
  BY EndsAreFinal, LegsGrow
<1>2. job \in Job /\ 0 \in Legs /\ legs \in [Legs -> Leg]
  BY TZAssumption DEF Typed, Legs
<1>3. ASSUME job'.at = "posted"
      PROVE  Known(0)' /\ legs'[0].qty = job'.want /\ \A l \in Legs : Known(l)' => l = 0
  <2>1. CASE job' = job
    <3>1. ~Post /\ ~Resubmit
      BY <1>3, <2>1 DEF Post, Resubmit
    <3>2. \A l \in Legs : Known(l)' => Known(l)
      BY <3>1, NewLegs
    <3> QED BY <1>1, <1>2, <1>3, <2>1, <3>2 DEF Landed
  <2>2. CASE Post /\ job'.want = job.want /\ Lands(0, job.want)
    <3>1. legs'[0] = [st |-> "open", qty |-> job.want, exec |-> 0]
      BY <1>2, <2>2 DEF Lands, Push
    <3>2. \A l \in Legs : Known(l)' => l = 0
      BY <2>2, NewLegs DEF Post, Shape, Numbered, Resubmit
    <3> QED BY <2>2, <3>1, <3>2 DEF Known
  <2> QED BY <1>3, <2>1, <2>2, JobMoves
<1>4. ASSUME job'.at = "resubmitted" PROVE Known(job.leg)'
  <2>1. CASE job' = job
    BY <1>1, <1>4, <2>1 DEF Landed, Typed, Shape, Numbered
  <2>2. CASE Resubmit /\ Lands(job.leg, job.qty) /\ job'.leg = job.leg
    <3>1. job.leg \in Legs
      BY <2>2 DEF Resubmit, Shape, Numbered, Typed
    <3>2. legs'[job.leg] = [st |-> "open", qty |-> job.qty, exec |-> 0]
      BY <1>2, <2>2, <3>1 DEF Lands, Push
    <3> QED BY <2>2, <3>2 DEF Known
  <2> QED BY <1>4, <2>1, <2>2, JobMoves
<1> QED BY <1>3, <1>4 DEF Landed, Known

LEMMA StepEmptyRows ==
  ASSUME Typed, Books, EmptyRows, Next
  PROVE  EmptyRows'
<1>1. ASSUME NEW rows, rows = NoRows \/ rows = legs
      PROVE  \A l \in Legs : rows[l].st = "none" => rows[l].exec = 0
  BY <1>1 DEF NoRows, NoOrder, Books, Fits
<1>2. \A l \in Legs : ~Listed(l)' => snapshot'[l].exec = 0
  BY <1>1, ListSteps DEF EmptyRows, Listed
<1>3. \A l \in Legs : ~Polled(l)' => polled'[l].exec = 0
  BY <1>1, PollSteps DEF EmptyRows, Polled
<1> QED BY <1>2, <1>3 DEF EmptyRows

\* A leg that is submitted is the newest.
LEMMA NewLegIsLatest ==
  ASSUME Typed, Shape, Next, NEW l \in Legs, Known(l)', ~Known(l)
  PROVE  Latest(l)' /\ \A k \in Legs : Known(k)' => Known(k) \/ k = l
<1>1. (Post /\ l = 0) \/ (Resubmit /\ l = job.leg)
  BY NewLegs
<1>2. \A k \in Legs : Known(k)' => Known(k) \/ k = l
  BY <1>1, NewLegs DEF Post, Resubmit
<1>3. \A k \in Legs : Known(k) => k <= l
  <2>1. CASE Post
    BY <2>1 DEF Post, Shape, Numbered
  <2>2. CASE Resubmit /\ l = job.leg
    BY <2>2 DEF Resubmit, Shape, Numbered, Blank
  <2> QED BY <1>1, <2>1, <2>2
<1>4. Legs \subseteq Nat
  BY TZAssumption DEF Legs
<1> QED BY <1>2, <1>3, <1>4 DEF Latest

LEMMA StepLiveIsLatest ==
  ASSUME Typed, Shape, Sound => Certain, LiveIsLatest, Next
  PROVE  LiveIsLatest'
<1> SUFFICES ASSUME Sound', NEW l \in Legs, Open(l)' PROVE Latest(l)'
  BY DEF LiveIsLatest
<1>1. Sound
  BY LossIsRemembered DEF Sound
<1>2. Known(l)'
  BY DEF Open, OpenStates, Known
<1>3. CASE ~Known(l)
  BY <1>2, <1>3, NewLegIsLatest
<1>4. CASE Known(l)
  <2>1. Open(l)
    BY <1>4, EndsAreFinal DEF Open
  <2>2. ~Post /\ ~Resubmit
    BY <1>1, <2>1, <1>4 DEF Post, Resubmit, Shape, Numbered, Certain, Sure, Alive
  <2>3. \A k \in Legs : Known(k)' => Known(k)
    BY <2>2, NewLegs
  <2> QED BY <1>1, <1>2, <2>1, <2>3 DEF LiveIsLatest, Latest
<1> QED BY <1>3, <1>4

LEMMA StreamSteps ==
  ASSUME Next
  PROVE  /\ UNCHANGED <<online, sync>> \/ Connect \/ ReadSnapshot \/ Drop \/ ApplySnapshot \/ Crash
         /\ frames' = frames \/ ReadFrame \/ Drop \/ Crash \/ \E l, v : Push(l, v)
<1>1. UNCHANGED <<online, sync>> \/ Connect \/ ReadSnapshot \/ Drop \/ ApplySnapshot \/ Crash
  BY DEF Next, BrokerNext, Fill, Cancels, Expires, Submits, Post, Register, EmitAccepted,
     Replaces, StartReplace, CancelOld, TimesOut, GiveUp, Confirmed, Resubmit, Switch,
     EmitReplaced, EmitDead, StartCancel, CancelRequest, ReadFrame, PollRead, PollApply,
     FoldOldest, Boot, stream
<1>2. ASSUME Post \/ Resubmit PROVE frames' = frames \/ \E l, v : Push(l, v)
  BY <1>2 DEF Post, Resubmit, Lands, Refused, Unanswered
<1>3. ASSUME BrokerNext PROVE \E l, v : Push(l, v)
  BY <1>3 DEF BrokerNext, Fill, Cancels, Expires
<1>4. CASE ~Post /\ ~Resubmit /\ ~BrokerNext
  <2>1. frames' = frames \/ ReadFrame \/ Drop \/ Crash
    BY <1>4 DEF Next, Submits, Register, EmitAccepted,
       Replaces, StartReplace, CancelOld, TimesOut, GiveUp, Confirmed, Switch,
       EmitReplaced, EmitDead, StartCancel, CancelRequest, Connect, ReadSnapshot,
       ApplySnapshot, PollRead, PollApply, FoldOldest, Boot, stream
  <2> QED BY <1>1, <2>1
<1> QED BY <1>1, <1>2, <1>3, <1>4


\* A fill is pushed while the stream is up.
LEMMA FillIsPushed ==
  ASSUME Typed, Shape, Books, Next, online, ~Drop, ~Crash, NEW l \in Legs,
         legs'[l].exec # legs[l].exec
  PROVE  \E f \in Queued' : f.leg = l /\ f.fill /\ f.exec = legs'[l].exec
<1>1. PICK k \in Legs, v \in Leg : Changes(k, v)
  BY LegSteps
<1>2. k = l /\ legs'[l] = v
  BY <1>1 DEF Changes, Typed
<1>3. legs[l].exec <= legs'[l].exec /\ legs[l].exec \in Nat /\ v.exec \in Nat
  BY <1>2, LegsGrow DEF Typed, Leg
<1>4. ~Starts(l, v)
  BY <1>2, <1>3 DEF Starts, Known, Books, Fits
<1>5. Push(l, v)
  BY <1>1, <1>2, <1>4 DEF Changes, Moves, Waits
<1>6. Frame(l, v) \in Queued'
  BY <1>5, QueueKeeps
<1>7. v.exec > legs[l].exec
  BY <1>2, <1>3
<1> QED BY <1>2, <1>6, <1>7 DEF Frame

LEMMA StepListIsFresh ==
  ASSUME Typed, Shape, Books, ListIsFresh, Next
  PROVE  ListIsFresh'
<1> SUFFICES ASSUME syncing' = "apply", NEW l \in Legs
             PROVE  \/ snapshot'[l].exec = legs'[l].exec
                    \/ \E f \in Queued' : f.leg = l /\ f.fill /\ f.exec = legs'[l].exec
  BY DEF ListIsFresh
<1>1. CASE ReadSnapshot
  BY <1>1 DEF ReadSnapshot
<1>2. CASE ~ReadSnapshot
  <2>1. UNCHANGED <<online, sync>> /\ ~Drop /\ ~Crash
    BY <1>2, StreamSteps DEF Connect, Drop, ApplySnapshot, Crash
  <2>2. syncing = "apply" /\ online /\ ~ReadFrame /\ snapshot' = snapshot
    BY <2>1 DEF sync, Shape, Reset, ReadFrame
  <2>3. Queued \subseteq Queued'
    BY <2>1, <2>2, StreamSteps, QueueChanges, QueueKeeps
  <2>4. CASE legs'[l].exec = legs[l].exec
    BY <2>2, <2>3, <2>4 DEF ListIsFresh
  <2>5. CASE legs'[l].exec # legs[l].exec
    BY <2>1, <2>2, <2>5, FillIsPushed
  <2> QED BY <2>4, <2>5
<1> QED BY <1>1, <1>2

LEMMA StepCurrentIsKnown ==
  ASSUME Typed, Shape, Landed, CurrentIsKnown, Next
  PROVE  CurrentIsKnown'
<1> SUFFICES ASSUME current' # NoLeg PROVE Known(current)'
  BY DEF CurrentIsKnown
<1>1. ~Crash
  BY DEF Crash
<1>2. current \in Maybe /\ legs \in [Legs -> Leg]
  BY DEF Typed
<1>3. \A l \in Legs : Known(l) => Known(l)'
  BY EndsAreFinal
<1>4. CASE current' = current
  BY <1>2, <1>3, <1>4 DEF CurrentIsKnown, Maybe, Known
<1>5. CASE Register \/ Switch
  <2>1. job.at = "resubmitted" => job.leg \in Legs
    BY DEF Shape, Numbered, Typed
  <2>2. 0 \in Legs
    BY TZAssumption DEF Legs
  <2> QED BY <1>3, <1>5, <2>1, <2>2 DEF Register, Switch, Landed, Known
<1>6. CASE ApplySnapshot
  <2> DEFINE c == CurrentLeg(snapshot)
  <2>1. current' = current \/ (c # NoLeg /\ current' = c)
    BY <1>6 DEF ApplySnapshot
  <2>2. c # NoLeg => c \in Legs /\ snapshot[c].st # "none"
    BY CurrentLegOfRows DEF Typed
  <2> QED BY <1>3, <1>4, <2>1, <2>2 DEF Shape, Truthful, Listed, Known
<1>7. CASE Restore(polled)
  <2> DEFINE c == CurrentLeg(polled)
  <2>1. current' = current \/ (c # NoLeg /\ current' = c)
    BY <1>7 DEF Restore
  <2>2. c # NoLeg => c \in Legs /\ polled[c].st # "none"
    BY CurrentLegOfRows DEF Typed
  <2> QED BY <1>3, <1>4, <2>1, <2>2 DEF Shape, Truthful, Polled, Known
<1>8. \/ current' = current \/ Register \/ Switch \/ ApplySnapshot \/ Restore(polled)
  BY <1>1 DEF Next, BrokerNext, Fill, Cancels, Expires, Submits, Post, EmitAccepted,
     Replaces, StartReplace, CancelOld, TimesOut, GiveUp, Confirmed, Resubmit,
     EmitReplaced, EmitDead, StartCancel, CancelRequest, ReadFrame, Drop, Connect,
     ReadSnapshot, PollRead, PollApply, FoldOldest, Boot, memory
<1> QED BY <1>4, <1>5, <1>6, <1>7, <1>8

LEMMA StepNewsOfTheLatest ==
  ASSUME Typed, Shape, Books, LiveIsLatest, NewsOfTheLatest, Next
  PROVE  NewsOfTheLatest'
<1> SUFFICES ASSUME Sound', Still'
             PROVE  /\ \A l \in Legs : OpenRow(snapshot'[l]) \/ OpenRow(polled'[l]) => Latest(l)'
                    /\ \A f \in Queued' : Latest(f.leg)'
  BY DEF NewsOfTheLatest
<1>1. Sound
  BY LossIsRemembered DEF Sound
<1>2. CASE Crash
  <2>1. frames' = <<>> /\ snapshot' = NoRows /\ polled' = NoRows
    BY <1>2 DEF Crash
  <2> QED BY <2>1, QueueChanges DEF NoRows, NoOrder, OpenRow, OpenStates
<1>3. CASE Post
  <2>1. \A l \in Legs : ~Known(l) /\ snapshot'[l].st = "none" /\ polled'[l].st = "none"
    BY <1>3, UnheardOf
  <2>2. \A l \in Legs : Known(l)' => l = 0
    BY <1>3, <2>1, NewLegs DEF Post, Resubmit
  <2>3. \A f \in Queued' : f.leg \in Legs /\ Known(f.leg)'
    <3>1. \A f \in Queued : f.leg \in Legs /\ Known(f.leg)
      BY QueueChanges DEF Shape, Truthful, Frames
    <3> QED BY <2>1, <3>1, NewFrames
  <2> QED BY <2>1, <2>2, <2>3 DEF Latest, OpenRow, OpenStates
<1>4. CASE ~Crash /\ ~Post
  <2>1. Still
    BY <1>4, StillSteps
  <2>2. \A l \in Legs : Latest(l)' <=> Latest(l)
    BY <2>1, StillLegs DEF Latest
  <2>3. \A l \in Legs : OpenRow(legs[l]) => Latest(l)
    BY <1>1 DEF LiveIsLatest, Open, OpenRow
  <2>4. \A l \in Legs : ~OpenRow(NoRows[l])
    BY DEF NoRows, NoOrder, OpenRow, OpenStates
  <2>5. \A l \in Legs : OpenRow(snapshot'[l]) => Latest(l)
    BY <1>1, <2>1, <2>3, <2>4, ListSteps DEF NewsOfTheLatest
  <2>6. \A l \in Legs : OpenRow(polled'[l]) => Latest(l)
    BY <1>1, <2>1, <2>3, <2>4, PollSteps DEF NewsOfTheLatest
  <2>7. ASSUME NEW f \in Queued' PROVE f.leg \in Legs /\ Latest(f.leg)
    <3>1. CASE f \in Queued
      BY <1>1, <2>1, <3>1, QueueChanges DEF NewsOfTheLatest, Frames
    <3>2. CASE f \notin Queued
      <4>1. ~ReadFrame /\ frames' # frames /\ frames' # <<>>
        BY <2>7, <3>2, QueueChanges
      <4>2. PICK l \in Legs, v \in Leg : Changes(l, v)
        BY <4>1, LegSteps
      <4>3. Push(l, v) /\ Moves(l, v)
        BY <2>1, <4>1, <4>2, StillLegs DEF Changes, Starts
      <4>4. f.leg = l
        BY <2>7, <3>2, <4>3, QueueChanges DEF Frame
      <4> QED BY <2>3, <4>3, <4>4 DEF Moves, Open, OpenRow
    <3> QED BY <3>1, <3>2
  <2> QED BY <2>2, <2>5, <2>6, <2>7
<1> QED BY <1>2, <1>3, <1>4

LEMMA StepBlankIsUnused ==
  ASSUME Typed, Shape, Books, BlankIsUnused, Next
  PROVE  BlankIsUnused'
<1> SUFFICES ASSUME lost' \subseteq {"push"}, Blank', ~Unused'
             PROVE  /\ ~up'
                    /\ \/ ~online' \/ syncing' = "ask"
                       \/ syncing' = "apply" /\ \E l \in Legs : Listed(l)'
  BY DEF BlankIsUnused
<1>1. lost \subseteq {"push"}
  BY LossIsRemembered
<1>2. CASE Crash
  BY <1>2 DEF Crash
<1>3. ~Post
  <2> SUFFICES ASSUME Post PROVE FALSE
    OBVIOUS
  <2>1. Refused(0, job.want)
    <3>1. job'.at = "idle"
      BY DEF Blank
    <3> QED BY <3>1, JobMoves DEF Unanswered, Post, Register, EmitAccepted, StartReplace,
               CancelOld, TimesOut, GiveUp, Confirmed, Resubmit, Switch, EmitReplaced, EmitDead,
               Crash, Lands, Push
  <2>2. 0 \in Legs /\ legs \in [Legs -> Leg]
    BY TZAssumption DEF Legs, Typed
  <2>3. legs'[0].st = "rejected"
    BY <2>1, <2>2 DEF Refused, Push
  <2>4. \A l \in Legs : Known(l)' => l = 0
    BY UnheardOf, NewLegs DEF Post, Resubmit
  <2> QED BY <2>3, <2>4 DEF Unused
<1>4. CASE ~Crash
  <2>1. Blank /\ Still
    BY <1>3, <1>4, BlankSteps DEF Still
  <2>2. ~Unused
    <3> SUFFICES ASSUME Unused PROVE FALSE
      OBVIOUS
    <3>1. \A l \in Legs : Known(l)' => legs'[l] = legs[l] /\ Known(l)
      BY <2>1, StillLegs, EndsAreFinal DEF Unused, Open, OpenStates
    <3> QED BY <3>1 DEF Unused
  <2>3. ~up /\ \/ ~online \/ syncing = "ask"
               \/ syncing = "apply" /\ \E l \in Legs : Listed(l)
    BY <1>1, <2>1, <2>2 DEF BlankIsUnused
  <2>4. PICK l \in Legs : Known(l)
    BY <2>2 DEF Unused
  <2>5. current = NoLeg /\ current' = NoLeg
    BY <2>1 DEF Blank
  <2>6. ~Boot
    <3> SUFFICES ASSUME Boot PROVE FALSE
      OBVIOUS
    <3>0. lost' # lost \cup {"list"}
      OBVIOUS
    <3>1. Restore(polled) /\ Present(polled) = Present(legs)
      BY <3>0 DEF Boot
    <3>2. CurrentLeg(polled) = NoLeg
      BY <2>5, <3>1 DEF Restore
    <3>3. Present(polled) = {}
      BY <2>5, <3>2, CurrentLegOfRows DEF Typed
    <3> QED BY <2>4, <3>1, <3>3 DEF Present, Known
  <2>7. ~up'
    BY <1>4, <2>3, <2>6
    DEF Next, BrokerNext, Fill, Cancels, Expires, Submits, Post, Register, EmitAccepted,
    Replaces, StartReplace, CancelOld, TimesOut, GiveUp, Confirmed, Resubmit, Switch,
    EmitReplaced, EmitDead, StartCancel, CancelRequest, ReadFrame, Drop, Connect,
    ReadSnapshot, ApplySnapshot, PollRead, PollApply, FoldOldest, engine
  <2>8. CASE UNCHANGED <<online, sync>>
    BY <2>3, <2>7, <2>8 DEF sync, Listed
  <2>9. CASE Connect \/ Drop
    BY <2>7, <2>9 DEF Connect, Drop
  <2>10. CASE ReadSnapshot
    BY <2>4, <2>7, <2>10 DEF ReadSnapshot, Listed, Known
  <2>11. ~ApplySnapshot
    <3> SUFFICES ASSUME ApplySnapshot PROVE FALSE
      OBVIOUS
    <3>1. syncing = "apply" /\ \E k \in Legs : Listed(k)
      BY <2>3 DEF ApplySnapshot, Shape, Reset
    <3>2. CurrentLeg(snapshot) # NoLeg
      BY <2>5, <3>1, CurrentLegOfRows DEF Typed, Present, Listed
    <3> QED BY <2>5, <3>2 DEF ApplySnapshot
  <2> QED BY <1>4, <2>8, <2>9, <2>10, <2>11, StreamSteps
<1> QED BY <1>2, <1>4

LEMMA StepLined ==
  ASSUME Typed, Shape, Books, Sound => Certain, Lined, Next
  PROVE  Lined'
BY StepFramesEnd, StepLanded, StepCurrentIsKnown, StepEmptyRows, StepLiveIsLatest, StepListIsFresh,
   StepNewsOfTheLatest, StepBlankIsUnused DEF Lined

-----------------------------------------------------------------------------
(* Every fill is counted before the next leg is submitted *)

\* a leg of which something is still to be heard
Loose(l) == Open(l) \/ seen[l] # legs[l].exec
LooseIsLatest == \A l \in Legs : Loose(l) => Latest(l)
EndIsCounted == Sure => \A l \in Legs : ~Loose(l)
NoNews == syncing # "no" => \A k, l \in Legs : Loose(k) /\ k # l => NoCancelFrame(l)
ListHasTheRest ==
  syncing = "apply" => \A k, l \in Legs : Loose(k) /\ k # l => /\ ~OpenRow(snapshot[l])
                                                               /\ Known(l) => Listed(l)
RestIsSettled ==
  \A k \in Legs : Loose(k) =>
    /\ current \notin {NoLeg, k} /\ job.at # "resubmitted" => Settled(current)
    /\ Replacing /\ replacing # k => current = replacing
\* a fill that is not counted yet is in the list or in a frame
Explained ==
  online /\ syncing # "ask" => \A l \in Legs :
    \/ seen[l] = legs[l].exec
    \/ syncing = "apply" /\ snapshot[l].exec = legs[l].exec
    \/ \E f \in Queued : f.leg = l /\ f.fill /\ f.exec = legs[l].exec
Counted == /\ LooseIsLatest /\ EndIsCounted /\ NoNews /\ ListHasTheRest /\ RestIsSettled
           /\ Explained
\* the state a step starts from, and what it must not have lost
Before == /\ Typed /\ Recorded /\ Shape /\ Books /\ Lined /\ Certain /\ Counted
          /\ ~Blank /\ lost \subseteq {"push"}
After == ~Blank' /\ lost' \subseteq {"push"}

LEMMA AfterIsNoCrash == After => ~Crash
BY DEF After, Crash, Blank, IdleJob

LEMMA OneLatest == \A k, l \in Legs : Latest(k) /\ Latest(l) => k = l
<1>1. Legs \subseteq Nat
  BY TZAssumption DEF Legs
<1> QED BY <1>1 DEF Latest

\* A leg that is settled stays so.
LEMMA LooseSteps ==
  ASSUME Before, Next, After
  PROVE  \A l \in Legs : Loose(l)' => Loose(l) \/ (~Known(l) /\ Known(l)')
<1> USE DEF Before, After
<1> SUFFICES ASSUME NEW l \in Legs, ~Loose(l), Known(l) \/ ~Known(l)' PROVE ~Loose(l)'
  OBVIOUS
<1>1. Typed'
  BY StepTyped
<1>2. legs[l] \in Leg /\ legs'[l] \in Leg /\ seen[l] \in Nat /\ seen'[l] \in Nat
  BY <1>1 DEF Typed
<1>3. seen'[l] <= legs'[l].exec /\ seen[l] <= seen'[l]
  <2>1. ~Crash
    BY AfterIsNoCrash
  <2> QED BY <2>1, CountersHold
<1>4. CASE Known(l)
  <2>1. legs'[l] = legs[l]
    BY <1>4, EndsAreFinal DEF Loose
  <2> QED BY <1>2, <1>3, <2>1 DEF Loose, Open, Leg
<1>5. CASE ~Known(l)'
  <2>1. legs'[l].exec = 0
    BY <1>5, LegsGrow DEF Fits, Known
  <2> QED BY <1>2, <1>3, <1>5, <2>1 DEF Loose, Known, Open, OpenStates
<1> QED BY <1>4, <1>5

\* A submit is sent when nothing is to be heard of the legs before it.
LEMMA SubmitFindsNone ==
  ASSUME Before, Post \/ Resubmit
  PROVE  \A l \in Legs : ~Loose(l)
<1> USE DEF Before
<1>1. CASE Post
  <2>1. \A l \in Legs : ~Known(l)
    BY <1>1 DEF Post, Shape, Numbered
  <2> QED BY <2>1 DEF Counted, LooseIsLatest, Latest
<1>2. CASE Resubmit
  BY <1>2 DEF Counted, EndIsCounted, Sure, Resubmit
<1> QED BY <1>1, <1>2

\* So of two legs one is settled, before a step and after it.
LEMMA NewOrOld ==
  ASSUME Before, Next, After, NEW k \in Legs, Loose(k)'
  PROVE  \/ Loose(k) /\ ~Post /\ ~Resubmit /\ \A l \in Legs : Known(l)' => Known(l)
         \/ /\ (Post /\ k = 0) \/ (Resubmit /\ k = job.leg)
            /\ ~Known(k) /\ Known(k)' /\ \A l \in Legs : Known(l)' => Known(l) \/ l = k
<1> USE DEF Before
<1>1. CASE Loose(k)
  <2>1. ~Post /\ ~Resubmit
    BY <1>1, SubmitFindsNone
  <2> QED BY <1>1, <2>1, NewLegs
<1>2. CASE ~Loose(k)
  <2>1. ~Known(k) /\ Known(k)'
    BY <1>2, LooseSteps
  <2> QED BY <2>1, NewLegs, NewLegIsLatest
<1> QED BY <1>1, <1>2

LEMMA StepLooseIsLatest ==
  ASSUME Before, Next, After
  PROVE  LooseIsLatest'
<1> USE DEF Before
<1> SUFFICES ASSUME NEW k \in Legs, Loose(k)' PROVE Latest(k)'
  BY DEF LooseIsLatest
<1>1. CASE Loose(k) /\ \A l \in Legs : Known(l)' => Known(l)
  <2>1. Latest(k)
    BY <1>1 DEF Counted, LooseIsLatest
  <2>2. Known(k)'
    BY <2>1, EndsAreFinal DEF Latest
  <2> QED BY <1>1, <2>1, <2>2 DEF Latest
<1>2. CASE ~Known(k) /\ Known(k)'
  BY <1>2, NewLegIsLatest
<1> QED BY <1>1, <1>2, NewOrOld

\* what reading a list does
LEMMA ListFacts ==
  ASSUME Typed, ApplySnapshot, NEW c, c = CurrentLeg(snapshot)
  PROVE  /\ UNCHANGED <<legs, frames, job, replacing, online>>
         /\ syncing = "apply" /\ syncing' = "no"
         /\ c = NoLeg => UNCHANGED <<current, lastKnown, confirmed, reqQty>>
         /\ c # NoLeg =>
              /\ c \in Legs /\ Listed(c) /\ current' = c /\ lastKnown' = Status(snapshot[c])
              /\ confirmed' => \/ confirmed
                               \/ /\ lastKnown # Status(snapshot[c]) \/ snapshot[c].exec > seen[c]
                                  /\ Status(snapshot[c]) = "CANCELED" /\ replacing = c
         /\ current # NoLeg /\ Listed(current) => c = current
         /\ \A l \in Legs : Listed(l) => seen'[l] >= snapshot[l].exec
<1> DEFINE rows == snapshot
           s == Restored(rows, c, TRUE)
<1>1. /\ UNCHANGED <<legs, frames, job, replacing, online>>
      /\ syncing = "apply" /\ syncing' = "no"
  BY DEF ApplySnapshot, broker
<1>2. /\ c # NoLeg => c \in Legs /\ Listed(c)
      /\ current # NoLeg /\ Listed(current) => c = current
      /\ rows \in [Legs -> Leg]
  BY CurrentLegOfRows DEF Typed, Listed, Present, Maybe
<1>3. s \in [Legs -> Nat] /\ \A l \in Legs : s[l] >= seen[l]
  BY <1>2, RestoredRises DEF Typed
<1>4. c = NoLeg => UNCHANGED <<current, lastKnown, confirmed, reqQty>> /\ seen' = s
  BY DEF ApplySnapshot
<1>5. c # NoLeg => /\ current' = c /\ lastKnown' = Status(rows[c])
                   /\ seen' = [s EXCEPT ![c] = Larger(@, rows[c].exec)]
                   /\ confirmed' => \/ confirmed
                                    \/ /\ lastKnown # Status(rows[c]) \/ rows[c].exec > s[c]
                                       /\ Status(rows[c]) = "CANCELED" /\ replacing = c
  BY DEF ApplySnapshot, Signals
<1>6. \A l \in Legs : rows[l].exec \in Nat /\ seen[l] \in Nat /\ s[l] \in Nat
  BY <1>2, <1>3 DEF Typed, Leg
<1>7. ASSUME NEW l \in Legs, Listed(l) PROVE seen'[l] >= rows[l].exec
  <2>1. l # c => s[l] = Larger(rows[l].exec, seen[l])
    BY <1>7 DEF Restored, Listed
  <2> HIDE DEF s
  <2>2. CASE l = c
    BY <1>2, <1>3, <1>5, <1>6, <2>2, TZAssumption DEF Larger, NoLeg, Legs
  <2>3. CASE l # c
    BY <1>3, <1>4, <1>5, <1>6, <2>1, <2>3 DEF Larger
  <2> QED BY <2>2, <2>3
<1> HIDE DEF s
<1>8. c # NoLeg => (rows[c].exec > s[c] => rows[c].exec > seen[c])
  <2> SUFFICES ASSUME c \in Legs PROVE rows[c].exec > s[c] => rows[c].exec > seen[c]
    BY <1>2
  <2>1. s[c] >= seen[c] /\ rows[c].exec \in Nat /\ seen[c] \in Nat /\ s[c] \in Nat
    BY <1>3, <1>6
  <2> QED BY <2>1
<1>9. ASSUME c # NoLeg, confirmed'
      PROVE  \/ confirmed
             \/ /\ lastKnown # Status(rows[c]) \/ rows[c].exec > seen[c]
                /\ Status(rows[c]) = "CANCELED" /\ replacing = c
  BY <1>5, <1>8, <1>9
<1>10. c # NoLeg => c \in Legs /\ Listed(c) /\ current' = c /\ lastKnown' = Status(rows[c])
  BY <1>2, <1>5
<1> QED BY <1>1, <1>2, <1>4, <1>7, <1>9, <1>10

\* The end of the old leg becomes certain by a frame or by a list.
LEMMA SureSteps ==
  ASSUME Typed, Next, Sure'
  PROVE  \/ Sure /\ ~Post /\ ~Resubmit
         \/ Replacing /\ ~confirmed /\ confirmed' /\ (ReadFrame \/ ApplySnapshot)
<1> USE DEF Sure, Replacing, swap
<1>1. CASE job' = job
  <2>1. confirmed' = confirmed \/ ReadFrame \/ ApplySnapshot \/ Crash \/ Confirmed \/ \E q \in Qtys : StartReplace(q)
    BY DEF Next, BrokerNext, Fill, Cancels, Expires, Submits, Post, Register, EmitAccepted,
       Replaces, CancelOld, TimesOut, GiveUp, Resubmit, Switch, EmitReplaced, EmitDead,
       StartCancel, CancelRequest, Drop, Connect, ReadSnapshot, PollRead, PollApply, FoldOldest, Boot
  <2>2. Crash \/ Confirmed \/ (\E q \in Qtys : StartReplace(q)) => ~confirmed'
    BY DEF Crash, Confirmed, StartReplace
  <2>3. job.at # "resubmit" => Replacing /\ confirmed'
    BY <1>1
  <2>4. ~Post /\ (job.at # "resubmit" => ~Resubmit)
    BY <1>1 DEF Post, Resubmit
  <2>5. job.at = "resubmit" => ~Resubmit
    <3>1. Resubmit => job'.at # "resubmit"
      BY DEF Resubmit, Goto, Typed, Job
    <3> QED BY <1>1, <3>1
  <2> QED BY <1>1, <2>1, <2>2, <2>3, <2>4, <2>5 DEF Typed
<1>2. CASE job' # job
  <2>1. job'.at \in {"cancel", "await", "resubmit"}
    OBVIOUS
  <2>2. \/ CancelOld \/ (Confirmed /\ Remaining # 0)
        \/ (\E q \in Qtys : StartReplace(q)) /\ job'.at = "cancel"
    BY <1>2, <2>1, JobMoves
  <2>3. CASE CancelOld
    BY <2>1, <2>3, JobMoves DEF CancelOld, Post, Resubmit, Goto, Typed, Job
  <2>4. CASE Confirmed
    BY <2>4 DEF Confirmed, Post, Resubmit
  <2>5. (\E q \in Qtys : StartReplace(q)) => ~confirmed'
    BY DEF StartReplace
  <2> QED BY <2>2, <2>3, <2>4, <2>5
<1> QED BY <1>1, <1>2

\* When a cancel confirms the end of the old leg, its fills are counted.
LEMMA StepEndIsCounted ==
  ASSUME Before, Next, After
  PROVE  EndIsCounted'
<1> USE DEF Before
<1> SUFFICES ASSUME Sure', NEW k \in Legs, Loose(k)' PROVE FALSE
  BY DEF EndIsCounted
<1>1. CASE Sure /\ ~Post /\ ~Resubmit
  <2>1. ~Loose(k)
    BY <1>1 DEF Counted, EndIsCounted
  <2> QED BY <1>1, <2>1, NewOrOld
<1>2. CASE Replacing /\ ~confirmed /\ confirmed' /\ ReadFrame
  <2> DEFINE f == Head(frames)
  <2>1. f \in Queued /\ f \in Frames /\ f.leg \in Legs
    BY <1>2, QueueChanges DEF Frames
  <2>2. f.status = "CANCELED" /\ replacing = f.leg /\ online /\ syncing = "no" /\ frames # <<>>
    BY <1>2 DEF ReadFrame, Signals
  <2>3. Loose(k)
    <3>1. ~Post /\ ~Resubmit
      BY <1>2 DEF Post, Resubmit, Replacing
    <3> QED BY <3>1, NewOrOld
  <2>4. CASE k # replacing
    <3>1. current = replacing /\ current \notin {NoLeg, k}
      BY <1>2, <2>3, <2>4 DEF Counted, RestIsSettled, Shape, Numbered
    <3>2. Settled(current)
      BY <1>2, <2>3, <3>1 DEF Counted, RestIsSettled, Replacing
    <3> QED BY <2>1, <2>2, <3>1, <3>2 DEF Settled, NoCancelFrame
  <2>5. CASE k = replacing
    <3>1. legs[k].st = "canceled"
      BY <2>1, <2>2, <2>5 DEF Shape, Truthful
    <3>2. seen[k] # legs[k].exec
      BY <2>3, <3>1 DEF Loose, Open, OpenStates
    <3>3. PICK g \in Queued : g.leg = k /\ g.fill /\ g.exec = legs[k].exec
      BY <2>2, <3>2 DEF Counted, Explained
    <3>4. PICK j \in 1 .. Len(frames) : g = frames[j]
      BY DEF Queued
    <3>5. frames \in Seq(Frames) /\ Len(frames) \in Nat /\ f = frames[1] /\ 1 \in 1 .. Len(frames)
      BY <2>2 DEF Typed
    <3>6. "CANCELED" \in DeadStates
      BY DEF DeadStates
    <3>7. j = 1
      <4>1. ~(1 < j)
        BY <2>2, <2>5, <3>3, <3>4, <3>5, <3>6 DEF Lined, FramesEnd
      <4> QED BY <3>5, <4>1
    <3>8. g = f
      BY <3>4, <3>5, <3>7
    \* the frame of a cancel is no fill, and counts as one only if it is new
    <3>9. seen'[k] = legs[k].exec
      <4>1. NewFill(f) \/ ~(f.exec > seen[k])
        BY <2>2, <2>5, <3>3, <3>8 DEF NewFill
      <4>2. seen[k] \in Nat /\ legs[k].exec \in Nat /\ seen[k] <= legs[k].exec /\ f.exec = legs[k].exec
        BY <3>3, <3>8 DEF Typed, Leg, Books, ReadIsTraded
      <4>3. NewFill(f)
        BY <3>2, <4>1, <4>2
      <4>4. seen' = [seen EXCEPT ![f.leg] = f.exec]
        BY <1>2, <4>3 DEF ReadFrame
      <4> HIDE DEF f
      <4> QED BY <2>2, <2>5, <4>2, <4>4 DEF Typed
    <3>10. legs' = legs
      BY <1>2 DEF ReadFrame, broker
    <3> QED BY <3>1, <3>9, <3>10 DEF Loose, Open, OpenStates
  <2> QED BY <2>4, <2>5
<1>3. CASE Replacing /\ ~confirmed /\ confirmed' /\ ApplySnapshot
  <2> DEFINE rows == snapshot
             c == CurrentLeg(rows)
             st == Status(rows[c])
  <2>1. Loose(k)
    <3>1. ~Post /\ ~Resubmit
      BY <1>3 DEF Post, Resubmit, Replacing
    <3> QED BY <3>1, NewOrOld
  <2>2. /\ c \in Legs /\ Listed(c) /\ (lastKnown # st \/ rows[c].exec > seen[c])
        /\ st = "CANCELED" /\ replacing = c
        /\ \A l \in Legs : Listed(l) => seen'[l] >= rows[l].exec
        /\ legs' = legs
    BY <1>3, ListFacts DEF Typed
  <2> HIDE DEF c
  <2>3. c \in Legs /\ Listed(c) /\ rows[c] \in Leg
    BY <1>3, ListFacts DEF Typed, c
  <2>4. rows[c].st = "canceled"
    BY <2>2, <2>3, StatusOfLeg
  <2>5. rows[c] = legs[c]
    BY <2>3, <2>4 DEF Shape, Truthful, OpenRow, OpenStates
  <2>6. CASE k # c
    <3>1. current = c /\ current \notin {NoLeg, k}
      BY <1>3, <2>1, <2>2, <2>6 DEF Counted, RestIsSettled, Shape, Numbered
    <3>2. Settled(c)
      BY <1>3, <2>1, <3>1 DEF Counted, RestIsSettled, Replacing
    <3>3. lastKnown = st /\ seen[c] >= rows[c].exec
      BY <2>5, <3>2 DEF Settled
    <3>4. seen[c] \in Nat /\ rows[c].exec \in Nat
      BY <2>3 DEF Typed, Leg
    <3> QED BY <2>2, <3>3, <3>4
  <2>7. CASE k = c
    <3>1. seen'[c] >= legs[c].exec /\ seen'[c] <= legs'[c].exec
      BY <2>2, <2>3, <2>5, CountersHold
    <3>2. seen'[c] \in Nat /\ legs[c].exec \in Nat
      BY <2>3, StepTyped DEF Typed, Leg
    <3>3. legs'[c].st = "canceled" /\ seen'[c] = legs'[c].exec
      BY <2>2, <2>4, <2>5, <3>1, <3>2
    <3> QED BY <2>7, <3>3 DEF Loose, Open, OpenStates
  <2> QED BY <2>6, <2>7
<1> QED BY <1>1, <1>2, <1>3, SureSteps

LEMMA SyncSteps ==
  ASSUME Next
  PROVE  \/ UNCHANGED sync
         \/ Connect
         \/ ReadSnapshot
         \/ syncing' = "no"
BY DEF Next, BrokerNext, Fill, Cancels, Expires, Submits, Post, Register, EmitAccepted,
   Replaces, StartReplace, CancelOld, TimesOut, GiveUp, Confirmed, Resubmit, Switch,
   EmitReplaced, EmitDead, StartCancel, CancelRequest, ReadFrame, Drop, ApplySnapshot, Crash,
   PollRead, PollApply, FoldOldest, Boot, stream, sync

LEMMA StepNoNews ==
  ASSUME Before, Next, After
  PROVE  NoNews'
<1> USE DEF Before, sync
<1> SUFFICES ASSUME syncing' # "no", NEW k \in Legs, NEW l \in Legs, Loose(k)', k # l,
                    NEW f \in Queued', f.leg = l, f.status = "CANCELED"
             PROVE  FALSE
  BY DEF NoNews, NoCancelFrame
<1>1. CASE Connect
  <2>1. frames' = <<>>
    BY <1>1 DEF Connect, Shape, Reset
  <2> QED BY <2>1, QueueChanges
<1>2. CASE ~Connect
  <2>1. syncing # "no"
    BY <1>2, SyncSteps DEF ReadSnapshot
  <2>2. CASE Loose(k)
    <3>1. CASE f \in Queued
      BY <2>1, <2>2, <3>1 DEF Counted, NoNews, NoCancelFrame
    <3>2. CASE f \notin Queued
      <4>1. Open(l)
        BY <3>2, NewFrames
      <4> QED BY <2>2, <4>1, OneLatest DEF Counted, LooseIsLatest, Loose
    <3> QED BY <3>1, <3>2
  <2>3. CASE ~Loose(k)
    <3>1. Post \/ Resubmit
      BY <2>3, NewOrOld
    <3>2. f \in Queued
      <4>1. ~Open(l)
        BY <3>1, SubmitFindsNone DEF Loose
      <4> QED BY <4>1, NewFrames
    <3>3. CASE Post
      BY <3>2, <3>3 DEF Post, Shape, Numbered, Truthful
    <3>4. CASE Resubmit
      BY <2>1, <3>2, <3>4 DEF Resubmit, Certain, Sure, NoCancelFrames
    <3> QED BY <3>1, <3>3, <3>4
  <2> QED BY <2>2, <2>3
<1> QED BY <1>1, <1>2

LEMMA StepListHasTheRest ==
  ASSUME Before, Next, After
  PROVE  ListHasTheRest'
<1> USE DEF Before, sync
<1> SUFFICES ASSUME syncing' = "apply", NEW k \in Legs, NEW l \in Legs, Loose(k)', k # l
             PROVE  ~OpenRow(snapshot'[l]) /\ (Known(l)' => snapshot'[l].st # "none")
  BY DEF ListHasTheRest, Listed
<1>1. CASE ReadSnapshot
  <2>1. snapshot' = legs /\ legs' = legs
    BY <1>1 DEF ReadSnapshot
  <2>2. ~Post /\ ~Resubmit
    BY <1>1 DEF ReadSnapshot, Post, Resubmit, Goto, IdleJob, Typed, Job
  <2>3. Loose(k)
    BY <2>2, NewOrOld
  <2>4. ~Open(l)
    BY <2>3, OneLatest DEF Counted, LooseIsLatest, Loose
  <2> QED BY <2>1, <2>4 DEF Open, OpenRow, Known
<1>2. CASE ~ReadSnapshot
  <2>1. syncing = "apply" /\ snapshot' = snapshot
    BY <1>2, SyncSteps DEF Connect
  <2>2. CASE Loose(k) /\ \A j \in Legs : Known(j)' => Known(j)
    BY <2>1, <2>2 DEF Counted, ListHasTheRest, Listed
  <2>3. CASE Post /\ k = 0 /\ \A j \in Legs : Known(j)' => Known(j) \/ j = k
    <3>1. ~Known(l) /\ ~Listed(l)
      BY <2>3 DEF Post, Shape, Numbered, Truthful
    <3> QED BY <2>1, <2>3, <3>1 DEF Listed, OpenRow, OpenStates
  <2>4. CASE Resubmit /\ \A j \in Legs : Known(j)' => Known(j) \/ j = k
    BY <2>1, <2>4 DEF Resubmit, Certain, ListBehind, Sure, Listed
  <2> QED BY <2>2, <2>3, <2>4, NewOrOld
<1> QED BY <1>1, <1>2

LEMMA HeadSteps ==
  ASSUME Next
  PROVE  \/ UNCHANGED <<current, lastKnown>> \/ Register \/ Switch \/ ApplySnapshot \/ Crash
         \/ (PollApply \/ Boot) /\ Restore(polled)
<1>1. CASE PollApply \/ Boot
  BY <1>1 DEF PollApply, Boot, memory
<1>2. CASE ~PollApply /\ ~Boot
  BY <1>2
  DEF Next, BrokerNext, Fill, Cancels, Expires, Submits, Post, EmitAccepted, Replaces,
      StartReplace, CancelOld, TimesOut, GiveUp, Confirmed, Resubmit, EmitReplaced, EmitDead,
      StartCancel, CancelRequest, ReadFrame, Drop, Connect, ReadSnapshot, PollRead, FoldOldest,
      memory
<1> QED BY <1>1, <1>2

\* A poll, and the boot of a process that knows the order, leave the current leg.
LEMMA RestoreSteps ==
  ASSUME Before, After, PollApply \/ Boot, Restore(polled)
  PROVE  /\ UNCHANGED <<legs, frames, online, sync, job, replacing, confirmed, lastKnown>>
         /\ current' = current \/ (job.at = "posted" /\ current' = 0 /\ Polled(0))
<1> USE DEF Before
<1>1. UNCHANGED <<legs, frames, online, sync, job, replacing, confirmed, lastKnown>>
  BY DEF PollApply, Boot, Restore, broker, stream, swap
<1>2. PICK c : c = CurrentLeg(polled)
  OBVIOUS
<1>3. /\ current' = IF c = NoLeg THEN current ELSE c
      /\ c # NoLeg => c \in Legs /\ Polled(c) /\ Known(c)
  BY <1>2, CurrentLegOfRows DEF Restore, Typed, Shape, Truthful, Polled
<1>4. CASE current # NoLeg
  <2>1. CASE PollApply
    <3>1. lost' # lost \cup {"leg"}
      BY DEF After
    <3> QED BY <1>1, <1>4, <2>1, <3>1 DEF PollApply
  <2>2. CASE Boot
    <3>1. Present(polled) = Present(legs) \/ memory' = memory
      BY <2>2 DEF Boot
    <3>2. current \in Present(legs)
      BY <1>4 DEF Lined, CurrentIsKnown, Known, Present, Typed, Maybe
    <3>3. CASE Present(polled) = Present(legs)
      BY <1>1, <1>2, <1>3, <3>2, <3>3, CurrentLegOfRows DEF Typed
    <3>4. CASE memory' = memory
      BY <1>1, <3>4 DEF memory
    <3> QED BY <1>1, <3>1, <3>3, <3>4
  <2> QED BY <1>1, <2>1, <2>2
<1>5. CASE current = NoLeg
  <2>1. job.at \in {"post", "posted"}
    BY <1>5 DEF Blank, Shape, Numbered
  <2>2. CASE job.at = "post"
    BY <1>1, <1>3, <1>5, <2>2 DEF Shape, Numbered
  <2>3. CASE job.at = "posted"
    BY <1>1, <1>3, <1>5, <2>3 DEF Lined, Landed
  <2> QED BY <2>1, <2>2, <2>3
<1> QED BY <1>4, <1>5

LEMMA ReplacingSteps ==
  ASSUME Typed, Next, Replacing'
  PROVE  \/ Replacing /\ replacing' = replacing
         \/ \E q \in Qtys : StartReplace(q)
<1> USE DEF Replacing
<1>1. CASE job' = job
  <2>1. ~GiveUp /\ ~Switch /\ ~Confirmed /\ ~Crash /\ ~(\E q \in Qtys : StartReplace(q))
    <3>1. Confirmed => job'.at \in {"dead", "resubmit"}
      BY DEF Confirmed, Goto, Typed, Job
    <3>2. Crash => job'.at = "idle"
      BY DEF Crash, IdleJob
    <3> QED BY <1>1, <3>1, <3>2 DEF GiveUp, Switch, StartReplace
  <2>2. replacing' = replacing
    BY <2>1 DEF Next, BrokerNext, Fill, Cancels, Expires, Submits, Post, Register, EmitAccepted,
       Replaces, CancelOld, TimesOut, Resubmit, EmitReplaced, EmitDead, StartCancel,
       CancelRequest, ReadFrame, Drop, Connect, ReadSnapshot, ApplySnapshot, PollRead, PollApply,
       FoldOldest, Boot, swap
  <2> QED BY <1>1, <2>2
<1>2. CASE job' # job
  <2>1. CancelOld \/ \E q \in Qtys : StartReplace(q)
    BY <1>2, JobMoves
  <2> QED BY <2>1 DEF CancelOld, swap
<1> QED BY <1>1, <1>2

\* A leg that is wrongly believed current stays settled.
LEMMA SettledStays ==
  ASSUME Before, Next, After, NEW c \in Legs, Settled(c), ~Open(c), UNCHANGED lastKnown
  PROVE  Settled(c)'
<1> USE DEF Before
<1>1. Known(c)' /\ legs'[c] = legs[c]
  BY EndsAreFinal DEF Settled
<1>2. NoCancelFrame(c)'
  BY NewFrames DEF Settled, NoCancelFrame
<1>3. seen'[c] >= legs[c].exec
  <2>1. seen[c] >= legs[c].exec /\ seen[c] <= seen'[c]
    <3>1. ~Crash
      BY AfterIsNoCrash
    <3> QED BY <3>1, CountersHold DEF Settled
  <2>2. Typed'
    BY StepTyped
  <2>3. seen[c] \in Nat /\ seen'[c] \in Nat /\ legs[c].exec \in Nat
    BY <2>2 DEF Typed, Leg
  <2> QED BY <2>1, <2>3
<1> QED BY <1>1, <1>2, <1>3 DEF Settled, Known

\* A leg that was refused has nothing to be heard of.
LEMMA RefusedIsNotLoose ==
  ASSUME Before, Next, After, NEW k \in Legs, Loose(k)', ~Loose(k), job'.at # "resubmitted"
  PROVE  Post
<1> USE DEF Before
<1> SUFFICES ASSUME ~Post PROVE FALSE
  OBVIOUS
<1>1. Resubmit /\ k = job.leg
  BY NewOrOld
<1>2. job' # [job EXCEPT !.at = "resubmitted"]
  BY DEF Typed, Job
<1>3. Refused(k, job.qty)
  BY <1>1, <1>2 DEF Resubmit, Goto, Unanswered, After
<1>4. legs'[k].st = "rejected"
  BY <1>3 DEF Refused, Push, Typed
<1>5. legs'[k].exec = 0
  BY <1>4, LegsGrow DEF Fits
<1>6. seen'[k] \in Nat /\ seen'[k] <= 0
  BY <1>5, CountersHold, StepTyped DEF Typed
<1> QED BY <1>4, <1>5, <1>6 DEF Loose, Open, OpenStates

LEMMA StepRestIsSettled ==
  ASSUME Before, Next, After
  PROVE  RestIsSettled'
<1> USE DEF Before
<1>0. ~Crash
  BY AfterIsNoCrash
<1>1. ASSUME NEW k \in Legs, Loose(k)', current' \notin {NoLeg, k}, job'.at # "resubmitted"
      PROVE  Settled(current)'
  <2>1. CASE UNCHANGED <<current, lastKnown>> /\ ~Switch
    <3>1. CASE Loose(k)
      <4>1. job.at # "resubmitted"
        BY <1>0, <1>1, <2>1, JobMoves DEF Post, Register, EmitAccepted, StartReplace, CancelOld,
           TimesOut, GiveUp, Confirmed, Resubmit, EmitReplaced, EmitDead
      <4>2. Settled(current) /\ current # k /\ current \in Legs
        BY <1>1, <2>1, <3>1, <4>1 DEF Counted, RestIsSettled, Typed, Maybe
      <4>3. PICK c \in Legs : c = current
        BY <4>2
      <4>4. ~Open(c) /\ Settled(c)
        BY <3>1, <4>2, <4>3, OneLatest DEF Counted, LooseIsLatest, Loose
      <4>5. Settled(c)'
        BY <2>1, <4>4, SettledStays
      <4>6. c = current'
        BY <2>1, <4>3
      <4> QED BY <4>5, <4>6 DEF Settled, Known, NoCancelFrame
    <3>2. CASE ~Loose(k)
      <4>1. Post
        BY <1>1, <3>2, RefusedIsNotLoose
      <4> QED BY <1>1, <2>1, <4>1 DEF Post, Shape, Numbered
    <3> QED BY <3>1, <3>2
  <2>2. CASE Register \/ Switch
    <3>1. Latest(k)
      <4>1. ~Post /\ ~Resubmit
        BY <2>2 DEF Register, Switch, Post, Resubmit
      <4> QED BY <1>1, <4>1, NewOrOld DEF Counted, LooseIsLatest
    <3>2. CASE Register
      BY <1>1, <3>1, <3>2 DEF Register, Lined, Landed, Latest
    <3>3. CASE Switch
      <4>1. current' = job.leg /\ Known(job.leg) /\ job.leg = seq /\ seq \in Legs /\ k <= seq
        BY <3>1, <3>3 DEF Switch, Lined, Landed, Shape, Numbered, Typed, Latest
      <4>2. seq <= k
        BY <3>1, <4>1 DEF Latest
      <4>3. seq \in Nat /\ k \in Nat
        BY <4>1, TZAssumption DEF Legs
      <4> QED BY <1>1, <4>1, <4>2, <4>3
    <3> QED BY <2>2, <3>2, <3>3
  <2>3. CASE ApplySnapshot /\ ~UNCHANGED <<current, lastKnown>>
    <3> DEFINE r == CurrentLeg(snapshot)
    <3>1. PICK c : c = r
      OBVIOUS
    <3>2. /\ UNCHANGED <<legs, frames, job>> /\ syncing = "apply"
          /\ c = NoLeg => UNCHANGED <<current, lastKnown>>
          /\ c # NoLeg => /\ c \in Legs /\ Listed(c) /\ current' = c
                          /\ lastKnown' = Status(snapshot[c])
          /\ \A l \in Legs : Listed(l) => seen'[l] >= snapshot[l].exec
      BY <2>3, <3>1, ListFacts
    <3>3. c # NoLeg
      BY <2>3, <3>2
    <3>4. c # k /\ c \in Legs /\ Listed(c)
      BY <1>1, <3>2, <3>3
    <3>5. Loose(k)
      <4>1. ~Post /\ ~Resubmit
        BY <2>3, <3>2 DEF ApplySnapshot, Post, Resubmit, Goto, IdleJob, Typed, Job
      <4> QED BY <1>1, <4>1, NewOrOld
    <3>6. ~OpenRow(snapshot[c]) /\ NoCancelFrame(c)
      BY <3>2, <3>4, <3>5 DEF Counted, ListHasTheRest, NoNews
    <3>7. snapshot[c] = legs[c] /\ Known(c)
      BY <3>4, <3>6 DEF Shape, Truthful
    <3>8. NoCancelFrame(c)' /\ Known(c)' /\ lastKnown' = Status(legs'[c]) /\ seen'[c] >= legs'[c].exec
      BY <3>2, <3>3, <3>4, <3>6, <3>7 DEF NoCancelFrame, Queued, Known
    <3> QED BY <3>2, <3>3, <3>8 DEF Settled, Known, NoCancelFrame
  <2>4. CASE (PollApply \/ Boot) /\ Restore(polled) /\ current' # current
    <3>1. job.at = "posted" /\ current' = 0
      BY <2>4, RestoreSteps
    <3>2. Loose(k)
      <4>1. ~Post /\ ~Resubmit
        BY <3>1 DEF Post, Resubmit
      <4> QED BY <1>1, <4>1, NewOrOld
    <3>3. k = 0
      BY <3>1, <3>2 DEF Counted, LooseIsLatest, Latest, Lined, Landed
    <3> QED BY <1>1, <3>1, <3>3
  <2>5. CASE (PollApply \/ Boot) /\ Restore(polled) /\ current' = current
    <3>1. ~Switch /\ UNCHANGED lastKnown
      BY <2>5, RestoreSteps DEF Switch, Restore, Goto, Typed, Job
    <3> QED BY <2>1, <2>5, <3>1
  <2> QED BY <1>0, <2>1, <2>2, <2>3, <2>4, <2>5, HeadSteps
<1>2. ASSUME NEW k \in Legs, Loose(k)', Replacing', replacing' # k PROVE current' = replacing'
  <2>1. CASE \E q \in Qtys : StartReplace(q)
    BY <2>1 DEF StartReplace, Target, Shape, Numbered, memory
  <2>2. CASE Replacing /\ replacing' = replacing
    <3>1. Loose(k) /\ current = replacing
      <4>1. ~Post /\ ~Resubmit
        BY <2>2 DEF Post, Resubmit, Replacing
      <4> QED BY <1>2, <2>2, <4>1, NewOrOld DEF Counted, RestIsSettled
    <3>2. ~Register /\ ~Switch
      BY <2>2 DEF Register, Switch, Replacing
    <3>3. CASE ApplySnapshot
      <4>1. current # NoLeg /\ current # k /\ current \in Legs
        BY <1>2, <2>2, <3>1 DEF Shape, Numbered, Typed, Maybe
      <4>2. Settled(current) /\ syncing = "apply"
        BY <2>2, <3>1, <3>3, <4>1 DEF Counted, RestIsSettled, Replacing, ApplySnapshot
      <4>3. Listed(current)
        BY <3>1, <4>1, <4>2 DEF Counted, ListHasTheRest, Settled
      <4>4. CurrentLeg(snapshot) = current
        BY <3>3, <4>1, <4>3, ListFacts
      <4>5. PICK c : c = CurrentLeg(snapshot)
        OBVIOUS
      <4>6. current' = c
        BY <3>3, <4>1, <4>4, <4>5, ListFacts
      <4> QED BY <2>2, <3>1, <4>4, <4>5, <4>6
    <3>4. CASE (PollApply \/ Boot) /\ Restore(polled)
      <4>1. job.at # "posted"
        BY <2>2 DEF Replacing
      <4> QED BY <2>2, <3>1, <3>4, <4>1, RestoreSteps
    <3> QED BY <1>0, <2>2, <3>1, <3>2, <3>3, <3>4, HeadSteps
  <2> QED BY <1>2, <2>1, <2>2, ReplacingSteps
<1> QED BY <1>1, <1>2 DEF RestIsSettled

\* A fill that is not counted yet will be heard of.
LEMMA StepExplained ==
  ASSUME Before, Next, After
  PROVE  Explained'
<1> USE DEF Before, sync
<1> SUFFICES ASSUME online', syncing' # "ask", NEW l \in Legs, seen'[l] # legs'[l].exec
             PROVE  \/ syncing' = "apply" /\ snapshot'[l].exec = legs'[l].exec
                    \/ \E f \in Queued' : f.leg = l /\ f.fill /\ f.exec = legs'[l].exec
  BY DEF Explained
<1>1. ~Drop /\ ~Crash /\ ~Connect
  BY AfterIsNoCrash DEF Drop, Connect
<1>2. Typed' /\ seen'[l] <= legs'[l].exec /\ seen[l] <= seen'[l]
  BY <1>1, StepTyped, CountersHold
<1>3. /\ seen[l] \in Nat /\ seen'[l] \in Nat /\ legs[l].exec \in Nat /\ legs'[l].exec \in Nat
      /\ snapshot[l].exec \in Nat /\ frames \in Seq(Frames)
  BY <1>2 DEF Typed, Leg
<1>4. CASE ReadSnapshot
  BY <1>4 DEF ReadSnapshot, After
<1>5. CASE ApplySnapshot
  <2>1. /\ UNCHANGED <<legs, frames, online>> /\ syncing = "apply"
        /\ Listed(l) => seen'[l] >= snapshot[l].exec
    BY <1>5, ListFacts
  <2>2. seen'[l] >= snapshot[l].exec
    BY <1>3, <2>1 DEF Lined, EmptyRows
  <2>3. seen[l] # legs[l].exec /\ snapshot[l].exec # legs[l].exec
    BY <1>2, <1>3, <2>1, <2>2
  <2>4. \E f \in Queued : f.leg = l /\ f.fill /\ f.exec = legs[l].exec
    BY <2>1, <2>3 DEF Counted, Explained
  <2> QED BY <2>1, <2>4 DEF Queued
<1>6. CASE ReadFrame
  <2> DEFINE g == Head(frames)
  <2>1. UNCHANGED <<legs, online>> /\ online /\ syncing = "no"
    BY <1>6 DEF ReadFrame, broker
  <2>2. seen[l] # legs[l].exec
    BY <1>2, <1>3, <2>1
  <2>3. PICK f \in Queued : f.leg = l /\ f.fill /\ f.exec = legs[l].exec
    BY <2>1, <2>2 DEF Counted, Explained
  <2>4. CASE f \in Queued'
    BY <2>1, <2>3, <2>4
  <2>5. CASE f = g
    <3>1. seen[l] <= legs[l].exec
      BY DEF Books, ReadIsTraded
    <3>2. NewFill(g)
      BY <1>3, <2>2, <2>3, <2>5, <3>1 DEF NewFill
    <3>3. seen' = [seen EXCEPT ![g.leg] = g.exec]
      BY <1>6, <3>2 DEF ReadFrame
    <3> HIDE DEF g
    <3>4. seen'[l] = legs[l].exec
      BY <2>3, <2>5, <3>3 DEF Typed
    <3> QED BY <2>1, <3>4
  <2> QED BY <1>6, <2>4, <2>5, QueueKeeps
<1>7. CASE ~ReadSnapshot /\ ~ApplySnapshot /\ ~ReadFrame
  <2>1. UNCHANGED <<online, sync>>
    BY <1>1, <1>7, StreamSteps
  <2>2. Queued \subseteq Queued'
    BY <1>1, <1>7, <2>1, StreamSteps, QueueChanges, QueueKeeps
  <2>3. CASE legs'[l].exec = legs[l].exec
    <3>1. seen[l] # legs[l].exec
      BY <1>2, <1>3, <2>3
    <3>2. \/ syncing = "apply" /\ snapshot[l].exec = legs[l].exec
          \/ \E f \in Queued : f.leg = l /\ f.fill /\ f.exec = legs[l].exec
      BY <2>1, <3>1 DEF Counted, Explained
    <3> QED BY <2>1, <2>2, <2>3, <3>2
  <2>4. CASE legs'[l].exec # legs[l].exec
    BY <1>1, <2>1, <2>4, FillIsPushed
  <2> QED BY <2>3, <2>4
<1> QED BY <1>4, <1>5, <1>6, <1>7

\* While no answer and no list is lost, every fill is counted in time.
LEMMA StepCounted ==
  ASSUME Before, Next, After
  PROVE  Counted'
BY StepLooseIsLatest, StepEndIsCounted, StepNoNews, StepListHasTheRest, StepRestIsSettled,
   StepExplained DEF Counted

-----------------------------------------------------------------------------
(* The size asked for bounds what may fill *)

\* what a leg may add to the order: the newest fills up, the others are done
Weights == [l \in Legs |-> IF Latest(l) /\ legs[l].st # "rejected" THEN legs[l].qty
                           ELSE legs[l].exec]
Within == reqQty > 0 /\ job.at # "resubmit" => Executed(Weights) <= reqQty
Refill == job.at = "resubmit" => Executed(Booked) + job.qty <= reqQty
\* before the order has a size at the adapter there is at most a refused leg
Unsized == reqQty = 0 /\ job.at # "posted" =>
             \A l \in Legs : Known(l) => l = 0 /\ legs[l].st = "rejected"
Sized == Within /\ Refill /\ Unsized

\* Of an order with one leg.
LEMMA ExecutedOfOne ==
  ASSUME NEW s \in [Legs -> Nat], \A l \in Legs : l # 0 => s[l] = 0
  PROVE  Executed(s) = s[0] /\ s[0] \in Nat
<1>1. 0 \in Legs /\ {0} \in SUBSET Legs
  BY TZAssumption DEF Legs
<1>0. (\A l \in Legs : s[l] \in Int) /\ \A l \in Legs \ {0} : s[l] = 0
  OBVIOUS
<1>2. SumFunctionOnSet(s, Legs) = SumFunctionOnSet(s, {0})
  BY <1>0, <1>1, LegsAreFinite, SumOfPart
<1>3. SumFunctionOnSet(s, {0}) = s[0] + SumFunctionOnSet(s, {0} \ {0})
  <2>1. IsFiniteSet({0}) /\ 0 \in {0} /\ \A x \in {0} : s[x] \in Int
    BY <1>0, <1>1, FS_Singleton
  <2> QED BY <2>1, SumTakes
<1>4. {0} \ {0} = {}
  OBVIOUS
<1>5. SumFunctionOnSet(s, {0}) = s[0] + 0
  BY <1>3, <1>4, SumEmpty
<1> QED BY <1>1, <1>2, <1>5 DEF Executed

LEMMA WeightsNat ==
  ASSUME Typed
  PROVE  Weights \in [Legs -> Nat] /\ Booked \in [Legs -> Nat]
BY DEF Typed, Leg, Weights, Booked

-----------------------------------------------------------------------------
(* A process that does not know the order reads it in a list *)

\* The newest leg stands for the order, unless it was refused.
LEMMA RowsTakeTheLatest ==
  ASSUME NEW rows \in [Legs -> Leg], current = NoLeg, NEW m \in Legs,
         rows[m].st \notin {"none", "rejected"},
         \A l \in Legs : rows[l].st # "none" => l <= m,
         \A l \in Legs : OpenRow(rows[l]) => l = m
  PROVE  CurrentLeg(rows) = m
<1> DEFINE P == Present(rows)
           Best == {l \in P : \A k \in P : Tier(rows[k]) <= Tier(rows[l])}
<1>1. P \subseteq Legs /\ IsFiniteSet(P) /\ Cardinality(P) \in Nat
  BY PresentIsFinite
<1>2. m \in P /\ \A k \in P : k <= m
  BY DEF Present
<1>3. CASE Cardinality(P) = 1
  <2>1. P = {m}
    BY <1>1, <1>2, <1>3, FS_Singleton
  <2> QED BY <1>3, <2>1 DEF CurrentLeg
<1>4. CASE Cardinality(P) # 1
  <2>1. CurrentLeg(rows) = Max(Best)
    BY <1>2, <1>4 DEF CurrentLeg, ColdStartLeg
  <2>2. ASSUME NEW k \in P PROVE Tier(rows[k]) <= Tier(rows[m])
    <3>1. Tier(rows[k]) = 2 => k = m
      BY <1>1 DEF Tier
    <3>2. Tier(rows[k]) \in {0, 1, 2} /\ Tier(rows[m]) \in {1, 2}
      BY DEF Tier
    <3> QED BY <3>1, <3>2
  <2>3. m \in Best /\ Best \subseteq P
    BY <1>2, <2>2
  <2>4. Max(Best) \in Best /\ m <= Max(Best)
    BY <1>1, <2>3, MaxIsIn
  <2>5. Max(Best) \in P /\ Max(Best) <= m
    BY <1>2, <2>3, <2>4
  <2>6. Max(Best) \in Nat /\ m \in Nat
    BY <1>1, <2>5, TZAssumption DEF Legs
  <2> HIDE DEF Best
  <2>7. m = Max(Best)
    BY <2>4, <2>5, <2>6
  <2> QED BY <2>1, <2>7
<1> QED BY <1>3, <1>4

\* the state it starts from
Entering == /\ Typed /\ Recorded /\ Shape /\ Books /\ Lined /\ Certain
            /\ Blank /\ lost \subseteq {"push"}
\* the list it reads, and what it makes of it
Adopts(rows, c, s) ==
  /\ rows \in {snapshot, polled} /\ rows \in [Legs -> Leg]
  /\ c \in Legs /\ c = CurrentLeg(rows) /\ rows[c].st # "none" /\ current' = c
  /\ s = Restored(rows, c, TRUE) \/ s = Restored(rows, c, FALSE)
  /\ reqQty' = RestoredQty(rows, c, s)
  /\ \A l \in Legs : rows[l].st # "none" => seen'[l] >= rows[l].exec

LEMMA EnterSteps ==
  ASSUME Entering, Next, After
  PROVE  /\ UNCHANGED <<legs, frames, online, job>> /\ job.at = "idle"
         /\ current = NoLeg /\ reqQty = 0
         /\ \E rows, c, s : Adopts(rows, c, s)
         /\ ApplySnapshot \/ UNCHANGED sync
<1> USE DEF Entering
<1>1. job.at = "idle" /\ current = NoLeg /\ reqQty = 0
  BY DEF Blank, Shape, Numbered
<1>2. ~Submits /\ ~Replaces /\ ~Crash
  BY <1>1, AfterIsNoCrash DEF Submits, Post, Register, EmitAccepted, Replaces, StartReplace,
     CancelOld, TimesOut, GiveUp, Confirmed, Resubmit, Switch, EmitReplaced, EmitDead
<1>3. job' = job
  BY <1>2 DEF Next, BrokerNext, Fill, Cancels, Expires, StartCancel, CancelRequest,
     ReadFrame, Drop, Connect, ReadSnapshot, ApplySnapshot, PollRead, PollApply, FoldOldest, Boot
<1>4. current' # current
  BY <1>1, <1>3 DEF After, Blank
<1>5. ApplySnapshot \/ ((PollApply \/ Boot) /\ Restore(polled))
  BY <1>2, <1>4, HeadSteps DEF Submits, Replaces
<1>6. CASE ApplySnapshot
  <2> DEFINE c == CurrentLeg(snapshot)
  <2>1. c # NoLeg
    BY <1>4, <1>6 DEF ApplySnapshot
  <2>2. Adopts(snapshot, c, Restored(snapshot, c, TRUE))
    <3>1. /\ current' = c /\ c \in Legs /\ snapshot[c].st # "none"
          /\ \A l \in Legs : snapshot[l].st # "none" => seen'[l] >= snapshot[l].exec
      BY <1>6, <2>1, ListFacts DEF Listed
    <3>2. reqQty' = RestoredQty(snapshot, c, Restored(snapshot, c, TRUE))
      BY <1>6, <2>1 DEF ApplySnapshot
    <3> HIDE DEF c
    <3> QED BY <3>1, <3>2 DEF Adopts, Typed, c
  <2> QED BY <1>1, <1>3, <1>6, <2>2 DEF ApplySnapshot, broker
<1>7. CASE (PollApply \/ Boot) /\ Restore(polled)
  <2> DEFINE c == CurrentLeg(polled)
             s == Restored(polled, c, FALSE)
  <2>1. c # NoLeg /\ current' = c /\ reqQty' = RestoredQty(polled, c, s) /\ seen' = s
    BY <1>4, <1>7 DEF Restore
  <2>2. c \in Legs /\ polled[c].st # "none"
    BY <2>1, CurrentLegOfRows DEF Typed
  <2>3. \A l \in Legs : polled[l].st # "none" => s[l] >= polled[l].exec
    <3>1. \A l \in Legs : polled[l].exec \in Nat /\ seen[l] \in Nat
      BY DEF Typed, Leg
    <3> QED BY <3>1 DEF Restored, Larger
  <2>4. UNCHANGED <<legs, frames, online, sync>>
    BY <1>7 DEF PollApply, Boot, broker, stream
  <2>5. Adopts(polled, c, s)
    BY <2>1, <2>2, <2>3 DEF Adopts, Typed
  <2> QED BY <1>1, <1>3, <2>4, <2>5
<1> QED BY <1>5, <1>6, <1>7

\* The list tells the truth of all legs but of the newest, which has moved on.
LEMMA EnterFacts ==
  ASSUME Entering, Next, After, NEW rows, NEW c, NEW s, Adopts(rows, c, s)
  PROVE  /\ \A l \in Legs : Known(l) <=> rows[l].st # "none"
         /\ \A l \in Legs : Known(l) => rows[l].qty = legs[l].qty
         /\ \A l \in Legs : OpenRow(rows[l]) => Latest(l)
         /\ \A l \in Legs : ~OpenRow(rows[l]) => rows[l].exec = legs[l].exec /\ seen'[l] = legs[l].exec
         /\ \A l \in Legs : ~OpenRow(rows[l]) /\ Known(l) => rows[l] = legs[l]
         /\ \A l \in Legs : Latest(l) /\ legs[l].st # "rejected" => l = c
<1> USE DEF Entering
<1>1. rows \in [Legs -> Leg] /\ c \in Legs /\ rows[c].st # "none" /\ c = CurrentLeg(rows)
      /\ \A l \in Legs : rows[l].st # "none" => seen'[l] >= rows[l].exec
  BY DEF Adopts
<1>2. rows = snapshot \/ rows = polled
  BY DEF Adopts
<1>3. Still /\ Sound
  BY DEF Still, Sound
<1>4. \A l \in Legs : Known(l) <=> rows[l].st # "none"
  BY <1>1, <1>2, <1>3 DEF Shape, AllOrNone, Truthful, Listed, Polled
<1>5. \A l \in Legs : Known(l) => rows[l].qty = legs[l].qty
  BY <1>2, <1>4 DEF Books, ReadIsTraded, Listed, Polled
<1>6. \A l \in Legs : OpenRow(rows[l]) => Latest(l)
  BY <1>2, <1>3 DEF Lined, NewsOfTheLatest
<1>7. \A l \in Legs : ~OpenRow(rows[l]) /\ Known(l) => rows[l] = legs[l]
  BY <1>2, <1>4 DEF Shape, Truthful, Listed, Polled
<1>8. ASSUME NEW l \in Legs, ~OpenRow(rows[l])
      PROVE  rows[l].exec = legs[l].exec /\ seen'[l] = legs[l].exec
  <2>1. seen'[l] <= legs'[l].exec /\ seen'[l] \in Nat /\ legs' = legs
    BY CountersHold, EnterSteps, StepTyped DEF Typed
  <2>2. legs[l].exec \in Nat
    BY DEF Typed, Leg
  <2>3. CASE Known(l)
    BY <1>1, <1>4, <1>7, <1>8, <2>1, <2>2, <2>3
  <2>4. CASE ~Known(l)
    <3>1. legs[l].exec = 0
      BY <2>4 DEF Books, Fits, Known
    <3>2. rows[l].exec = 0
      BY <1>2, <1>4, <2>4 DEF Lined, EmptyRows, Listed, Polled
    <3> QED BY <2>1, <3>1, <3>2
  <2> QED BY <2>3, <2>4
<1>9. ASSUME NEW m \in Legs, Latest(m), legs[m].st # "rejected" PROVE m = c
  <2>1. rows[m].st \notin {"none", "rejected"}
    BY <1>4, <1>7, <1>9 DEF Latest, OpenRow, OpenStates
  <2>2. \A l \in Legs : rows[l].st # "none" => l <= m
    BY <1>4, <1>9 DEF Latest
  <2>3. \A l \in Legs : OpenRow(rows[l]) => l = m
    BY <1>6, <1>9, OneLatest
  <2>4. current = NoLeg
    BY DEF Blank
  <2> QED BY <1>1, <2>1, <2>2, <2>3, <2>4, RowsTakeTheLatest
<1> QED BY <1>4, <1>5, <1>6, <1>7, <1>8, <1>9

LEMMA EnterCounts ==
  ASSUME Entering, Next, After
  PROVE  Counted'
<1> USE DEF Entering
<1>1. PICK rows, c, s : Adopts(rows, c, s)
  BY EnterSteps
<1>2. /\ UNCHANGED <<legs, frames, online, job>> /\ job.at = "idle"
      /\ ApplySnapshot \/ UNCHANGED sync
  BY EnterSteps
<1>3. \A l \in Legs : Known(l)' <=> Known(l)
  BY <1>2 DEF Known
<1>4. \A l \in Legs : Latest(l)' <=> Latest(l)
  BY <1>3 DEF Latest
<1>5. ASSUME NEW l \in Legs, Loose(l)' PROVE Latest(l) /\ l = c /\ legs[l].st # "rejected"
  <2>1. OpenRow(rows[l])
    <3> SUFFICES ASSUME ~OpenRow(rows[l]) PROVE FALSE
      OBVIOUS
    <3>1. seen'[l] = legs[l].exec
      BY <1>1, EnterFacts
    <3>2. Open(l)
      BY <1>2, <1>5, <3>1 DEF Loose, Open
    <3>3. rows[l] = legs[l]
      BY <1>1, <3>2, EnterFacts DEF Open, OpenStates, Known
    <3> QED BY <3>2, <3>3 DEF Open, OpenRow
  <2>2. Latest(l)
    BY <1>1, <2>1, EnterFacts
  <2>3. legs[l].st # "rejected"
    <3> SUFFICES ASSUME legs[l].st = "rejected" PROVE FALSE
      OBVIOUS
    <3>1. legs[l].exec = 0
      BY DEF Books, Fits
    <3>2. seen'[l] \in Nat /\ seen'[l] <= 0
      BY <1>2, <3>1, CountersHold, StepTyped DEF Typed
    <3> QED BY <1>2, <1>5, <3>1, <3>2 DEF Loose, Open, OpenStates
  <2> QED BY <1>1, <2>2, <2>3, EnterFacts
<1>6. LooseIsLatest'
  BY <1>4, <1>5 DEF LooseIsLatest
<1>7. ~Sure' /\ ~Replacing'
  BY <1>2 DEF Sure, Replacing
<1>8. NoNews'
  <2>1. \A f \in Queued' : Latest(f.leg)
    BY <1>2 DEF Queued, Lined, NewsOfTheLatest, Still, Sound
  <2>2. \A f \in Queued' : f.leg \in Legs
    BY <1>2, QueueChanges DEF Queued, Frames
  <2> QED BY <1>5, <2>1, <2>2, OneLatest DEF NoNews, NoCancelFrame
<1>9. RestIsSettled'
  BY <1>1, <1>5, <1>7 DEF RestIsSettled, Adopts
<1>10. ASSUME syncing' = "apply", NEW k \in Legs, Loose(k)'
       PROVE  syncing = "apply" /\ snapshot' = snapshot /\ \A l \in Legs : Known(l) => Listed(l)
  <2>1. syncing = "apply" /\ snapshot' = snapshot
    BY <1>2, <1>10 DEF ApplySnapshot, sync
  <2>2. ~Unused
    BY <1>5, <1>10 DEF Unused, Latest
  <2>3. \E l \in Legs : Listed(l)
    BY <2>1, <2>2 DEF Lined, BlankIsUnused, Shape, Reset
  <2> QED BY <2>1, <2>3 DEF Shape, AllOrNone, Still
<1>11. ListHasTheRest'
  <2> SUFFICES ASSUME syncing' = "apply", NEW k \in Legs, NEW l \in Legs, Loose(k)', k # l
               PROVE  ~OpenRow(snapshot'[l]) /\ (Known(l)' => snapshot'[l].st # "none")
    BY DEF ListHasTheRest, Listed
  <2>1. snapshot' = snapshot /\ \A j \in Legs : Known(j) => Listed(j)
    BY <1>10
  <2>2. OpenRow(snapshot[l]) => Latest(l)
    BY DEF Lined, NewsOfTheLatest, Still, Sound
  <2> QED BY <1>3, <1>5, <2>1, <2>2, OneLatest DEF Listed
<1>12. Explained'
  <2> SUFFICES ASSUME online', syncing' # "ask", NEW l \in Legs, seen'[l] # legs'[l].exec
               PROVE  \/ syncing' = "apply" /\ snapshot'[l].exec = legs'[l].exec
                      \/ \E f \in Queued' : f.leg = l /\ f.fill /\ f.exec = legs'[l].exec
    BY DEF Explained
  <2>1. Loose(l)'
    BY DEF Loose
  <2>2. ~Unused
    BY <1>5, <2>1 DEF Unused, Latest
  <2>3. syncing = "apply"
    BY <1>2, <2>2 DEF Lined, BlankIsUnused, ApplySnapshot, sync
  <2>4. CASE \E f \in Queued : f.leg = l /\ f.fill /\ f.exec = legs[l].exec
    BY <1>2, <2>4 DEF Queued
  <2>5. CASE snapshot[l].exec = legs[l].exec
    <3>1. CASE ApplySnapshot
      <4>1. Listed(l) => seen'[l] >= snapshot[l].exec
        BY <3>1, ListFacts
      <4>2. ~Listed(l) => snapshot[l].exec = 0
        BY DEF Lined, EmptyRows
      <4>3. seen'[l] \in Nat /\ legs[l].exec \in Nat /\ seen'[l] <= legs'[l].exec
        BY CountersHold, StepTyped DEF Typed, Leg
      <4> QED BY <1>2, <2>5, <4>1, <4>2, <4>3
    <3>2. CASE UNCHANGED sync
      BY <1>2, <2>3, <2>5, <3>2 DEF sync
    <3> QED BY <1>2, <3>1, <3>2
  <2> QED BY <2>3, <2>4, <2>5 DEF Lined, ListIsFresh
<1> QED BY <1>6, <1>7, <1>8, <1>9, <1>11, <1>12 DEF Counted, EndIsCounted

\* It finds the size of the order again in the legs.
LEMMA EnterSized ==
  ASSUME Entering, Next, After
  PROVE  Sized'
<1> USE DEF Entering
<1>1. PICK rows, c, s : Adopts(rows, c, s)
  BY EnterSteps
<1>2. UNCHANGED <<legs, job>> /\ job.at = "idle" /\ reqQty = 0 /\ legs \in [Legs -> Leg]
  BY EnterSteps DEF Typed
<1>3. c \in Legs /\ Known(c) /\ rows[c].qty = legs[c].qty
  <2>1. c \in Legs /\ rows[c].st # "none"
    BY <1>1 DEF Adopts
  <2> QED BY <1>1, <2>1, EnterFacts
<1>4. \A l \in Legs : legs[l].exec \in Nat /\ legs[l].qty \in Nat /\ rows[l].exec \in Nat
  BY <1>1, <1>2 DEF Leg, Adopts
<1>5. ASSUME NEW l \in Legs, l # c PROVE s[l] = legs[l].exec /\ Weights[l] = legs[l].exec
  <2>1. ~(Latest(l) /\ legs[l].st # "rejected")
    BY <1>1, <1>5, EnterFacts
  <2>2. rows[l].exec = legs[l].exec
    <3>1. CASE OpenRow(rows[l])
      <4>1. Latest(l) /\ legs[l].st = "rejected"
        BY <1>1, <2>1, <3>1, EnterFacts
      <4>2. rows[l].exec <= legs[l].exec /\ legs[l].exec = 0
        BY <1>1, <4>1 DEF Books, ReadIsTraded, Fits, Adopts
      <4> QED BY <1>4, <4>2
    <3>2. CASE ~OpenRow(rows[l])
      BY <1>1, <3>2, EnterFacts
    <3> QED BY <3>1, <3>2
  <2>3. seen[l] \in Nat /\ seen[l] <= legs[l].exec
    BY DEF Typed, Books, ReadIsTraded
  <2>4. s[l] = IF rows[l].st = "none" THEN seen[l] ELSE Larger(rows[l].exec, seen[l])
    BY <1>1, <1>5 DEF Adopts, Restored
  <2>5. s[l] = legs[l].exec
    <3>1. CASE rows[l].st = "none"
      <4>1. legs[l].exec = 0
        BY <1>1, <3>1, EnterFacts DEF Books, Fits, Known
      <4> QED BY <2>3, <2>4, <3>1, <4>1
    <3>2. CASE rows[l].st # "none"
      BY <1>4, <2>2, <2>3, <2>4, <3>2 DEF Larger
    <3> QED BY <3>1, <3>2
  <2> QED BY <2>1, <2>5 DEF Weights
<1> DEFINE W == Weights
           R == Present(rows) \ {c}
           L == Legs \ {c}
<1>6. R \subseteq L /\ IsFiniteSet(R) /\ IsFiniteSet(L)
  BY <1>1, PresentIsFinite, LegsAreFinite, FS_Subset DEF Adopts
<1>7. \A l \in L : W[l] = s[l] /\ s[l] \in Nat
  BY <1>4, <1>5
<1>8. \A l \in L \ R : s[l] = 0
  <2> SUFFICES ASSUME NEW l \in Legs, l # c, rows[l].st = "none" PROVE s[l] = 0
    BY DEF Present
  <2> QED BY <1>1, <1>5, EnterFacts DEF Books, Fits, Known
<1>9. W[c] <= legs[c].qty /\ W[c] \in Nat
  BY <1>3, <1>4 DEF Books, Fits, Weights
<1>10. \A l \in Legs : W[l] \in Int
  BY <1>4 DEF Weights
<1>11. reqQty' = SumFunctionOnSet(s, R) + legs[c].qty
  <2>1. c # NoLeg
    BY <1>3, TZAssumption DEF NoLeg, Legs
  <2> QED BY <1>1, <1>2, <1>3, <2>1 DEF RestoredQty, Adopts
<1>12. Weights' = W
  BY <1>2 DEF Weights, Latest, Known
<1> HIDE DEF W, R, L
<1>13. SumFunctionOnSet(W, Legs) = W[c] + SumFunctionOnSet(W, L)
  BY <1>3, <1>10, LegsAreFinite, SumTakes DEF L
<1>14. SumFunctionOnSet(W, L) = SumFunctionOnSet(s, L)
  BY <1>6, <1>7, SumSame
<1>15. SumFunctionOnSet(s, L) = SumFunctionOnSet(s, R)
  BY <1>6, <1>7, <1>8, SumOfPart
<1>16. SumFunctionOnSet(s, R) \in Nat
  <2>1. \A l \in R : s[l] \in Nat
    BY <1>6, <1>7
  <2> QED BY <1>6, <2>1, SumNat
<1>17. legs[c].qty > 0 /\ legs[c].qty \in Nat
  BY <1>3, <1>4 DEF Books, Fits, Known
<1>18. Executed(W) <= reqQty' /\ reqQty' > 0
  BY <1>9, <1>11, <1>13, <1>14, <1>15, <1>16, <1>17 DEF Executed
<1> QED BY <1>2, <1>12, <1>18 DEF Sized, Within, Refill, Unsized, Executed

-----------------------------------------------------------------------------
(* The steps of a process that knows it *)

\* Only a submit adds to what may fill.
LEMMA WeightsStay ==
  ASSUME Before, Next, After, ~Post, ~Resubmit
  PROVE  Weights' = Weights
<1> USE DEF Before
<1>1. \A l \in Legs : Known(l)' <=> Known(l)
  BY NewLegs, EndsAreFinal
<1>2. \A l \in Legs : Latest(l)' <=> Latest(l)
  BY <1>1 DEF Latest
<1>3. ASSUME NEW l \in Legs PROVE Weights'[l] = Weights[l]
  <2>1. CASE legs'[l] = legs[l]
    BY <1>2, <2>1 DEF Weights
  <2>2. CASE legs'[l] # legs[l]
    <3>1. PICK k \in Legs, v \in Leg : Changes(k, v)
      BY <2>2, LegSteps
    <3>2. k = l /\ legs'[l] = v
      BY <2>2, <3>1 DEF Changes, Typed
    <3>3. Moves(l, v)
      BY <3>1, <3>2 DEF Changes, Starts
    <3>4. Open(l) /\ Latest(l) /\ v.qty = legs[l].qty
      BY <3>3 DEF Moves, Lined, LiveIsLatest, Sound
    <3>5. legs[l].st # "rejected" /\ v.st # "rejected"
      BY <3>3 DEF Moves, Fills, Ends, Waits, Open, OpenStates
    <3> QED BY <1>2, <3>2, <3>4, <3>5 DEF Weights
  <2> QED BY <2>1, <2>2
<1> QED BY <1>3 DEF Weights

\* An order has its size, at the adapter, from the answer to its submit on.
LEMMA SizeSteps ==
  ASSUME Before, Next, After
  PROVE  \/ reqQty' = reqQty
         \/ Register /\ reqQty' = job.want
         \/ Confirmed /\ Remaining # 0 /\ reqQty' = Total
         \/ ApplySnapshot /\ reqQty = 0
         \/ Restore(polled) /\ reqQty = 0 /\ legs' = legs /\ job' = job
<1> USE DEF Before
<1>1. ~Crash
  BY AfterIsNoCrash
<1>2. (ApplySnapshot \/ Restore(polled)) /\ reqQty > 0 => reqQty' = reqQty
  BY DEF ApplySnapshot, Restore, RestoredQty
<1>3. reqQty > 0 \/ reqQty = 0
  BY DEF Typed
<1>4. reqQty' = reqQty \/ Register \/ Confirmed \/ ApplySnapshot \/ PollApply \/ Boot
  BY <1>1 DEF Next, BrokerNext, Fill, Cancels, Expires, Submits, Post, EmitAccepted,
     Replaces, StartReplace, CancelOld, TimesOut, GiveUp, Resubmit, Switch,
     EmitReplaced, EmitDead, StartCancel, CancelRequest, ReadFrame, Drop, Connect, ReadSnapshot,
     PollRead, FoldOldest, memory
<1>5. Register => reqQty' = job.want
  BY DEF Register
<1>6. Confirmed => reqQty' = reqQty \/ (Remaining # 0 /\ reqQty' = Total)
  BY DEF Confirmed
<1>7. PollApply \/ Boot => reqQty' = reqQty \/ (Restore(polled) /\ legs' = legs /\ job' = job)
  BY DEF PollApply, Boot, memory, broker
<1> QED BY <1>2, <1>3, <1>4, <1>5, <1>6, <1>7

\* The next leg is as large as what the legs before it left of the size.
LEMMA ResubmitFits ==
  ASSUME Before, Refill, Resubmit, Next, After
  PROVE  reqQty' = reqQty /\ reqQty > 0 /\ Executed(Weights') <= reqQty
<1> USE DEF Before
<1>1. PICK k \in Legs : k = job.leg
  BY DEF Resubmit, Shape, Numbered, Typed
<1>2. Typed' /\ job.qty \in Nat /\ job.qty > 0 /\ job.at = "resubmit"
  BY StepTyped DEF Resubmit, Typed, Job, Books, Asked
<1>3. Weights' \in [Legs -> Nat] /\ Booked \in [Legs -> Nat] /\ Executed(Booked) \in Nat
  <2>1. Weights' \in [Legs -> Nat]
    BY <1>2 DEF Typed, Leg, Weights
  <2> QED BY <2>1, WeightsNat, ExecutedNat
<1>4. reqQty' = reqQty /\ Executed(Booked) + job.qty <= reqQty /\ reqQty \in Nat
  BY <1>2 DEF Resubmit, memory, Refill, Typed
<1>5. legs[k].exec = 0
  BY <1>1, <1>2 DEF Books, Fits, Shape, Numbered, Known
<1>6. PICK v \in Leg : /\ legs' = [legs EXCEPT ![k] = v] /\ v.exec = 0
                       /\ v.qty = job.qty /\ v.st \in {"open", "rejected"}
  <2>1. Lands(k, job.qty) \/ Refused(k, job.qty)
    BY <1>1 DEF Resubmit, Unanswered, After
  <2>2. /\ [st |-> "open", qty |-> job.qty, exec |-> 0] \in Leg
        /\ [st |-> "rejected", qty |-> job.qty, exec |-> 0] \in Leg
    BY <1>2 DEF Leg, LegStates
  <2> QED BY <2>1, <2>2 DEF Lands, Refused, Push
<1> DEFINE B == [Booked EXCEPT ![k] = job.qty]
<1>7. B \in [Legs -> Nat] /\ Executed(B) = Executed(Booked) - 0 + job.qty
  BY <1>2, <1>3, <1>5, ExecutedWith DEF Booked
<1>8. legs'[k] = v /\ \A l \in Legs : l # k => legs'[l] = legs[l] /\ B[l] = legs[l].exec
  BY <1>3, <1>6 DEF Typed, Booked
<1>9. B[k] = job.qty
  BY <1>3
<1>10. Known(k)' /\ ~Known(k)
  BY <1>1, <1>2, <1>6, <1>8 DEF Known, Shape, Numbered
<1>11. \A l \in Legs : l # k => ~Latest(l)'
  <2>1. Latest(k)'
    BY <1>10, NewLegIsLatest
  <2>2. Legs \subseteq Nat
    BY TZAssumption DEF Legs
  <2> QED BY <2>1, <2>2 DEF Latest
<1> HIDE DEF B
<1>12. ASSUME NEW l \in Legs PROVE Weights'[l] <= B[l]
  <2>1. CASE l = k
    BY <1>2, <1>6, <1>8, <1>9, <2>1 DEF Weights
  <2>2. CASE l # k
    <3>1. Weights'[l] = legs[l].exec /\ legs[l].exec \in Nat
      BY <1>8, <1>11, <2>2 DEF Weights, Typed, Leg
    <3> QED BY <1>8, <2>2, <3>1
  <2> QED BY <2>1, <2>2
<1>13. Executed(Weights') <= Executed(B)
  BY <1>3, <1>7, <1>12, ExecutedRises
<1>14. Executed(Weights') \in Nat /\ Executed(B) \in Nat
  BY <1>3, <1>7, ExecutedNat
<1> QED BY <1>2, <1>3, <1>4, <1>7, <1>13, <1>14

\* An order with one leg at most fills up to the size of that.
LEMMA OneLegFits ==
  ASSUME Typed, Books, \A l \in Legs : Known(l) => l = 0
  PROVE  Executed(Weights) <= legs[0].qty /\ Executed(Weights) \in Nat /\ legs[0].qty \in Nat
<1>1. Weights \in [Legs -> Nat] /\ 0 \in Legs
  BY WeightsNat, TZAssumption DEF Legs
<1>2. legs[0].exec <= legs[0].qty /\ legs[0].qty \in Nat /\ legs[0].exec \in Nat
  BY <1>1 DEF Books, Fits, Typed, Leg
<1>3. ASSUME NEW l \in Legs, l # 0 PROVE Weights[l] = 0
  BY <1>3 DEF Weights, Latest, Books, Fits, Known
<1>4. Weights[0] <= legs[0].qty
  BY <1>1, <1>2 DEF Weights
<1>5. Executed(Weights) = Weights[0] /\ Weights[0] \in Nat
  BY <1>1, <1>3, ExecutedOfOne
<1> QED BY <1>2, <1>4, <1>5

LEMMA StepWithin ==
  ASSUME Before, Sized, Next, After
  PROVE  Within'
<1> USE DEF Before
<1> SUFFICES ASSUME reqQty' > 0, job'.at # "resubmit" PROVE Executed(Weights)' <= reqQty'
  BY DEF Within
<1>1. Executed(Weights)' = Executed(Weights')
  BY DEF Executed
<1>2. CASE Resubmit
  BY <1>1, <1>2, ResubmitFits DEF Sized
<1>3. CASE Post
  BY <1>3 DEF Post, Shape, Numbered, memory
<1>4. CASE ~Post /\ ~Resubmit
  <2>1. Weights' = Weights
    BY <1>4, WeightsStay
  <2>2. CASE Register
    <3>1. /\ reqQty' = job.want /\ legs[0].qty = job.want
          /\ \A l \in Legs : Known(l) => l = 0
      BY <2>2 DEF Register, Lined, Landed
    <3> QED BY <1>1, <2>1, <3>1, OneLegFits
  <2>3. CASE (ApplySnapshot \/ Restore(polled)) /\ reqQty = 0
    <3>1. PICK rows \in {snapshot, polled}, keep \in BOOLEAN :
            /\ rows \in [Legs -> Leg]
            /\ CurrentLeg(rows) # NoLeg =>
                 reqQty' = RestoredQty(rows, CurrentLeg(rows),
                                       Restored(rows, CurrentLeg(rows), keep))
            /\ CurrentLeg(rows) = NoLeg => reqQty' = reqQty
      BY <2>3 DEF ApplySnapshot, Restore, RestoredQty, Typed
    <3>0. PICK c \in Maybe : c = CurrentLeg(rows)
      BY <3>1, CurrentLegOfRows DEF Typed
    <3>2. PICK s : c = CurrentLeg(rows) /\ s = Restored(rows, c, keep)
      BY <3>0
    <3>3. c # NoLeg /\ reqQty' = RestoredQty(rows, c, s)
      BY <2>3, <3>1, <3>2
    <3>4. c \in Legs /\ rows[c].st # "none"
      BY <3>1, <3>2, <3>3, CurrentLegOfRows DEF Typed
    <3>5. \A l \in Legs : Known(l) => l = 0
      BY <2>3 DEF Sized, Unsized, Lined, Landed
    <3>6. c = 0 /\ rows[0].qty = legs[0].qty
      BY <3>4, <3>5 DEF Shape, Truthful, Books, ReadIsTraded, Listed, Polled
    <3>7. reqQty' = SumFunctionOnSet(s, Present(rows) \ {c}) + rows[c].qty
      BY <2>3, <3>3, <3>4 DEF RestoredQty
    <3>8. SumFunctionOnSet(s, Present(rows) \ {c}) \in Nat
      <4> DEFINE R == Present(rows) \ {c}
      <4>1. s \in [Legs -> Nat]
        BY <3>1, <3>2, RestoredRises DEF Typed
      <4>2. R \subseteq Legs /\ IsFiniteSet(R)
        BY PresentIsFinite, FS_Subset
      <4>3. \A l \in R : s[l] \in Nat
        BY <4>1, <4>2
      <4> HIDE DEF R
      <4>4. SumFunctionOnSet(s, R) \in Nat
        BY <4>2, <4>3, SumNat
      <4> QED BY <4>4 DEF R
    <3>9. Executed(Weights) <= legs[0].qty /\ Executed(Weights) \in Nat /\ legs[0].qty \in Nat
      BY <3>5, OneLegFits
    <3>10. reqQty' >= legs[0].qty
      BY <3>6, <3>7, <3>8, <3>9
    <3>11. reqQty' \in Nat
      BY StepTyped DEF Typed
    <3> QED BY <1>1, <2>1, <3>9, <3>10, <3>11
  <2>4. CASE reqQty' = reqQty
    <3>1. job.at # "resubmit"
      BY <1>4, JobMoves, AfterIsNoCrash DEF Register, EmitAccepted, StartReplace, CancelOld,
         TimesOut, GiveUp, Confirmed, Switch, EmitReplaced, EmitDead
    <3> QED BY <1>1, <2>1, <2>4, <3>1 DEF Sized, Within
  <2>5. CASE Confirmed /\ Remaining # 0
    <3> HIDE DEF Remaining, Total
    <3>1. job' = [job EXCEPT !.at = "resubmit", !.qty = Remaining, !.want = Total, !.leg = seq + 1]
      BY <2>5 DEF Confirmed
    <3>2. job'.at = "resubmit"
      BY <3>1 DEF Typed, Job
    <3> QED BY <3>2
  <2> QED BY <2>2, <2>3, <2>4, <2>5, SizeSteps
<1> QED BY <1>2, <1>3, <1>4

\* The size of the next leg is what the fills left of the size asked for.
LEMMA StepRefill ==
  ASSUME Before, Sized, Next, After
  PROVE  Refill'
<1> USE DEF Before
<1> SUFFICES ASSUME job'.at = "resubmit" PROVE Executed(Booked)' + job'.qty <= reqQty'
  BY DEF Refill
<1>1. Executed(Booked)' = Executed(Booked')
  BY DEF Executed
<1>2. Executed(Booked) \in Nat /\ reqQty \in Nat /\ job.qty \in Nat
  BY WeightsNat, ExecutedNat DEF Typed, Job
<1>3. Sure /\ legs' = legs
  <2>1. Sure /\ ~Post /\ ~Resubmit
    <3>1. job' = job \/ (Confirmed /\ Remaining # 0)
      BY JobMoves DEF Crash, After
    <3>2. Confirmed => Sure /\ ~Post /\ ~Resubmit
      BY DEF Confirmed, Sure, Replacing, Post, Resubmit
    <3>3. job' = job => Sure /\ ~Post
      BY DEF Sure, Post
    <3>4. Resubmit => job'.at # "resubmit"
      BY DEF Resubmit, Goto, Typed, Job
    <3> QED BY <3>1, <3>2, <3>3, <3>4
  <2>2. \A l \in Legs : ~Open(l)
    BY <2>1 DEF Counted, EndIsCounted, Loose
  <2>3. ASSUME NEW l \in Legs PROVE legs'[l] = legs[l]
    <3>1. CASE Known(l)
      BY <2>2, <3>1, EndsAreFinal
    <3>2. CASE ~Known(l)
      <4>1. ~Known(l)'
        BY <2>1, <3>2, NewLegs
      <4>2. legs' = legs \/ \E k \in Legs, v \in Leg : Changes(k, v) /\ Moves(k, v)
        BY <2>1, LegSteps DEF Changes, Starts
      <4> QED BY <2>2, <4>2 DEF Moves
    <3> QED BY <3>1, <3>2
  <2> QED BY <2>1, <2>3, StepTyped DEF Typed
<1>4. Booked' = Booked
  BY <1>3 DEF Booked
<1>5. CASE job' = job
  <2>1. Executed(Booked) + job.qty <= reqQty /\ job.qty > 0
    BY <1>5 DEF Sized, Refill, Books, Asked
  <2>2. reqQty > 0
    BY <1>2, <2>1
  <2>3. reqQty' = reqQty
    <3>1. ~Register /\ ~Confirmed
      BY <1>5 DEF Register, Confirmed
    <3>2. reqQty # 0
      BY <1>2, <2>2
    <3> QED BY <3>1, <3>2, SizeSteps
  <2> QED BY <1>1, <1>4, <1>5, <2>1, <2>3
<1>6. CASE Confirmed /\ Remaining # 0 /\ job'.qty = Remaining
  <2>1. \A l \in Legs : seen[l] = Booked[l]
    BY <1>3 DEF Counted, EndIsCounted, Loose, Booked
  <2>2. Executed(seen) = Executed(Booked)
    BY <2>1, LegsAreFinite, SumSame DEF Executed
  <2>3. PICK t : t = Total
    OBVIOUS
  <2>4. t \in Nat
    BY <2>3 DEF Total, Typed, Job
  <2>5. job'.qty = Minus(t, Executed(Booked)) /\ job'.qty # 0
    BY <1>6, <2>2, <2>3 DEF Remaining
  <2>6. reqQty' = t
    BY <1>6, <2>3 DEF Confirmed
  <2>7. Executed(Booked) + job'.qty = t
    BY <1>2, <2>4, <2>5 DEF Minus
  <2> QED BY <1>1, <1>4, <2>4, <2>6, <2>7
<1> QED BY <1>5, <1>6, JobMoves DEF Crash, After

LEMMA StepUnsized ==
  ASSUME Before, Sized, Next, After
  PROVE  Unsized'
<1> USE DEF Before
<1> SUFFICES ASSUME reqQty' = 0, job'.at # "posted", NEW l \in Legs, Known(l)'
             PROVE  l = 0 /\ legs'[l].st = "rejected"
  BY DEF Unsized
<1>1. ~Resubmit
  BY ResubmitFits DEF Sized, Typed
<1>2. CASE Post
  <2>1. l = 0
    BY <1>1, <1>2, NewLegs DEF Post, Shape, Numbered
  <2>2. Refused(0, job.want)
    <3>1. [job EXCEPT !.at = "posted"].at = "posted"
      BY DEF Typed, Job
    <3>2. ~Goto("posted")
      BY <3>1 DEF Goto
    <3>3. ~Unanswered(0, job.want)
      BY DEF Unanswered, After
    <3> QED BY <1>2, <3>2, <3>3 DEF Post
  <2> QED BY <2>1, <2>2 DEF Refused, Push, Typed
<1>3. CASE ~Post
  <2>1. Known(l)
    BY <1>1, <1>3, NewLegs
  <2>2. ~Register
    <3>1. Register => Known(0) /\ legs[0].qty = job.want /\ reqQty' = job.want
      BY DEF Register, Lined, Landed
    <3>2. 0 \in Legs
      BY TZAssumption DEF Legs
    <3> QED BY <3>1, <3>2 DEF Books, Fits, Known
  <2>3. reqQty = 0
    <3>1. Confirmed /\ Remaining # 0 => Total # 0
      BY ExecutedNat DEF Remaining, Minus, Typed
    <3> QED BY <2>2, <3>1, SizeSteps
  <2>4. job.at # "posted"
    BY <1>3, <2>2, JobMoves, AfterIsNoCrash DEF EmitAccepted, StartReplace, CancelOld,
       TimesOut, GiveUp, Confirmed, Resubmit, Switch, EmitReplaced, EmitDead
  <2>5. l = 0 /\ legs[l].st = "rejected"
    BY <2>1, <2>3, <2>4 DEF Sized, Unsized
  <2>6. legs'[l] = legs[l]
    BY <2>1, <2>5, EndsAreFinal DEF Open, OpenStates
  <2> QED BY <2>5, <2>6
<1> QED BY <1>2, <1>3

-----------------------------------------------------------------------------
(* The invariant *)

InHand == ~Blank /\ lost \subseteq {"push"} => Counted /\ Sized
SInv == IInv /\ Recorded /\ Books /\ Lined /\ InHand

LEMMA InitBooks == Init => SInv
<1> SUFFICES ASSUME Init PROVE SInv
  OBVIOUS
<1>1. IInv /\ Typed /\ Shape
  BY InitInv DEF IInv
<1>2. PICK q \in 1 .. MaxQty :
        /\ job = [IdleJob EXCEPT !.at = "post", !.want = q]
        /\ told = [status |-> "SUBMITTED", qty |-> q, exec |-> 0, leaves |-> q]
  BY DEF Init
<1>3. q \in Nat /\ q > 0 /\ job.at = "post" /\ job.want = q /\ told.exec = 0
  BY <1>2, TZAssumption DEF IdleJob
<1>4. Recorded
  BY <1>2, <1>3, TZAssumption DEF Init, Recorded, Told, WorkingStates
<1>5. Queued = {} /\ Len(frames) = 0
  BY <1>1, QueueChanges DEF Init, Queued
<1>6. \A l \in Legs : /\ ~Known(l) /\ ~Listed(l) /\ ~Polled(l) /\ ~Open(l)
                      /\ ~OpenRow(snapshot[l]) /\ ~OpenRow(polled[l])
                      /\ legs[l].exec = 0 /\ snapshot[l].exec = 0 /\ polled[l].exec = 0
                      /\ seen[l] = 0 /\ legs[l].qty = 0
                      /\ Fits(legs[l])
  BY DEF Init, NoRows, NoOrder, Known, Listed, Polled, Open, OpenRow, OpenStates, Fits
<1>7. Executed(Booked) \in Nat /\ Executed(seen) \in Nat
  BY <1>1, WeightsNat, ExecutedNat DEF Typed
<1>8. Books
  <2>1. ReadIsTraded
    BY <1>5, <1>6 DEF ReadIsTraded
  <2>2. ToldIsRead
    <3>1. Mail = {}
      BY DEF Init, Mail
    <3> QED BY <1>3, <1>7, <3>1 DEF ToldIsRead
  <2>3. Asked
    BY <1>3 DEF Asked
  <2> QED BY <1>6, <2>1, <2>2, <2>3 DEF Books
<1>9. Lined
  <2>1. syncing = "no" /\ current = NoLeg /\ ~Blank
    BY <1>3 DEF Init, Blank
  <2>2. CurrentIsKnown /\ ListIsFresh /\ NewsOfTheLatest /\ BlankIsUnused
    BY <1>5, <1>6, <2>1 DEF CurrentIsKnown, ListIsFresh, NewsOfTheLatest, BlankIsUnused
  <2> QED BY <1>3, <1>5, <1>6, <2>2 DEF Lined, FramesEnd, Landed, EmptyRows, LiveIsLatest
<1>10. Counted
  BY <1>3, <1>6 DEF Counted, LooseIsLatest, EndIsCounted, NoNews, ListHasTheRest, RestIsSettled,
     Explained, Loose, Sure, Replacing
<1>11. Sized
  BY <1>3, <1>6 DEF Init, Sized, Within, Refill, Unsized
<1> QED BY <1>1, <1>4, <1>8, <1>9, <1>10, <1>11 DEF SInv, InHand

LEMMA StepInHand ==
  ASSUME SInv, Next
  PROVE  InHand'
<1> SUFFICES ASSUME After PROVE Counted' /\ Sized'
  BY DEF InHand, After
<1>1. lost \subseteq {"push"} /\ "answer" \notin lost
  BY LossIsRemembered DEF After
<1>2. Typed /\ Recorded /\ Shape /\ Books /\ Lined /\ Certain
  BY <1>1 DEF SInv, IInv, Sound
<1>3. CASE ~Blank
  <2>1. Before /\ Sized
    BY <1>1, <1>2, <1>3 DEF SInv, InHand, Before
  <2> QED BY <2>1, StepCounted, StepWithin, StepRefill, StepUnsized DEF Sized
<1>4. CASE Blank
  <2>1. Entering
    BY <1>1, <1>2, <1>4 DEF Entering
  <2> QED BY <2>1, EnterCounts, EnterSized
<1> QED BY <1>3, <1>4

LEMMA NextBooks == SInv /\ [Next]_vars => SInv'
<1> SUFFICES ASSUME SInv, [Next]_vars PROVE SInv'
  OBVIOUS
<1>1. IInv'
  BY NextInv DEF SInv
<1>2. CASE Next
  BY <1>1, <1>2, StepRecorded, StepBooks, StepLined, StepInHand DEF SInv, IInv
<1>3. CASE UNCHANGED vars
  <2> USE <1>3 DEF vars, broker, stream, sync, memory, swap, engine, core
  <2>0. Recorded' = Recorded
    BY DEF Recorded
  <2>5. /\ Queued' = Queued /\ Mail' = Mail /\ Blank' = Blank /\ Still' = Still /\ Sound' = Sound
        /\ \A l \in Legs : /\ Listed(l)' = Listed(l) /\ Polled(l)' = Polled(l)
                          /\ Known(l)' = Known(l) /\ Open(l)' = Open(l) /\ Latest(l)' = Latest(l)
    BY DEF Queued, Mail, Blank, Still, Sound, Listed, Polled, Known, Open, Latest
  <2>1. Books' = Books
    BY <2>5 DEF Books, Fits, ReadIsTraded, ToldIsRead, Asked, Booked, Executed
  <2>4. Lined' = Lined
    <3>1. FramesEnd' = FramesEnd /\ Landed' = Landed /\ CurrentIsKnown' = CurrentIsKnown
      BY DEF FramesEnd, Landed, CurrentIsKnown, Queued, Known
    <3>2. /\ EmptyRows' = EmptyRows /\ LiveIsLatest' = LiveIsLatest /\ ListIsFresh' = ListIsFresh
          /\ NewsOfTheLatest' = NewsOfTheLatest
      <4>1. EmptyRows' = EmptyRows /\ LiveIsLatest' = LiveIsLatest
        BY <2>5 DEF EmptyRows, LiveIsLatest
      <4>2. ListIsFresh' = ListIsFresh
        BY DEF ListIsFresh, Queued
      <4>3. NewsOfTheLatest' = NewsOfTheLatest
        BY DEF NewsOfTheLatest, Sound, Still, Blank, Queued, Latest, Known, OpenRow
      <4> QED BY <4>1, <4>2, <4>3
    <3>3. BlankIsUnused' = BlankIsUnused
      BY <2>5 DEF BlankIsUnused, Unused
    <3> QED BY <3>1, <3>2, <3>3 DEF Lined
  <2>2. Counted' = Counted
    BY DEF Counted, LooseIsLatest, EndIsCounted, NoNews, ListHasTheRest, RestIsSettled,
       Explained, Loose, Latest, Sure, Replacing, NoCancelFrame, Settled, Queued, Known, Listed,
       Open
  <2>3. Sized' = Sized
    BY DEF Sized, Within, Refill, Unsized, Weights, Booked, Executed, Latest, Known
  <2>6. InHand' = InHand
    BY <2>2, <2>3, <2>5 DEF InHand
  <2> QED BY <1>1, <2>0, <2>1, <2>4, <2>6 DEF SInv
<1> QED BY <1>2, <1>3

LEMMA InvHolds == Spec => []SInv
BY InitBooks, NextBooks, PTL DEF Spec

\* The state of the adapter stays in its types: every counter is a natural
\* number, every frame names a leg, every status is one of the core's, through
\* every step of the three goroutines and of the broker.
THEOREM AdapterTypes == Spec => []TypeOK
<1>1. SInv => TypeOK
  <2> SUFFICES ASSUME SInv PROVE TypeOK
    OBVIOUS
  <2>1. Typed /\ Recorded
    BY DEF SInv, IInv
  <2>2. \A i \in DOMAIN frames : frames[i].leg \in Legs
    <3>1. \A i \in DOMAIN frames : frames[i] \in Frames
      BY <2>1 DEF Typed
    <3> QED BY <3>1 DEF Frames
  <2> QED BY <2>1, <2>2 DEF Typed, Recorded, TypeOK
<1> QED BY <1>1, InvHolds, PTL

\* No share is reported that did not trade: what the core counts of the order
\* never exceeds what its legs have filled at the broker, whether a fill is
\* read from a frame, from a list, from both or again after a restart.
THEOREM FillsAreReal == Spec => []NeverOvercounts
<1>1. SInv => NeverOvercounts
  BY DEF SInv, Books, ToldIsRead, NeverOvercounts
<1> QED BY <1>1, InvHolds, PTL

\* While the engine runs, no step of the adapter, of its pollers or of the core
\* takes back a fill the core has counted, once it has folded what was emitted
\* while it recovered, unless a process never got its first list.
THEOREM FillsStay == Spec => FillsNeverFall
<1>1. SInv /\ [Next]_vars =>
        [up /\ up' /\ inbox = <<>> /\ "list" \notin lost => told'.exec >= told.exec]_vars
  <2> SUFFICES ASSUME SInv, Next, up, up', inbox = <<>>, "list" \notin lost
               PROVE  told'.exec >= told.exec
    BY DEF vars
  <2> QED BY StepToldIsRead DEF SInv, IInv
<1> QED BY <1>1, InvHolds, PTL DEF Spec, FillsNeverFall

\* What the legs of an order have filled and may still fill never exceeds the
\* size asked for, fills of the old leg during the cancel of a replace
\* included, over drops, refusals, expiries, timeouts, polls and restarts, as
\* long as no answer to a submit and no list is lost, and no poll puts an
\* earlier leg back.
THEOREM OrderStaysInSize == Spec => []InSize
<1>1. SInv => InSize
  <2> SUFFICES ASSUME SInv, up, lost \subseteq {"push"}
               PROVE  Committed <= (IF reqQty > 0 THEN reqQty ELSE Larger(job.want, told.qty))
    BY DEF InSize
  <2>1. /\ Typed /\ Recorded /\ Books /\ Lined /\ Sound
        /\ ~Blank => Counted /\ Sized
    BY DEF SInv, IInv, InHand, Sound
  <2> DEFINE C == [l \in Legs |-> IF Open(l) THEN legs[l].qty ELSE legs[l].exec]
  <2>2. C \in [Legs -> Nat] /\ Committed = Executed(C)
    BY <2>1 DEF Committed, Executed, Typed, Leg
  <2>3. Weights \in [Legs -> Nat] /\ Booked \in [Legs -> Nat]
    BY <2>1, WeightsNat
  <2>4. ASSUME NEW l \in Legs PROVE C[l] <= Weights[l]
    <3>1. legs[l].exec <= legs[l].qty /\ legs[l].exec \in Nat /\ legs[l].qty \in Nat
      BY <2>1 DEF Books, Fits, Typed, Leg
    <3>2. Open(l) => Latest(l) /\ legs[l].st # "rejected"
      BY <2>1 DEF Lined, LiveIsLatest, Open, OpenStates
    <3> QED BY <3>1, <3>2 DEF Weights
  <2>5. (\A l \in Legs : ~Open(l)) => C = Booked
    BY DEF Booked
  <2> HIDE DEF C
  <2>6. Executed(C) <= Executed(Weights)
    BY <2>2, <2>3, <2>4, ExecutedRises
  <2>7. /\ Executed(C) \in Nat /\ Executed(Weights) \in Nat /\ Executed(Booked) \in Nat
        /\ reqQty \in Nat /\ job.want \in Nat /\ told.qty \in Nat /\ job.qty \in Nat
    BY <2>1, <2>2, <2>3, ExecutedNat DEF Typed, Job, Recorded, Told
  <2>8. job.want <= Larger(job.want, told.qty) /\ 0 <= Larger(job.want, told.qty)
        /\ Larger(job.want, told.qty) \in Nat
    BY <2>7 DEF Larger
  <2>12. ASSUME Unused PROVE Executed(C) = 0
    <3>1. \A l \in Legs : Booked[l] = 0 /\ ~Open(l)
      BY <2>1, <2>12 DEF Unused, Books, Fits, Known, Booked, Open, OpenStates
    <3>2. Executed(Booked) = 0
      BY <2>3, <3>1, TZAssumption, ExecutedOfOne DEF Legs
    <3> QED BY <2>5, <3>1, <3>2
  <2>13. CASE Blank
    BY <2>1, <2>2, <2>7, <2>8, <2>12, <2>13 DEF Lined, BlankIsUnused
  <2> SUFFICES ASSUME ~Blank
               PROVE  Committed <= (IF reqQty > 0 THEN reqQty ELSE Larger(job.want, told.qty))
    BY <2>13
  <2>9. CASE reqQty > 0 /\ job.at # "resubmit"
    BY <2>1, <2>2, <2>6, <2>7, <2>9 DEF Sized, Within
  <2>10. CASE reqQty > 0 /\ job.at = "resubmit"
    <3>1. C = Booked
      BY <2>1, <2>5, <2>10 DEF Counted, EndIsCounted, Sure, Loose
    <3>2. Executed(Booked) + job.qty <= reqQty
      BY <2>1, <2>10 DEF Sized, Refill
    <3> QED BY <2>2, <2>7, <2>10, <3>1, <3>2
  <2>11. CASE reqQty = 0
    <3>1. \A l \in Legs : Known(l) => l = 0
      BY <2>1, <2>11 DEF Sized, Unsized, Lined, Landed
    <3>2. CASE job.at = "posted"
      <4>1. legs[0].qty = job.want /\ Executed(Weights) <= legs[0].qty
        BY <2>1, <3>1, <3>2, OneLegFits DEF Lined, Landed
      <4> QED BY <2>2, <2>6, <2>7, <2>8, <2>11, <4>1
    <3>3. CASE job.at # "posted"
      <4>1. Unused
        BY <2>1, <2>11, <3>3 DEF Sized, Unsized, Unused
      <4> QED BY <2>2, <2>8, <2>11, <2>12, <4>1
    <3> QED BY <3>2, <3>3
  <2> QED BY <2>7, <2>9, <2>10, <2>11
<1> QED BY <1>1, InvHolds, PTL

-----------------------------------------------------------------------------
(* Where nothing is lost *)

\* a new process, until its first list is read
Starting == ~online \/ syncing # "no"
\* until the core has folded what was emitted before it ran, nobody asks for anything
Waiting == ~up \/ inbox # <<>>
StartIsCalm ==
  /\ Starting => /\ ~connected /\ ~confirmed /\ inbox = <<>>
                 /\ job.at \in {"idle", "cancel", "await", "give up"}
  /\ syncing = "apply" => \A l \in Legs : Known(l) => Listed(l)
OfTheLatest == \A f \in Queued : \A k \in Legs : Known(k) => k <= f.leg
SureIsLast == Sure => Queued = {} /\ ToldWorking(told)
Fresh == job.at = "post" => ToldWorking(told) /\ told.leaves = job.want
EndIsReal ==
  Replacing /\ ~ToldWorking(told) =>
    \A l \in Legs : Latest(l) => legs[l].st \in {"filled", "expired", "rejected"}
DeadHasNone == job.at \in {"died", "dead"} => ~Alive
LiveIsCurrent ==
  ~Blank => \A l \in Legs : Open(l) => current = l \/ job.at \in {"posted", "resubmitted"}
SizeIsWanted ==
  /\ Replacing \/ job.at \in {"resubmit", "resubmitted", "replaced"} => reqQty > 0
  /\ job.at = "posted" => reqQty \in {0, job.want}
  /\ job.at \in {"resubmit", "resubmitted", "replaced"} => job.want = reqQty
Wanted == IF job.at = "posted" THEN job.want ELSE reqQty
LeavesCover ==
  up /\ Alive /\ job.at \notin {"resubmitted", "replaced"} =>
    told.leaves + Executed(Booked) >= Wanted
\* and so does what the core has not folded yet
Covering(e, n) ==
  /\ e.kind \in {"accepted", "filled", "listed"}
  /\ e.kind # "accepted" => e.leaves > 0 /\ e.leaves + Executed(Booked) >= n
  /\ e.kind = "listed" => e.status \in WorkingStates
MailCovers == Alive => \A e \in Mail : Covering(e, reqQty)
DoneIsDead == ~ToldWorking(told) => ~Alive
Lossless == /\ StartIsCalm /\ OfTheLatest /\ SureIsLast /\ Fresh /\ EndIsReal /\ DeadHasNone
            /\ LiveIsCurrent /\ SizeIsWanted /\ LeavesCover /\ MailCovers /\ DoneIsDead
HInv == SInv /\ (lost = {} => Lossless)

\* the state a step starts from
Whole == /\ Typed /\ Recorded /\ Shape /\ Books /\ Lined /\ Certain /\ Sound /\ Lossless
         /\ ~Blank => Before /\ Sized
         /\ lost = {}
Kept == lost' = {}

\* No connection drops, no answer and no list is missing, no poll puts an
\* earlier leg back; the engine may die.
LEMMA NothingLost ==
  ASSUME Whole, Next, Kept
  PROVE  /\ ~Drop /\ \A l, q : ~Unanswered(l, q)
         /\ ReadSnapshot => syncing' = "apply" /\ snapshot' = legs
         /\ Crash => up /\ ~up' /\ inbox' = <<>>
         /\ Boot => /\ ~up /\ up' /\ Restore(polled) /\ Present(polled) = Present(legs)
                    /\ UNCHANGED <<legs, inbox, job>>
         /\ ~Crash /\ ~Boot => up' = up
         /\ ~Blank' => After
<1>1. ~Drop /\ \A l, q : ~Unanswered(l, q)
  BY DEF Kept, Drop, Unanswered
<1>2. ReadSnapshot => syncing' = "apply" /\ snapshot' = legs
  BY DEF Kept, ReadSnapshot
<1>3. Crash => up /\ ~up' /\ inbox' = <<>>
  BY DEF Crash
<1>4. Boot => /\ ~up /\ up' /\ Restore(polled) /\ Present(polled) = Present(legs)
              /\ UNCHANGED <<legs, inbox, job>>
  <2>1. lost' # lost \cup {"list"}
    BY DEF Kept
  <2> QED BY <2>1 DEF Boot
<1>5. Crash \/ Boot \/ up' = up
  BY DEF Next, BrokerNext, Fill, Cancels, Expires, Submits, Post, Register, EmitAccepted,
     Replaces, StartReplace, CancelOld, TimesOut, GiveUp, Confirmed, Resubmit, Switch,
     EmitReplaced, EmitDead, StartCancel, CancelRequest, ReadFrame, Drop, Connect,
     ReadSnapshot, ApplySnapshot, PollRead, PollApply, FoldOldest, engine, core
<1>6. ~Blank' => After
  BY DEF After, Kept
<1> QED BY <1>1, <1>2, <1>3, <1>4, <1>5, <1>6

\* A process whose core has not folded everything only listens.
LEMMA WaitingListens ==
  ASSUME Whole, Waiting
  PROVE  /\ job = IdleJob /\ job.at = "idle" /\ replacing = NoLeg
         /\ ~Submits /\ ~CancelOld /\ ~TimesOut /\ ~GiveUp /\ ~Confirmed /\ ~Resubmit
         /\ ~Switch /\ ~EmitReplaced /\ ~EmitDead /\ ~\E q \in Qtys : StartReplace(q)
<1>1. job = IdleJob /\ job.at = "idle" /\ replacing = NoLeg
  BY DEF Whole, Waiting, Shape, Reset, IdleJob
<1>2. ~\E q \in Qtys : StartReplace(q)
  BY DEF Waiting, StartReplace
<1> QED BY <1>1, <1>2 DEF Submits, Post, Register, EmitAccepted, CancelOld, TimesOut, GiveUp,
           Confirmed, Resubmit, Switch, EmitReplaced, EmitDead

\* An order with a leg that can fill is known to the adapter, once the first
\* list is read or the core has recovered.
LEMMA AliveIsHeld ==
  ASSUME Whole, Alive, up \/ inbox # <<>> \/ ~Starting
  PROVE  ~Blank /\ Before /\ Sized /\ (job.at # "posted" => reqQty > 0)
<1> USE DEF Whole
<1>1. PICK k \in Legs : Open(k)
  BY DEF Alive
<1>2. Known(k) /\ legs[k].st # "rejected"
  BY <1>1 DEF Open, OpenStates, Known
<1>3. ~Blank
  <2> SUFFICES ASSUME Blank PROVE FALSE
    OBVIOUS
  <2>1. ~Unused
    BY <1>2 DEF Unused
  <2>2. ~up /\ (~online \/ syncing = "ask" \/ syncing = "apply")
    BY <2>1 DEF Lined, BlankIsUnused
  <2> QED BY <2>2 DEF Starting, Lossless, StartIsCalm
<1>4. job.at # "posted" => reqQty # 0
  BY <1>2, <1>3 DEF Sized, Unsized
<1> QED BY <1>3, <1>4 DEF Typed

\* The size the order is kept to is what the legs are kept within.
LEMMA SizedNext ==
  ASSUME Whole, Next, Kept, ~Blank'
  PROVE  Sized'
<1>1. After
  BY NothingLost
<1>2. CASE ~Blank
  BY <1>1, <1>2, StepWithin, StepRefill, StepUnsized DEF Whole, Sized
<1>3. CASE Blank
  <2>1. Entering
    BY <1>3 DEF Whole, Entering
  <2> QED BY <1>1, <2>1, EnterSized
<1> QED BY <1>2, <1>3

\* No leg comes to life but by a submit.
LEMMA NoneRises ==
  ASSUME Whole, Next, ~Post, ~Resubmit
  PROVE  \A l \in Legs : /\ Known(l)' => Known(l)
                         /\ Open(l)' => Open(l)
                         /\ Latest(l)' => Latest(l)
<1> USE DEF Whole
<1>1. \A l \in Legs : Known(l)' => Known(l)
  BY NewLegs
<1>2. \A l \in Legs : Known(l) => Known(l)'
  BY EndsAreFinal
<1>3. \A l \in Legs : Open(l)' => Open(l)
  <2> SUFFICES ASSUME NEW l \in Legs, Open(l)' PROVE Open(l)
    OBVIOUS
  <2>1. Known(l)
    BY <1>1 DEF Open, OpenStates, Known
  <2> QED BY <2>1, EndsAreFinal DEF Open
<1> QED BY <1>1, <1>2, <1>3 DEF Latest

\* A submit that is refused leaves no leg that can fill.
LEMMA RefusedLeavesNone ==
  ASSUME Whole, Next, NEW l \in Legs, NEW q, Refused(l, q),
         (Post /\ l = 0) \/ (Resubmit /\ l = job.leg)
  PROVE  ~Alive'
<1> USE DEF Whole
<1> SUFFICES ASSUME NEW k \in Legs, Open(k)' PROVE FALSE
  BY DEF Alive
<1>1. ~Alive
  <2>1. CASE Post
    BY <2>1 DEF Post, Shape, Numbered, Alive, Open, OpenStates, Known
  <2>2. CASE Resubmit
    BY <2>2 DEF Resubmit, Certain, Sure
  <2> QED BY <2>1, <2>2
<1>2. legs' = [legs EXCEPT ![l] = [st |-> "rejected", qty |-> q, exec |-> 0]]
  BY DEF Refused, Push
<1>3. k = l \/ legs'[k] = legs[k]
  BY <1>2 DEF Typed
<1>4. k # l
  BY <1>2 DEF Open, OpenStates, Typed
<1> QED BY <1>1, <1>3, <1>4 DEF Alive, Open

\* A process that starts reads its first list before it does anything else.
LEMMA StartSteps ==
  ASSUME Whole, Next, Kept, ~Crash, Starting'
  PROVE  Starting /\ ~ReadFrame /\ ~ApplySnapshot
<1> USE DEF Whole, Starting
<1>1. ~Drop
  BY NothingLost
<1>2. ~online' => ~online
  BY <1>1 DEF Next, BrokerNext, Fill, Cancels, Expires, Submits, Post, Register, EmitAccepted,
     Replaces, StartReplace, CancelOld, TimesOut, GiveUp, Confirmed, Resubmit, Switch,
     EmitReplaced, EmitDead, StartCancel, CancelRequest, ReadFrame, Connect,
     ReadSnapshot, ApplySnapshot, PollRead, PollApply, FoldOldest, Boot, stream
<1>3. syncing' # "no" => Connect \/ syncing # "no"
  BY SyncSteps DEF sync, ReadSnapshot
<1>4. ~ReadFrame
  BY DEF ReadFrame, sync
<1>5. ~ApplySnapshot
  <2>1. ApplySnapshot => syncing = "apply" /\ syncing' = "no" /\ online' = online
    BY DEF ApplySnapshot
  <2>2. syncing = "apply" => online
    BY DEF Shape, Reset
  <2> QED BY <2>1, <2>2
<1>6. Connect => ~online
  BY DEF Connect
<1> QED BY <1>2, <1>3, <1>4, <1>5, <1>6

LEMMA StepStartIsCalm ==
  ASSUME Whole, Next, Kept
  PROVE  StartIsCalm'
<1> USE DEF Whole
<1>1. ASSUME Starting PROVE ~Post /\ ~Resubmit /\ ~Confirmed /\ ~Register /\ ~Switch
                            /\ ~EmitAccepted /\ ~EmitReplaced /\ ~EmitDead /\ ~FoldOldest
  BY <1>1 DEF Lossless, StartIsCalm, Post, Resubmit, Confirmed, Register, Switch, EmitAccepted,
     EmitReplaced, EmitDead, FoldOldest
<1>2. ASSUME Starting'
      PROVE  /\ ~connected' /\ ~confirmed' /\ inbox' = <<>>
             /\ job'.at \in {"idle", "cancel", "await", "give up"}
  <2>1. CASE Crash
    BY <2>1 DEF Crash, IdleJob
  <2>2. CASE ~Crash
    <3>1. Starting /\ ~ReadFrame /\ ~ApplySnapshot
      BY <1>2, <2>2, StartSteps
    <3>2. ~connected /\ ~confirmed /\ inbox = <<>> /\ job.at \in {"idle", "cancel", "await", "give up"}
      BY <3>1 DEF Lossless, StartIsCalm
    <3>3. connected' = connected /\ inbox' = inbox /\ (confirmed' = confirmed \/ ~confirmed')
      BY <1>1, <2>2, <3>1 DEF Next, BrokerNext, Fill, Cancels, Expires, Submits, Replaces,
         StartReplace, CancelOld, TimesOut, GiveUp, StartCancel, CancelRequest, Drop, Connect,
         ReadSnapshot, PollRead, PollApply, Boot, Restore, memory, swap, engine, core
    <3>4. job'.at \in {"idle", "cancel", "await", "give up"}
      <4>1. CASE job' = job
        BY <3>2, <4>1
      <4>2. CASE GiveUp
        BY <3>2, <4>2, JobMoves DEF GiveUp, Post, Register, EmitAccepted, StartReplace, CancelOld,
           TimesOut, Confirmed, Resubmit, Switch, EmitReplaced, EmitDead, Crash
      <4>3. ~Post /\ ~Resubmit /\ ~Confirmed /\ ~Register /\ ~Switch
            /\ ~EmitAccepted /\ ~EmitReplaced /\ ~EmitDead
        BY <1>1, <3>1
      <4>4. CASE job' # job /\ ~GiveUp
        <5>1. Typed
          OBVIOUS
        <5> HIDE DEF Whole
        <5>2. job'.at \in {"await", "give up"} \/ job'.at = "cancel"
          BY <2>2, <4>3, <4>4, <5>1, JobMoves
        <5> QED BY <5>2
      <4> QED BY <4>1, <4>2, <4>4
    <3>5. connected = FALSE /\ confirmed = FALSE /\ confirmed' \in BOOLEAN
      BY <3>2, StepTyped DEF Typed, Recorded
    <3>6. connected' = FALSE /\ confirmed' = FALSE
      BY <3>3, <3>5
    <3> QED BY <3>2, <3>3, <3>4, <3>6
  <2> QED BY <2>1, <2>2
<1>3. ASSUME syncing' = "apply", NEW l \in Legs, Known(l)' PROVE Listed(l)'
  <2>1. CASE ReadSnapshot
    <3>1. legs' = legs /\ snapshot' = legs
      BY <2>1, NothingLost DEF ReadSnapshot
    <3> QED BY <1>3, <3>1 DEF Listed, Known
  <2>2. CASE ~ReadSnapshot
    <3>1. syncing = "apply" /\ snapshot' = snapshot
      BY <1>3, <2>2, SyncSteps DEF Connect, sync
    <3>2. Starting
      BY <3>1 DEF Starting
    <3>3. Known(l)
      BY <1>1, <1>3, <3>2, NoneRises
    <3> QED BY <3>1, <3>3 DEF Lossless, StartIsCalm, Listed
  <2> QED BY <2>1, <2>2
<1> QED BY <1>2, <1>3 DEF StartIsCalm

-----------------------------------------------------------------------------
(* What is read where nothing is lost *)

\* A frame is of the newest leg, and one that ends it is the last of all.
LEMMA FrameFacts ==
  ASSUME Whole, ReadFrame, NEW f, f = Head(frames)
  PROVE  /\ ~Starting /\ ~Sure /\ job.at # "resubmit" /\ UNCHANGED <<legs, job, reqQty, current, up>>
         /\ f \in Frames /\ f \in Queued /\ f.leg \in Legs /\ Latest(f.leg)
         /\ f.status \in DeadStates => Status(legs[f.leg]) = f.status /\ Queued' = {}
<1> USE DEF Whole
<1>1. /\ online /\ syncing = "no" /\ frames # <<>> /\ frames' = Tail(frames)
      /\ UNCHANGED <<legs, job, reqQty, current, up>>
  BY DEF ReadFrame, broker
<1>2. ~Starting /\ ~Sure /\ job.at # "resubmit"
  <2>1. Queued # {}
    BY QueueChanges
  <2> QED BY <1>1, <2>1 DEF Starting, Lossless, SureIsLast, Sure
<1>3. f \in Frames /\ f \in Queued /\ f.leg \in Legs
  BY QueueChanges DEF Frames
<1>4. Latest(f.leg)
  BY <1>3 DEF Lossless, OfTheLatest, Latest, Shape, Truthful
<1>5. f.status \in DeadStates => Status(legs[f.leg]) = f.status
  BY <1>3 DEF Lined, FramesEnd
<1>6. frames \in Seq(Frames) /\ Len(frames) \in Nat /\ f = frames[1] /\ 1 \in 1 .. Len(frames)
  BY <1>1 DEF Typed
<1>7. ASSUME f.status \in DeadStates PROVE Queued' = {}
  <2>1. ASSUME NEW i \in 1 .. Len(frames), 1 < i PROVE FALSE
    <3>1. frames[i] \in Queued /\ frames[i].leg \in Legs
      BY <2>1, QueueChanges DEF Queued, Frames
    <3>2. Latest(frames[i].leg)
      BY <3>1 DEF Lossless, OfTheLatest, Latest, Shape, Truthful
    <3>3. frames[i].leg = f.leg
      BY <1>3, <1>4, <3>1, <3>2, OneLatest
    <3> QED BY <1>6, <1>7, <2>1, <3>3 DEF Lined, FramesEnd
  <2>2. Len(frames) = 1
    <3>1. Len(frames) \in Nat /\ 1 <= Len(frames)
      BY <1>6
    <3>2. 1 < Len(frames) => Len(frames) \in 1 .. Len(frames)
      BY <3>1
    <3> HIDE DEF Whole
    <3> QED BY <2>1, <3>1, <3>2
  <2>3. frames' \in Seq(Frames) /\ Len(frames') = 0
    BY <1>1, <1>6, <2>2
  <2>4. 1 .. Len(frames') = {}
    BY <2>3
  <2>5. Queued' = {frames'[i] : i \in 1 .. Len(frames')}
    BY DEF Queued
  <2> QED BY <2>4, <2>5
<1> QED BY <1>1, <1>2, <1>3, <1>4, <1>5, <1>7

\* While the newest leg is not done, there is more to fill.
LEMMA MoreToFill ==
  ASSUME Typed, Books, NEW l \in Legs, Latest(l), legs[l].st \in {"open", "pending", "canceled"}
  PROVE  /\ Executed(Booked) < Executed(Weights)
         /\ Executed(Booked) \in Nat /\ Executed(Weights) \in Nat
<1>1. legs[l] \in Leg /\ legs[l].exec < legs[l].qty
  BY DEF Books, Fits, Typed
<1>2. Weights[l] = legs[l].qty /\ Booked[l] = legs[l].exec
  BY DEF Weights, Booked
<1>3. Weights \in [Legs -> Nat] /\ Booked \in [Legs -> Nat]
  BY WeightsNat
<1>4. ASSUME NEW k \in Legs
      PROVE  Booked[k] <= Weights[k] /\ Booked[k] \in Int /\ Weights[k] \in Int
  <2>1. legs[k] \in Leg /\ legs[k].exec <= legs[k].qty
    BY DEF Books, Fits, Typed
  <2>2. Booked[k] = legs[k].exec /\ Weights[k] \in {legs[k].exec, legs[k].qty}
    BY DEF Booked, Weights
  <2>3. legs[k].exec \in Nat /\ legs[k].qty \in Nat
    BY <2>1 DEF Leg
  <2> QED BY <2>1, <2>2, <2>3
<1>5. Executed(Booked) < Executed(Weights)
  <2>1. Booked[l] < Weights[l]
    BY <1>1, <1>2
  <2> DEFINE B == Booked
             W == Weights
  <2>2. B[l] < W[l] /\ \A k \in Legs : B[k] \in Int /\ W[k] \in Int /\ B[k] <= W[k]
    BY <1>4, <2>1
  <2> HIDE DEF B, W
  <2>3. SumFunctionOnSet(B, Legs) < SumFunctionOnSet(W, Legs)
    BY <2>2, LegsAreFinite, SumExceeds
  <2> QED BY <2>3 DEF Executed, B, W
<1> QED BY <1>3, <1>5, ExecutedNat

\* Once the whole size has filled, the newest leg is done.
LEMMA FullIsDone ==
  ASSUME Typed, Books, Sized, reqQty > 0, job.at # "resubmit", reqQty <= Executed(Booked),
         NEW l \in Legs, Latest(l)
  PROVE  legs[l].st \in {"filled", "expired", "rejected"}
<1> SUFFICES ASSUME legs[l].st \notin {"filled", "expired", "rejected"} PROVE FALSE
  OBVIOUS
<1>1. legs[l].st \in {"open", "pending", "canceled"}
  BY DEF Latest, Known, Typed, Leg, LegStates
<1>2. /\ Executed(Booked) < Executed(Weights)
      /\ Executed(Booked) \in Nat /\ Executed(Weights) \in Nat
  BY <1>1, MoreToFill
<1>3. Executed(Weights) <= reqQty /\ reqQty \in Nat
  BY DEF Sized, Within, Typed
<1> QED BY <1>2, <1>3

\* What a new fill leaves is nothing only if the newest leg is done, and
\* covers what a live leg may still fill.
LEMMA NewFillLeft ==
  ASSUME Whole, Next, ReadFrame, NEW f, f = Head(frames), NewFill(f),
         NEW left, left = FrameLeft(f)
  PROVE  /\ left \in Nat
         /\ left = 0 => \A l \in Legs : Latest(l) => legs[l].st \in {"filled", "expired", "rejected"}
         /\ Alive => left + Executed(Booked) >= Wanted
<1> USE DEF Whole
<1>1. /\ ~Starting /\ job.at # "resubmit" /\ f \in Frames /\ f \in Queued /\ f.leg \in Legs
      /\ Latest(f.leg)
  BY FrameFacts
<1>2. PICK k \in Legs : k = f.leg
  BY <1>1
<1>3. told \in Told /\ reqQty \in Nat /\ job.want \in Nat
  BY DEF Typed, Recorded, Job
<1>4. seen' \in [Legs -> Nat] /\ \A l \in Legs : seen'[l] <= legs[l].exec
  BY FrameIsRead
<1>5. PICK x \in Nat : x = Executed(seen')
  BY <1>4, ExecutedNat
<1>6. Booked \in [Legs -> Nat]
  BY WeightsNat
<1>7. PICK y \in Nat : y = Executed(Booked)
  BY <1>6, ExecutedNat
<1>8. x <= y
  BY <1>4, <1>5, <1>6, <1>7, ExecutedRises DEF Booked
<1>9. PICK n \in Nat : n = seen'[k]
  BY <1>4
<1>10. n <= x
  BY <1>4, <1>5, <1>9, LegsAreFinite, SumHolds DEF Executed
<1>11. PICK m \in Nat : m = legs[k].qty
  BY DEF Typed, Leg
<1>12. f.qty = m /\ n <= legs[k].exec /\ legs[k].exec \in Nat
  BY <1>1, <1>2, <1>4, <1>9, <1>11 DEF Books, ReadIsTraded, Typed, Leg
<1>15. left = Minus(FillTotal(seen', f.leg, f.qty), Executed(seen')) /\ left \in Nat
  BY FrameIsRead DEF FrameLeft
<1>16. ~Blank
  <2>1. f.exec > seen[f.leg] /\ f.exec <= legs[f.leg].exec /\ seen[f.leg] \in Nat
        /\ f.exec \in Nat /\ legs[f.leg].exec \in Nat
    BY <1>1 DEF NewFill, Books, ReadIsTraded, Typed, Leg, Frames
  <2>2. legs[f.leg].exec > 0
    BY <2>1
  <2>3. ~Unused
    BY <1>1, <2>2 DEF Unused, Latest, Books, Fits
  <2> QED BY <1>1, <2>3 DEF Lined, BlankIsUnused, Starting
<1>17. Sized
  BY <1>16
<1>13. CASE reqQty > 0
  <2>1. left = Minus(reqQty, x)
    BY <1>5, <1>13, <1>15 DEF FillTotal
  <2>2. left + x >= reqQty
    BY <1>3, <2>1 DEF Minus
  <2>3. left = 0 => reqQty <= Executed(Booked)
    BY <1>3, <1>7, <1>8, <2>2
  <2>4. left = 0 => \A l \in Legs : Latest(l) => legs[l].st \in {"filled", "expired", "rejected"}
    BY <1>1, <1>13, <1>17, <2>3, FullIsDone
  <2>5. Wanted = reqQty
    BY <1>13 DEF Lossless, SizeIsWanted, Wanted
  <2> QED BY <1>3, <1>7, <1>8, <1>15, <2>2, <2>4, <2>5
<1>14. CASE reqQty = 0
  <2>1. left = Minus(x - n + m, x)
    BY <1>2, <1>5, <1>9, <1>12, <1>14, <1>15 DEF FillTotal
  <2>2. left + n >= m
    BY <1>10, <2>1 DEF Minus
  <2>3. ASSUME left = 0, NEW l \in Legs, Latest(l)
        PROVE  legs[l].st \in {"filled", "expired", "rejected"}
    <3>1. l = k
      BY <1>1, <1>2, <2>3, OneLatest
    <3>2. ~(legs[k].exec < legs[k].qty)
      BY <1>11, <1>12, <2>2, <2>3
    <3>3. legs[k].st \in LegStates \ {"none", "open", "pending", "canceled"}
      BY <2>3, <3>1, <3>2 DEF Books, Fits, Typed, Leg, Latest, Known
    <3> QED BY <3>1, <3>3 DEF LegStates
  <2>4. ASSUME Alive PROVE left + Executed(Booked) >= Wanted
    <3>1. CASE job.at = "posted"
      <4>1. k = 0 /\ m = job.want
        BY <1>1, <1>2, <1>11, <3>1 DEF Lined, Landed, Latest
      <4>2. Wanted = m
        BY <3>1, <4>1 DEF Wanted
      <4> QED BY <1>7, <1>8, <1>10, <1>15, <2>2, <4>2
    <3>2. CASE job.at # "posted"
      BY <1>1, <1>14, <1>17, <2>4, <3>2 DEF Sized, Unsized, Alive, Open, OpenStates, Known
    <3> QED BY <3>1, <3>2
  <2> QED BY <1>15, <2>3, <2>4
<1> QED BY <1>3, <1>13, <1>14

\* While the newest leg may fill, or its cancel is part of a replace, a frame
\* does not end the order.
LEMMA FrameCovers ==
  ASSUME Whole, Next, ReadFrame, NEW l \in Legs, Latest(l),
         legs[l].st \in {"open", "pending", "canceled"},
         legs[l].st = "canceled" => replacing # NoLeg
  PROVE  /\ FrameNews(Head(frames)) \in {NoEvent, OrderAccepted}
         /\ \/ FrameFill(Head(frames)) = NoEvent
            \/ \E cum, left \in Nat :
                 /\ FrameFill(Head(frames)) = OrderFilled(cum, left) /\ left > 0
                 /\ Alive => left + Executed(Booked) >= Wanted
<1> USE DEF Whole
<1>1. PICK f : f = Head(frames)
  OBVIOUS
<1>2. /\ f.leg \in Legs /\ Latest(f.leg)
      /\ f.status \in DeadStates => Status(legs[f.leg]) = f.status
  BY <1>1, FrameFacts
<1>3. f.leg = l
  BY <1>2, OneLatest
<1>4. Status(legs[l]) \notin {"FILLED", "EXPIRED", "REJECTED"}
      /\ (Status(legs[l]) = "CANCELED" => legs[l].st = "canceled")
  BY DEF Status
<1>5. FrameNews(f) \in {NoEvent, OrderAccepted}
  <2>1. f.status \notin {"EXPIRED", "REJECTED"}
    BY <1>2, <1>3, <1>4 DEF DeadStates
  <2>2. f.status = "CANCELED" => replacing # NoLeg
    BY <1>2, <1>3, <1>4 DEF DeadStates
  <2> QED BY <2>1, <2>2 DEF FrameNews, OnCanceled
<1>6. CASE NewFill(f)
  <2>1. PICK left : left = FrameLeft(f)
    OBVIOUS
  <2>2. /\ left \in Nat /\ (Alive => left + Executed(Booked) >= Wanted)
        /\ left = 0 => \A k \in Legs : Latest(k) => legs[k].st \in {"filled", "expired", "rejected"}
    BY <1>1, <1>6, <2>1, NewFillLeft
  <2>3. left > 0
    BY <2>2
  <2>4. FrameFill(f) = OrderFilled(Executed(FrameSeen(f)), left)
    BY <1>6, <2>1 DEF FrameFill
  <2>5. Executed(FrameSeen(f)) \in Nat
    BY <1>1, FrameIsRead
  <2> QED BY <1>1, <1>5, <2>2, <2>3, <2>4, <2>5
<1>7. CASE ~NewFill(f)
  BY <1>1, <1>5, <1>7 DEF FrameFill
<1> QED BY <1>6, <1>7

\* What covers does so after it is folded.
LEMMA FoldCovers ==
  ASSUME NEW o \in Told, NEW e \in Events, NEW n, e = NoEvent \/ Covering(e, n)
  PROVE  /\ Fold(o, e) \in Told
         /\ ToldWorking(o) => ToldWorking(Fold(o, e))
         /\ e # NoEvent => ToldWorking(Fold(o, e))
         /\ o.leaves + Executed(Booked) >= n => Fold(o, e).leaves + Executed(Booked) >= n
<1>1. Fold(o, e) \in Told
  BY FoldTyped
<1>2. CASE e.kind \notin {"accepted", "filled", "listed"}
  <2>1. e = NoEvent
    BY <1>2 DEF Covering
  <2>2. Fold(o, e) = o
    BY <2>1 DEF Fold, NoEvent
  <2> QED BY <1>1, <2>1, <2>2
<1>3. CASE e.kind = "accepted"
  <2>1. Fold(o, e) = [o EXCEPT !.status = "ACCEPTED"]
    BY <1>3 DEF Fold, Accepted
  <2>2. Fold(o, e).leaves = o.leaves /\ Fold(o, e).status = "ACCEPTED"
    BY <2>1 DEF Told
  <2> QED BY <1>1, <2>2 DEF ToldWorking, WorkingStates
<1>4. CASE e.kind = "filled"
  <2>1. Covering(e, n)
    BY <1>4 DEF NoEvent
  <2>2. e.leaves # 0 /\ e.leaves + Executed(Booked) >= n
    BY <1>4, <2>1 DEF Covering
  <2>3. Fold(o, e) = [o EXCEPT !.status = "PARTIALLY_FILLED", !.exec = e.exec, !.leaves = e.leaves]
    BY <1>4, <2>2 DEF Fold, Filled
  <2>4. Fold(o, e).leaves = e.leaves /\ Fold(o, e).status = "PARTIALLY_FILLED"
    BY <2>3 DEF Told
  <2> QED BY <1>1, <2>2, <2>4 DEF ToldWorking, WorkingStates
<1>5. CASE e.kind = "listed"
  <2>1. Covering(e, n)
    BY <1>5 DEF NoEvent
  <2>2. e.status \in WorkingStates /\ e.leaves + Executed(Booked) >= n
    BY <1>5, <2>1 DEF Covering
  <2>3. Fold(o, e) = [status |-> e.status, qty |-> e.qty, exec |-> e.exec, leaves |-> e.leaves]
    BY <1>5 DEF Fold
  <2> QED BY <1>1, <2>2, <2>3 DEF ToldWorking
<1> QED BY <1>2, <1>3, <1>4, <1>5

\* What is emitted and covers is told at once, or waits.
LEMMA EmitCovers ==
  ASSUME Recorded, NEW e \in Events, NEW d \in Events, EmitBoth(e, d), NEW n,
         e = NoEvent \/ Covering(e, n), d = NoEvent \/ Covering(d, n)
  PROVE  /\ ToldWorking(told) => ToldWorking(told')
         /\ told.leaves + Executed(Booked) >= n => told'.leaves + Executed(Booked) >= n
         /\ \A x \in Mail' \ Mail : Covering(x, n) /\ Waiting
         /\ ~Waiting => inbox' = <<>>
<1>1. told \in Told /\ inbox \in Seq(Event)
  BY DEF Recorded
<1>2. /\ Mail' \subseteq Mail \cup ({e, d} \ {NoEvent})
      /\ up /\ inbox = <<>> => told' = Fold(Fold(told, e), d) /\ inbox' = <<>>
      /\ ~(up /\ inbox = <<>>) => told' = told
  BY <1>1, EmitTyped
<1>3. CASE Waiting
  BY <1>2, <1>3 DEF Waiting
<1>4. CASE ~Waiting
  <2>1. told' = Fold(Fold(told, e), d) /\ inbox' = <<>>
    BY <1>2, <1>4 DEF Waiting
  <2>2. PICK o : o = Fold(told, e)
    OBVIOUS
  <2>3. /\ o \in Told /\ (ToldWorking(told) => ToldWorking(o))
        /\ told.leaves + Executed(Booked) >= n => o.leaves + Executed(Booked) >= n
    BY <1>1, <2>2, FoldCovers
  <2>4. /\ ToldWorking(o) => ToldWorking(told')
        /\ o.leaves + Executed(Booked) >= n => told'.leaves + Executed(Booked) >= n
    BY <2>1, <2>2, <2>3, FoldCovers
  <2>5. Mail' = {}
    BY <2>1 DEF Mail
  <2> QED BY <2>1, <2>3, <2>4, <2>5
<1> QED BY <1>3, <1>4

\* A frame ends the order only with its newest leg.
LEMMA FrameKeepsWorking ==
  ASSUME Whole, Next, ReadFrame, NEW l \in Legs, Latest(l),
         legs[l].st \in {"open", "pending", "canceled"},
         legs[l].st = "canceled" => replacing # NoLeg,
         ToldWorking(told)
  PROVE  ToldWorking(told')
<1> DEFINE e == FrameFill(Head(frames))
           d == FrameNews(Head(frames))
<1>1. /\ Recorded /\ EmitBoth(e, d)
      /\ \A n : Says(d, n)
      /\ Says(e, Executed(seen'))
  BY FrameIsRead DEF Whole
<1>2. /\ d \in {NoEvent, OrderAccepted}
      /\ e = NoEvent \/ \E cum, left \in Nat : e = OrderFilled(cum, left) /\ left > 0
  BY FrameCovers
<1>3. PICK o \in Told : TRUE
  BY SomeOrder
<1>4. "FILLED" \in WorkingStates \cup DeadStates /\ 0 \in Nat
  BY DEF DeadStates
<1> HIDE DEF e, d
<1>5. e \in Events /\ d \in Events
  BY <1>1 DEF Says
<1>6. Executed(Booked) \in Nat
  BY WeightsNat, ExecutedNat DEF Whole
<1>7. d = NoEvent \/ Covering(d, 0)
  BY <1>2, <1>3, <1>4, EventsTyped DEF Covering
<1>8. e = NoEvent \/ Covering(e, 0)
  <2> SUFFICES ASSUME NEW cum \in Nat, NEW left \in Nat, e = OrderFilled(cum, left), left > 0
               PROVE  Covering(e, 0)
    BY <1>2
  <2>1. e.kind = "filled" /\ e.leaves = left
    BY <1>3, <1>4, EventsTyped
  <2> QED BY <1>6, <2>1 DEF Covering
<1> QED BY <1>1, <1>5, <1>7, <1>8, EmitCovers


\* The first list of a process confirms no end, and tells only what is alive.
LEMMA ListTells ==
  ASSUME Whole, Next, Kept, ApplySnapshot
  PROVE  /\ Starting /\ syncing = "apply" /\ inbox = <<>> /\ connected = FALSE
         /\ job.at \in {"idle", "cancel", "await", "give up"} /\ ~Sure
         /\ UNCHANGED <<legs, frames, job, replacing, up>> /\ confirmed' = confirmed
         /\ ListLeg = NoLeg => UNCHANGED core
         /\ ListLeg # NoLeg => ListFill = NoEvent /\ EmitBoth(ListFill, ListNews)
         /\ \/ ListNews = NoEvent
            \/ OpenRow(snapshot[ListLeg])
         /\ told' = told \/ ToldWorking(told')
<1> USE DEF Whole
<1>1. syncing = "apply" /\ UNCHANGED <<legs, frames, job, replacing, up>>
  BY DEF ApplySnapshot, broker
<1>2. Starting
  BY <1>1 DEF Starting
<1>3. /\ connected = FALSE /\ confirmed = FALSE /\ inbox = <<>>
      /\ job.at \in {"idle", "cancel", "await", "give up"}
  BY <1>2 DEF Lossless, StartIsCalm, Typed, Recorded
<1>4. ~Sure
  BY <1>3 DEF Sure
<1>5. /\ ListLeg \in Maybe
      /\ ListLeg = NoLeg => UNCHANGED core
      /\ ListLeg # NoLeg => EmitBoth(ListFill, ListNews) /\ ListNews \in Events
  BY ListIsRead DEF Says
<1>6. ListTurn = FALSE
  BY <1>3 DEF ListTurn
<1>7. ListFill = NoEvent /\ (OpenRow(snapshot[ListLeg]) \/ ListNews = NoEvent)
  BY <1>6 DEF ListFill, ListNews
<1>8. confirmed' = confirmed
  BY <1>3 DEF ApplySnapshot
<1>9. ASSUME ListLeg # NoLeg, told' # told PROVE ToldWorking(told')
  <2>1. NoEvent \in Events /\ inbox \in Seq(Event) /\ told \in Told
    BY DEF Events, Recorded
  <2>2. told' = Fold(Fold(told, NoEvent), ListNews)
    BY <1>5, <1>7, <1>9, <2>1, EmitTyped
  <2>3. \A o \in Told : Fold(o, NoEvent) = o
    BY NoEventIsNone DEF Fold
  <2>4. told' = Fold(told, ListNews) /\ ListNews # NoEvent
    BY <1>9, <2>1, <2>2, <2>3
  <2>5. OpenRow(snapshot[ListLeg])
    BY <1>7, <2>4
  <2>6. PICK o : o = DomainOrder(ListSeen, ListQty, snapshot, ListLeg)
    OBVIOUS
  <2>7. ListNews = OrderListed(o)
    BY <2>5, <2>6 DEF ListNews
  <2>8. o.status \in WorkingStates
    BY <2>5, <2>6 DEF DomainOrder, OpenRow, OpenStates, Status, WorkingStates
  <2>9. told'.status = o.status
    BY <2>4, <2>7 DEF Fold, OrderListed
  <2> QED BY <2>8, <2>9 DEF ToldWorking
<1> QED BY <1>1, <1>2, <1>3, <1>4, <1>5, <1>7, <1>8, <1>9 DEF core

\* While a leg can fill, that list has it, and covers what it may fill.
LEMMA ListCovers ==
  ASSUME Whole, Next, Kept, ApplySnapshot, Alive
  PROVE  ListLeg # NoLeg /\ Covering(ListNews, reqQty') /\ ListNews \in Events
<1> USE DEF Whole
<1>1. PICK k \in Legs : Open(k)
  BY DEF Alive
<1>2. Known(k) /\ legs[k].st # "rejected"
  BY <1>1 DEF Open, OpenStates, Known
<1>3. /\ syncing = "apply" /\ job.at \in {"idle", "cancel", "await", "give up"}
      /\ legs' = legs /\ job' = job
  BY ListTells
<1>4. Listed(k) /\ snapshot \in [Legs -> Leg] /\ current \in Maybe
  BY <1>2, <1>3 DEF Lossless, StartIsCalm, Typed
<1>5. OpenRow(snapshot[k])
  BY <1>1, <1>4 DEF Shape, Truthful, OpenRow, Open
<1>6. k # NoLeg
  BY TZAssumption DEF NoLeg, Legs
<1>7. ListLeg = k
  <2>1. CASE current = NoLeg
    <3>1. \A l \in Legs : l # k => ~OpenRow(snapshot[l])
      BY <1>1, <1>3 DEF Certain, ListBehind
    <3> QED BY <1>4, <1>5, <2>1, <3>1, BootTakesTheLiveLeg DEF ListLeg
  <2>2. CASE current # NoLeg
    <3>1. current = k
      BY <1>1, <1>3, <2>2 DEF Blank, Lossless, LiveIsCurrent
    <3>2. current \in Present(snapshot)
      BY <1>4, <3>1 DEF Present, Listed
    <3> QED BY <1>4, <3>1, <3>2, CurrentLegOfRows DEF ListLeg
  <2> QED BY <2>1, <2>2
<1>8. current' = k
  BY <1>6, <1>7, ListFacts DEF ListLeg
<1>9. ~Blank'
  BY <1>6, <1>8 DEF Blank
<1>10. Sized' /\ Typed'
  BY <1>9, SizedNext, StepTyped
<1>11. reqQty' \in Nat /\ reqQty' # 0
  <2>1. Open(k)'
    BY <1>1, <1>3 DEF Open
  <2> QED BY <1>2, <1>3, <1>10, <2>1 DEF Sized, Unsized, Typed, Known, Open, OpenStates
<1>12. ListLeg \in Legs /\ ListLeg # NoLeg /\ reqQty' = ListQty
  BY <1>6, <1>7 DEF ApplySnapshot, ListLeg, ListSeen, ListQty
<1>13. ListSeen \in [Legs -> Nat]
  BY RestoredRises DEF Typed, ListSeen
<1>14. PICK o : o = DomainOrder(ListSeen, ListQty, snapshot, ListLeg)
  OBVIOUS
<1>15. /\ o \in Told /\ o.exec = Executed(seen')
       /\ o.leaves = Minus(reqQty', o.exec) /\ o.status \in WorkingStates
  <2>1. seen' = Reread(ListSeen, snapshot, ListLeg)
    BY <1>12, ListIsRead
  <2>2. o \in Told /\ o.exec = Executed(seen')
    BY <1>4, <1>11, <1>12, <1>13, <1>14, <2>1, RowIsCounted
  <2>3. o.leaves = Minus(reqQty', o.exec)
    BY <1>11, <1>12, <1>14 DEF DomainOrder
  <2>4. o.status \in WorkingStates
    BY <1>5, <1>7, <1>14 DEF DomainOrder, OpenRow, OpenStates, Status, WorkingStates
  <2> QED BY <2>2, <2>3, <2>4
<1>16. /\ Executed(seen') <= Executed(Booked) /\ Executed(Booked) < Executed(Weights)
       /\ Executed(Booked) \in Nat /\ Executed(Weights) \in Nat /\ Executed(seen') \in Nat
  <2>1. seen' \in [Legs -> Nat] /\ \A l \in Legs : seen'[l] <= legs[l].exec
    BY ListIsRead
  <2>2. Booked \in [Legs -> Nat]
    BY WeightsNat
  <2>3. Executed(seen') <= Executed(Booked)
    BY <2>1, <2>2, ExecutedRises DEF Booked
  <2>4. Latest(k) /\ legs[k].st \in {"open", "pending", "canceled"}
    BY <1>1 DEF Lined, LiveIsLatest, Open, OpenStates
  <2> QED BY <2>1, <2>3, <2>4, MoreToFill, ExecutedNat
<1>17. Executed(Weights) <= reqQty'
  <2>1. Weights' = Weights
    BY <1>3 DEF Weights, Latest, Known
  <2>2. job'.at # "resubmit" /\ reqQty' > 0
    <3>1. job'.at # "resubmit"
      BY <1>3
    <3>2. reqQty' > 0
      BY <1>11
    <3> QED BY <3>1, <3>2
  <2>3. Executed(Weights)' = Executed(Weights)
    BY <2>1 DEF Executed
  <2>4. Within'
    BY <1>10 DEF Sized
  <2>5. Executed(Weights)' <= reqQty'
    BY <2>2, <2>4 DEF Within
  <2> QED BY <2>3, <2>5
<1>18. o.leaves > 0 /\ o.leaves + Executed(Booked) >= reqQty'
  BY <1>11, <1>15, <1>16, <1>17 DEF Minus
<1>19. ListNews = OrderListed(o)
  BY <1>5, <1>7, <1>14 DEF ListNews
<1>20. /\ ListNews \in Events /\ ListNews.kind = "listed"
       /\ ListNews.leaves = o.leaves /\ ListNews.status = o.status
  BY <1>12, <1>15, <1>19, ListIsRead DEF OrderListed, Says
<1> QED BY <1>12, <1>15, <1>18, <1>20 DEF Covering

\* What is told, and when.
LEMMA Telling ==
  ASSUME Whole, Next, Kept
  PROVE  \/ UNCHANGED core
         \/ Post /\ Refused(0, job.want)
         \/ EmitAccepted \/ EmitReplaced \/ EmitDead \/ ReadFrame \/ ApplySnapshot
         \/ FoldOldest \/ Crash \/ Boot
<1>1. ~Unanswered(0, job.want)
  BY NothingLost
<1> QED BY <1>1 DEF Next, BrokerNext, Fill, Cancels, Expires, Submits, Post, Register,
     Replaces, StartReplace, CancelOld, TimesOut, GiveUp, Confirmed, Resubmit, Switch,
     StartCancel, CancelRequest, Drop, Connect, ReadSnapshot, PollRead, PollApply, engine

-----------------------------------------------------------------------------
(* The steps where nothing is lost *)

LEMMA StepOfTheLatest ==
  ASSUME Whole, Next, Kept
  PROVE  OfTheLatest'
<1> USE DEF Whole
<1> SUFFICES ASSUME NEW f \in Queued', NEW k \in Legs, Known(k)' PROVE k <= f.leg
  BY DEF OfTheLatest
<1>1. CASE f \in Queued
  <2>1. CASE Known(k)
    BY <1>1, <2>1 DEF Lossless, OfTheLatest
  <2>2. CASE ~Known(k)
    <3>1. Post \/ Resubmit
      BY <2>2, NewLegs
    <3>2. ~Post
      BY <1>1, QueueChanges DEF Post, Shape, Numbered, Truthful, Frames
    <3>3. ~Resubmit
      BY <1>1 DEF Resubmit, Lossless, SureIsLast, Sure
    <3> QED BY <3>1, <3>2, <3>3
  <2> QED BY <2>1, <2>2
<1>2. CASE f \notin Queued
  <2>1. ~ReadFrame /\ frames' # frames /\ frames' # <<>>
    BY <1>2, QueueChanges
  <2>2. PICK l \in Legs, v \in Leg : Changes(l, v)
    BY <2>1, LegSteps
  <2>3. Push(l, v) /\ (Moves(l, v) \/ Starts(l, v)) /\ legs'[l] = v
    BY <2>1, <2>2 DEF Changes, Typed
  <2>4. f.leg = l
    BY <1>2, <2>3, QueueChanges DEF Frame
  <2>5. CASE Open(l)
    <3>1. ~Post /\ ~Resubmit
      BY <2>5 DEF Post, Resubmit, Shape, Numbered, Certain, Sure, Alive, Open, OpenStates, Known
    <3>2. Latest(l)
      BY <2>5 DEF Lined, LiveIsLatest
    <3> QED BY <2>4, <3>1, <3>2, NoneRises DEF Latest
  <2>6. CASE ~Open(l)
    <3>1. ~Known(l) /\ v.st # "none"
      BY <2>3, <2>6 DEF Moves, Starts
    <3>2. Known(l)'
      BY <2>3, <3>1 DEF Known
    <3>3. Latest(l)'
      BY <3>1, <3>2, NewLegIsLatest
    <3> QED BY <2>4, <3>3 DEF Latest
  <2> QED BY <2>5, <2>6
<1> QED BY <1>1, <1>2

LEMMA StepSureIsLast ==
  ASSUME Whole, Next, Kept
  PROVE  SureIsLast'
<1> USE DEF Whole
<1> SUFFICES ASSUME Sure' PROVE Queued' = {} /\ ToldWorking(told')
  BY DEF SureIsLast
<1>1. CASE Sure /\ ~Post /\ ~Resubmit
  <2>1. Queued = {} /\ ToldWorking(told) /\ ~Alive /\ job.at \in {"cancel", "await", "resubmit"}
        /\ ~Waiting
    BY <1>1, WaitingListens DEF Lossless, SureIsLast, Certain, Sure, Replacing
  <2>2. ~ReadFrame
    BY <2>1, QueueChanges
  <2>3. Queued' = {}
    <3>1. CASE frames' \in {frames, <<>>}
      BY <2>1, <3>1, QueueChanges
    <3>2. ASSUME NEW l \in Legs, NEW v \in Leg, Changes(l, v) PROVE frames' \in {frames, <<>>}
      BY <1>1, <2>1, <3>2 DEF Changes, Moves, Starts, Alive
    <3> QED BY <2>2, <3>1, <3>2, LegSteps
  <2>4. told' = told
    <3>1. ~EmitAccepted /\ ~EmitReplaced /\ ~EmitDead /\ ~Boot /\ ~FoldOldest
      BY <2>1 DEF EmitAccepted, EmitReplaced, EmitDead, Boot, FoldOldest, Waiting
    <3>2. ~ApplySnapshot
      BY <1>1, ListTells
    <3>3. Crash => told' = told
      BY DEF Crash
    <3> QED BY <1>1, <2>2, <3>1, <3>2, <3>3, Telling DEF core
  <2> QED BY <2>1, <2>3, <2>4
<1>2. ASSUME Replacing, ~confirmed, confirmed', ApplySnapshot PROVE FALSE
  BY <1>2, ListTells
<1>3. CASE Replacing /\ ~confirmed /\ confirmed' /\ ReadFrame
  <2>1. PICK f : f = Head(frames)
    OBVIOUS
  <2>2. f.status = "CANCELED"
    BY <1>3, <2>1 DEF ReadFrame
  <2>3. f.status \in DeadStates
    BY <2>2 DEF DeadStates
  <2>4. Queued' = {} /\ Latest(f.leg) /\ f.leg \in Legs /\ f \in Queued
    BY <1>3, <2>1, <2>3, FrameFacts
  <2>5. legs[f.leg].st = "canceled"
    BY <2>2, <2>4 DEF Shape, Truthful
  <2>6. ToldWorking(told)
    BY <1>3, <2>4, <2>5 DEF Lossless, EndIsReal
  <2>7. replacing # NoLeg
    BY <1>3 DEF Shape, Numbered
  <2>8. PICK l \in Legs : l = f.leg
    BY <2>4
  <2> QED BY <1>3, <2>4, <2>5, <2>6, <2>7, <2>8, FrameKeepsWorking
<1> QED BY <1>1, <1>2, <1>3, SureSteps

LEMMA StepFresh ==
  ASSUME Whole, Next, Kept
  PROVE  Fresh'
<1> USE DEF Whole
<1> SUFFICES ASSUME job'.at = "post" PROVE ToldWorking(told') /\ told'.leaves = job'.want
  BY DEF Fresh
<1>1. job' = job
  BY JobMoves
<1>2. job.at = "post" /\ ~Waiting /\ \A l \in Legs : ~Known(l)
  BY <1>1, WaitingListens DEF Shape, Numbered
<1>3. Queued = {}
  BY <1>2, QueueChanges DEF Shape, Truthful, Frames
<1>4. ~Post
  <2>1. [job EXCEPT !.at = "posted"].at = "posted" /\ IdleJob.at = "idle"
    BY DEF Typed, Job, IdleJob
  <2>2. Post => job'.at \in {"posted", "idle"}
    BY <2>1 DEF Post, Goto
  <2> QED BY <2>2
<1>5. ~ReadFrame /\ ~ApplySnapshot /\ ~EmitAccepted /\ ~EmitReplaced /\ ~EmitDead /\ ~Boot
      /\ ~FoldOldest
  <2>1. ~ReadFrame
    BY <1>3, QueueChanges
  <2>2. ~ApplySnapshot
    BY <1>2, ListTells
  <2> QED BY <1>2, <2>1, <2>2 DEF EmitAccepted, EmitReplaced, EmitDead, Boot, FoldOldest, Waiting
<1>6. told' = told
  BY <1>4, <1>5, Telling DEF core, Crash
<1> QED BY <1>1, <1>2, <1>6 DEF Lossless, Fresh

\* What ends the order while a replace waits is the end of its newest leg.
LEMMA StepEndIsReal ==
  ASSUME Whole, Next, Kept
  PROVE  EndIsReal'
<1> USE DEF Whole
<1> SUFFICES ASSUME Replacing', ~ToldWorking(told'), NEW l \in Legs, Latest(l)'
             PROVE  legs'[l].st \in {"filled", "expired", "rejected"}
  BY DEF EndIsReal
<1>1. CASE \E q \in Qtys : StartReplace(q)
  BY <1>1 DEF StartReplace, engine, core
<1>2. CASE Replacing /\ replacing' = replacing
  <2>1. ~Post /\ ~Resubmit /\ ~Waiting /\ replacing # NoLeg
    BY <1>2, WaitingListens DEF Replacing, Post, Resubmit, Shape, Numbered
  <2>2. Latest(l)
    BY <2>1, NoneRises
  <2>3. CASE ~ToldWorking(told)
    <3>1. legs[l].st \in {"filled", "expired", "rejected"}
      BY <1>2, <2>2, <2>3 DEF Lossless, EndIsReal
    <3>2. legs'[l] = legs[l]
      BY <2>2, <3>1, EndsAreFinal DEF Open, OpenStates, Latest
    <3> QED BY <3>1, <3>2
  <2>4. CASE ToldWorking(told)
    <3>1. ReadFrame
      <4>1. ~EmitAccepted /\ ~EmitReplaced /\ ~EmitDead /\ ~Boot /\ ~FoldOldest
        BY <1>2, <2>1 DEF EmitAccepted, EmitReplaced, EmitDead, Boot, FoldOldest, Waiting,
           Replacing
      <4>2. ApplySnapshot => told' = told \/ ToldWorking(told')
        BY ListTells
      <4>3. Crash => told' = told
        BY DEF Crash
      <4> QED BY <2>1, <2>4, <4>1, <4>2, <4>3, Telling DEF core
    <3>2. legs' = legs
      BY <3>1 DEF ReadFrame, broker
    <3>3. legs[l].st \notin {"open", "pending", "canceled"}
      BY <2>1, <2>2, <2>4, <3>1, FrameKeepsWorking
    <3> QED BY <2>2, <3>2, <3>3 DEF Latest, Known, Typed, Leg, LegStates
  <2> QED BY <2>3, <2>4
<1> QED BY <1>1, <1>2, ReplacingSteps

\* The order is told to be over only when no leg can fill.
LEMMA StepDeadHasNone ==
  ASSUME Whole, Next, Kept
  PROVE  DeadHasNone'
<1> USE DEF Whole
<1> SUFFICES ASSUME job'.at \in {"died", "dead"} PROVE ~Alive'
  BY DEF DeadHasNone
<1>1. ASSUME ~Alive, ~Post, ~Resubmit PROVE ~Alive'
  BY <1>1, NoneRises DEF Alive
<1>2. CASE job' = job
  <2>1. ~Alive /\ ~Post /\ ~Resubmit
    BY <1>2 DEF Lossless, DeadHasNone, Post, Resubmit
  <2> QED BY <1>1, <2>1
<1>3. CASE GiveUp /\ job.at = "died"
  <2>1. ~Alive /\ ~Post /\ ~Resubmit
    BY <1>3 DEF Lossless, DeadHasNone, Post, Resubmit
  <2> QED BY <1>1, <2>1
<1>4. CASE Confirmed
  <2>1. ~Alive /\ ~Post /\ ~Resubmit
    BY <1>4 DEF Confirmed, Certain, Sure, Replacing, Post, Resubmit
  <2> QED BY <1>1, <2>1
<1>5. CASE Resubmit /\ Refused(job.leg, job.qty)
  <2>1. job.leg \in Legs
    BY <1>5 DEF Resubmit, Shape, Numbered, Typed
  <2> QED BY <1>5, <2>1, RefusedLeavesNone
<1>6. ~Unanswered(job.leg, job.qty)
  BY NothingLost
<1> QED BY <1>2, <1>3, <1>4, <1>5, <1>6, JobMoves

\* The leg that can fill is the current one, once its submit is answered.
LEMMA StepLiveIsCurrent ==
  ASSUME Whole, Next, Kept
  PROVE  LiveIsCurrent'
<1> USE DEF Whole
<1> SUFFICES ASSUME ~Blank', NEW l \in Legs, Open(l)'
             PROVE  current' = l \/ job'.at \in {"posted", "resubmitted"}
  BY DEF LiveIsCurrent
<1>0. After /\ ~Crash
  BY NothingLost, AfterIsNoCrash
<1>1. CASE Blank
  <2>1. Entering
    BY <1>1 DEF Entering
  <2>2. legs' = legs /\ \E rows, c, s : Adopts(rows, c, s)
    BY <1>0, <2>1, EnterSteps
  <2>3. PICK rows, c, s : Adopts(rows, c, s)
    BY <2>2
  <2>4. Open(l)
    BY <2>2 DEF Open
  <2>5. Latest(l) /\ legs[l].st # "rejected"
    BY <2>4 DEF Lined, LiveIsLatest, Open, OpenStates
  <2>6. l = c
    BY <1>0, <2>1, <2>3, <2>5, EnterFacts
  <2> QED BY <2>3, <2>6 DEF Adopts
<1>2. CASE Post \/ Resubmit
  <2>1. ~Alive' \/ job'.at \in {"posted", "resubmitted"}
    <3>1. CASE Post
      <4>1. job'.at = "posted" \/ Refused(0, job.want) \/ Unanswered(0, job.want)
        <5>1. [job EXCEPT !.at = "posted"].at = "posted"
          BY DEF Typed, Job
        <5> QED BY <3>1, <5>1 DEF Post, Goto
      <4>2. 0 \in Legs
        BY TZAssumption DEF Legs
      <4> QED BY <3>1, <4>1, <4>2, RefusedLeavesNone, NothingLost
    <3>2. CASE Resubmit
      <4>1. job'.at = "resubmitted" \/ Refused(job.leg, job.qty) \/ Unanswered(job.leg, job.qty)
        <5>1. [job EXCEPT !.at = "resubmitted"].at = "resubmitted"
          BY DEF Typed, Job
        <5> QED BY <3>2, <5>1 DEF Resubmit, Goto
      <4>2. job.leg \in Legs
        BY <3>2 DEF Resubmit, Shape, Numbered, Typed
      <4> QED BY <3>2, <4>1, <4>2, RefusedLeavesNone, NothingLost
    <3> QED BY <1>2, <3>1, <3>2
  <2> QED BY <2>1 DEF Alive
<1>3. CASE ~Blank /\ ~Post /\ ~Resubmit
  <2>1. Open(l)
    BY <1>3, NoneRises
  <2>2. CASE Register
    <3>1. l = 0
      BY <2>1, <2>2 DEF Register, Certain, Newest
    <3> QED BY <2>2, <3>1 DEF Register
  <2>3. CASE Switch
    <3>1. l = job.leg
      BY <2>1, <2>3 DEF Switch, Certain, Newest
    <3> QED BY <2>3, <3>1 DEF Switch
  <2>4. current = l \/ job.at \in {"posted", "resubmitted"}
    BY <1>3, <2>1 DEF Lossless, LiveIsCurrent
  <2>5. CASE ApplySnapshot
    <3>1. PICK c : c = CurrentLeg(snapshot)
      OBVIOUS
    <3>2. job.at \in {"idle", "cancel", "await", "give up"} /\ syncing = "apply"
      BY <2>5, ListTells
    <3>3. current = l /\ l # NoLeg
      <4>1. NoLeg \notin Legs
        BY TZAssumption DEF NoLeg, Legs
      <4> QED BY <2>4, <3>2, <4>1
    <3>4. Listed(l)
      <4>1. Known(l)
        BY <2>1 DEF Open, OpenStates, Known
      <4> QED BY <3>2, <4>1 DEF Lossless, StartIsCalm
    <3>5. c = l
      BY <2>5, <3>1, <3>3, <3>4, ListFacts
    <3> QED BY <2>5, <3>1, <3>3, <3>5, ListFacts
  <2>6. CASE current' = current /\ ~Register /\ ~Switch
    <3>1. job.at \in {"posted", "resubmitted"} => job' = job
      BY <1>0, <1>3, <2>6, JobMoves DEF EmitAccepted, StartReplace, CancelOld, TimesOut,
         GiveUp, Confirmed, EmitReplaced, EmitDead
    <3> QED BY <2>4, <2>6, <3>1
  <2>7. CASE (PollApply \/ Boot) /\ Restore(polled)
    <3>1. job' = job /\ (current' = current \/ job.at = "posted")
      BY <1>0, <1>3, <2>7, RestoreSteps
    <3> QED BY <2>4, <3>1
  <2> QED BY <1>0, <2>2, <2>3, <2>5, <2>6, <2>7, HeadSteps
<1> QED BY <1>1, <1>2, <1>3

LEMMA StepSizeIsWanted ==
  ASSUME Whole, Next, Kept
  PROVE  SizeIsWanted'
<1> USE DEF Whole
<1>1. ASSUME job'.at # "idle", ~\E q \in Qtys : StartReplace(q), ~Post
      PROVE  Before /\ After /\ ~Waiting /\ ~Boot
  <2>1. ~Blank'
    BY <1>1 DEF Blank
  <2>2. After /\ ~Crash
    BY <2>1, NothingLost, AfterIsNoCrash
  <2>3. job.at # "idle"
    BY <1>1, <2>2, JobMoves DEF Register, EmitAccepted, CancelOld, TimesOut, GiveUp, Confirmed,
       Resubmit, Switch, EmitReplaced, EmitDead
  <2>4. ~Waiting
    BY <2>3, WaitingListens
  <2> QED BY <2>2, <2>3, <2>4 DEF Blank, Boot, Waiting
<1>2. Starting \/ ~ApplySnapshot
  BY ListTells
<1>3. Starting => job.at \in {"idle", "cancel", "await", "give up"}
  BY DEF Lossless, StartIsCalm
<1>4. reqQty \in Nat /\ job.want \in Nat
  BY DEF Typed, Job
<1>5. CASE \E q \in Qtys : StartReplace(q)
  <2>1. PICK q \in Qtys : StartReplace(q)
    BY <1>5
  <2>2. job' = [IdleJob EXCEPT !.at = "cancel", !.orig = reqQty, !.want = q, !.leg = Target]
        /\ reqQty > 0 /\ reqQty' = reqQty
    BY <2>1 DEF StartReplace, memory
  <2>3. job'.at = "cancel"
    BY <2>2 DEF IdleJob
  <2> QED BY <2>2, <2>3 DEF SizeIsWanted
<1>6. CASE Post
  <2>1. job'.at \in {"posted", "idle"}
    <3>1. [job EXCEPT !.at = "posted"].at = "posted" /\ IdleJob.at = "idle"
      BY DEF Typed, Job, IdleJob
    <3> QED BY <1>6, <3>1 DEF Post, Goto
  <2>2. reqQty' = 0
    BY <1>6 DEF Post, memory, Shape, Numbered
  <2> QED BY <2>1, <2>2 DEF SizeIsWanted, Replacing
<1>7. CASE ~Post /\ ~\E q \in Qtys : StartReplace(q)
  <2>1. ASSUME job'.at \in {"cancel", "await", "resubmit", "resubmitted", "replaced"}
        PROVE  reqQty' > 0 /\ (reqQty' = reqQty \/ (Confirmed /\ Remaining # 0 /\ reqQty' = Total))
    <3>1. Before /\ After
      BY <1>1, <1>7, <2>1
    <3>2. ~Register
      BY <2>1, JobMoves DEF Register, Goto, Typed, Job
    <3>3. CASE Confirmed /\ Remaining # 0 /\ reqQty' = Total
      <4>1. Executed(seen) \in Nat /\ Total \in Nat
        BY ExecutedNat DEF Typed, Job, Total
      <4>2. Total > 0
        BY <3>3, <4>1 DEF Remaining, Minus
      <4> QED BY <3>3, <4>2
    <3>4. job.at \in {"cancel", "await", "resubmit", "resubmitted"} \/ job' = job
      BY <1>7, <2>1, <3>1, JobMoves, AfterIsNoCrash DEF CancelOld, Confirmed, Resubmit, Switch
    <3>5. reqQty > 0
      BY <2>1, <3>4 DEF Lossless, SizeIsWanted, Replacing
    <3>6. reqQty # 0
      BY <3>5
    <3> QED BY <3>1, <3>2, <3>3, <3>5, <3>6, SizeSteps
  <2>2. ASSUME job'.at = "posted" PROVE reqQty' \in {0, job'.want}
    <3>1. job' = job /\ Before /\ After /\ ~Waiting
      BY <1>1, <1>7, <2>2, JobMoves
    <3>2. reqQty \in {0, job.want}
      BY <2>2, <3>1 DEF Lossless, SizeIsWanted
    <3>3. ~ApplySnapshot
      BY <1>2, <1>3, <2>2, <3>1
    <3>4. ~Register
      BY <2>2, JobMoves DEF Register, Goto, Typed, Job
    <3>5. ~Confirmed
      BY <2>2, <3>1 DEF Confirmed
    <3>6. CASE Restore(polled) /\ reqQty = 0
      <4>1. PICK c : c = CurrentLeg(polled)
        OBVIOUS
      <4>2. PICK s : s = Restored(polled, c, FALSE)
        OBVIOUS
      <4>3. reqQty' = RestoredQty(polled, c, s)
        BY <3>6, <4>1, <4>2 DEF Restore
      <4>4. CASE c = NoLeg
        BY <3>6, <4>3, <4>4 DEF RestoredQty
      <4>5. CASE c # NoLeg
        <5>1. c \in Legs /\ Polled(c)
          BY <4>1, <4>5, CurrentLegOfRows DEF Typed, Polled
        <5>2. \A l \in Legs : Polled(l) => l = 0
          BY <2>2, <3>1 DEF Lined, Landed, Shape, Truthful
        <5>3. c = 0 /\ Present(polled) \ {c} = {}
          BY <5>1, <5>2 DEF Present, Polled
        <5>4. polled[c].qty = job.want /\ polled[c].qty \in Nat
          BY <2>2, <3>1, <5>1, <5>3 DEF Books, ReadIsTraded, Lined, Landed, Typed, Leg
        <5>5. SumFunctionOnSet(s, {}) = 0
          BY SumEmpty
        <5>6. reqQty' = 0 + job.want
          BY <3>6, <4>3, <4>5, <5>3, <5>4, <5>5 DEF RestoredQty
        <5> QED BY <1>4, <3>1, <5>6
      <4> QED BY <4>4, <4>5
    <3> QED BY <3>1, <3>2, <3>3, <3>4, <3>5, <3>6, SizeSteps
  <2>3. ASSUME job'.at \in {"resubmit", "resubmitted", "replaced"} PROVE job'.want = reqQty'
    <3>1. CASE job' = job
      <4>1. ~Confirmed
        BY <2>3, <3>1 DEF Confirmed
      <4> QED BY <2>1, <2>3, <3>1, <4>1 DEF Lossless, SizeIsWanted
    <3>2. CASE Confirmed /\ Remaining # 0
      <4> HIDE DEF Remaining, Total
      <4>1. [job EXCEPT !.at = "resubmit", !.qty = Remaining, !.want = Total, !.leg = seq + 1].want = Total
        BY DEF Typed, Job
      <4> QED BY <3>2, <4>1 DEF Confirmed
    <3>3. CASE Resubmit \/ Switch
      <4>1. reqQty' = reqQty /\ job.at \in {"resubmit", "resubmitted"}
        BY <3>3 DEF Resubmit, Switch, memory
      <4>2. job'.want = job.want
        BY <2>3, <3>3, JobMoves DEF Resubmit, Switch, Goto, Typed, Job
      <4> QED BY <4>1, <4>2 DEF Lossless, SizeIsWanted
    <3> QED BY <1>7, <2>3, <3>1, <3>2, <3>3, JobMoves
  <2> QED BY <2>1, <2>2, <2>3 DEF SizeIsWanted, Replacing
<1> QED BY <1>5, <1>6, <1>7

LEMMA MinusCovers ==
  ASSUME NEW a \in Nat, NEW b \in Nat, NEW n \in Nat, b <= n
  PROVE  Minus(a, b) + n >= a
BY DEF Minus

\* The size is settled while a leg can fill.
LEMMA WantedStays ==
  ASSUME Whole, Next, Kept, Alive, ~Blank, ~Crash, ~Post, ~Resubmit
  PROVE  Wanted' = Wanted /\ reqQty' \in Nat /\ Wanted \in Nat
<1> USE DEF Whole
<1>1. ~Blank'
  BY BlankSteps
<1>2. Before /\ After /\ Sized
  BY <1>1, NothingLost
<1>3. ~Confirmed
  BY DEF Confirmed, Certain, Sure, Replacing
<1>4. job.at # "posted" => reqQty # 0
  BY <1>2 DEF Sized, Unsized, Alive, Open, OpenStates, Known
<1>5. reqQty' \in Nat /\ Wanted \in Nat
  BY StepTyped DEF Typed, Job, Wanted
<1>6. CASE Register
  <2>1. [job EXCEPT !.at = "accepted"].at = "accepted"
    BY DEF Typed, Job
  <2> QED BY <1>5, <1>6, <2>1 DEF Register, Goto, Wanted
<1>7. CASE ~Register
  <2>1. job' = job \/ (job.at # "posted" /\ job'.at # "posted")
    BY <1>7, JobMoves DEF EmitAccepted, StartReplace, CancelOld, TimesOut,
       GiveUp, Confirmed, EmitReplaced, EmitDead, Switch
  <2>2. job.at # "posted" => reqQty' = reqQty
    BY <1>2, <1>3, <1>4, <1>7, SizeSteps
  <2> QED BY <1>5, <2>1, <2>2 DEF Wanted
<1> QED BY <1>6, <1>7

\* While a leg can fill, what is told or waits to be told keeps the order working.
LEMMA AliveIsTold ==
  ASSUME Whole, Next, Kept, Alive', ~Post, ~Resubmit, ~Crash, ~EmitReplaced
  PROVE  /\ Alive
         /\ \/ UNCHANGED <<told, inbox, up>>
            \/ /\ FoldOldest /\ Covering(Head(inbox), reqQty)
               /\ UNCHANGED <<legs, job, up>> /\ Waiting
            \/ /\ Boot /\ ToldWorking(told') /\ UNCHANGED <<legs, job, inbox>> /\ Waiting
               /\ told'.leaves + Executed(Booked) >= reqQty'
            \/ \E e, d \in Events :
                 /\ EmitBoth(e, d) /\ UNCHANGED <<legs, up>>
                 /\ e = NoEvent \/ Covering(e, Wanted')
                 /\ d = NoEvent \/ Covering(d, Wanted')
<1> USE DEF Whole
<1>1. Alive
  BY NoneRises DEF Alive
<1>2. PICK k \in Legs : Open(k) /\ Latest(k) /\ Known(k) /\ legs[k].st # "rejected"
  BY <1>1 DEF Alive, Lined, LiveIsLatest, Open, OpenStates, Known
<1>3. told \in Told /\ inbox \in Seq(Event)
  BY DEF Recorded
<1>4. ~Boot => up' = up
  BY NothingLost
<1>5. CASE UNCHANGED core /\ ~Boot
  BY <1>1, <1>4, <1>5 DEF core
<1>6. CASE FoldOldest
  <2>1. Head(inbox) \in Mail
    BY <1>3, <1>6, OldestIsMail
  <2>2. Covering(Head(inbox), reqQty)
    BY <1>1, <2>1 DEF Lossless, MailCovers
  <2>3. Waiting /\ UNCHANGED <<legs, job, up>>
    BY <1>6 DEF FoldOldest, Waiting, broker
  <2> QED BY <1>1, <1>6, <2>2, <2>3
<1>7. CASE EmitAccepted
  <2>1. EmitBoth(OrderAccepted, NoEvent) /\ UNCHANGED <<legs, up>>
    BY <1>7 DEF EmitAccepted, Emit, broker
  <2>2. OrderAccepted \in Events /\ NoEvent \in Events
    BY PlainEvents
  <2>3. Covering(OrderAccepted, Wanted')
    BY DEF Covering, OrderAccepted, NoEvent
  <2> QED BY <1>1, <2>1, <2>2, <2>3
<1>8. ~EmitDead
  BY <1>1 DEF EmitDead, Lossless, DeadHasNone
<1>9. CASE ReadFrame
  <2>1. PICK e, d : e = FrameFill(Head(frames)) /\ d = FrameNews(Head(frames))
    OBVIOUS
  <2>2. /\ EmitBoth(e, d) /\ e \in Events /\ d \in Events
    BY <1>9, <2>1, FrameIsRead DEF Says
  <2>3. /\ d \in {NoEvent, OrderAccepted}
        /\ e = NoEvent \/ \E cum, left \in Nat : /\ e = OrderFilled(cum, left) /\ left > 0
                                                 /\ left + Executed(Booked) >= Wanted
    <3>1. legs[k].st \in {"open", "pending", "canceled"} /\ legs[k].st # "canceled"
      BY <1>2 DEF Open, OpenStates
    <3> QED BY <1>1, <1>2, <1>9, <2>1, <3>1, FrameCovers
  <2>4. UNCHANGED <<legs, job, reqQty, up>>
    BY <1>9 DEF ReadFrame, broker
  <2>5. Wanted' = Wanted
    BY <2>4 DEF Wanted
  <2>6. d = NoEvent \/ Covering(d, Wanted')
    BY <2>3 DEF Covering, OrderAccepted, NoEvent
  <2>7. e = NoEvent \/ Covering(e, Wanted')
    <3> SUFFICES ASSUME NEW cum \in Nat, NEW left \in Nat, e = OrderFilled(cum, left), left > 0,
                        left + Executed(Booked) >= Wanted
                 PROVE  Covering(e, Wanted')
      BY <2>3
    <3>1. e.kind = "filled" /\ e.leaves = left
      BY DEF OrderFilled, NoEvent
    <3> QED BY <2>5, <3>1 DEF Covering
  <2> QED BY <1>1, <2>2, <2>4, <2>6, <2>7
<1>10. CASE ApplySnapshot
  <2>1. /\ ListLeg # NoLeg => ListFill = NoEvent /\ EmitBoth(ListFill, ListNews)
        /\ job.at \in {"idle", "cancel", "await", "give up"}
        /\ UNCHANGED <<legs, job, up>>
    BY <1>10, ListTells
  <2>2. ListLeg # NoLeg /\ Covering(ListNews, reqQty') /\ ListNews \in Events
    BY <1>1, <1>10, ListCovers
  <2>3. Wanted' = reqQty'
    BY <2>1 DEF Wanted
  <2>4. NoEvent \in Events
    BY PlainEvents
  <2>5. EmitBoth(NoEvent, ListNews) /\ Covering(ListNews, Wanted')
    BY <2>1, <2>2, <2>3
  <2> QED BY <1>1, <2>1, <2>2, <2>4, <2>5
<1>11. CASE Boot
  <2>1. /\ ~up /\ up' /\ Restore(polled) /\ Present(polled) = Present(legs)
        /\ UNCHANGED <<legs, inbox, job>> /\ Waiting /\ job.at = "idle"
    BY <1>11, NothingLost, WaitingListens DEF Waiting
  <2>2. Polled(k) /\ polled \in [Legs -> Leg] /\ current \in Maybe
    BY <1>2, <2>1 DEF Present, Polled, Known, Typed
  <2>3. OpenRow(polled[k])
    BY <1>2, <2>2 DEF Shape, Truthful, OpenRow, Open
  <2>4. k # NoLeg
    BY TZAssumption DEF NoLeg, Legs
  <2>5. PICK c : c = CurrentLeg(polled)
    OBVIOUS
  <2>6. c = k
    <3>1. CASE current = NoLeg
      <4>1. \A l \in Legs : l # k => ~OpenRow(polled[l])
        BY <1>2, <2>1 DEF Certain, PollBehind, Still
      <4> QED BY <2>2, <2>3, <2>5, <3>1, <4>1, BootTakesTheLiveLeg
    <3>2. CASE current # NoLeg
      <4>1. current = k
        BY <1>2, <2>1, <3>2 DEF Blank, Lossless, LiveIsCurrent
      <4>2. current \in Present(polled)
        BY <2>2, <4>1 DEF Present, Polled
      <4> QED BY <2>2, <2>5, <4>1, <4>2, CurrentLegOfRows
    <3> QED BY <3>1, <3>2
  <2>7. current' = k
    BY <2>1, <2>4, <2>5, <2>6 DEF Restore
  <2>8. Sized' /\ Typed'
    BY <2>4, <2>7, SizedNext, StepTyped DEF Blank
  <2>9. reqQty' \in Nat /\ reqQty' # 0
    <3>1. Open(k)'
      BY <1>2, <2>1 DEF Open
    <3> QED BY <1>2, <2>1, <2>8, <3>1 DEF Sized, Unsized, Typed, Known, Open, OpenStates
  <2>10. PICK o : o = DomainOrder(seen', reqQty', polled, c)
    OBVIOUS
  <2>11. o \in Told /\ o.exec = Executed(seen') /\ seen' = Restored(polled, c, FALSE)
         /\ reqQty' = RestoredQty(polled, c, seen')
    <3>1. seen' = Restored(polled, c, FALSE) /\ reqQty' = RestoredQty(polled, c, seen')
      BY <2>1, <2>5 DEF Restore
    <3>2. CurrentLeg(polled) # NoLeg
      BY <2>4, <2>5, <2>6
    <3> QED BY <2>1, <2>5, <2>10, <3>1, <3>2, RestoreIsRead
  <2>12. told' = o
    <3>1. lost' # lost \cup {"list"}
      BY DEF Kept
    <3> QED BY <1>11, <2>4, <2>5, <2>6, <2>10, <2>11, <3>1 DEF Boot
  <2>13. o.leaves = Minus(reqQty', o.exec) /\ o.status \in WorkingStates
    <3>1. o.leaves = Minus(reqQty', o.exec)
      BY <2>9, <2>10 DEF DomainOrder
    <3>2. o.status \in WorkingStates
      BY <2>3, <2>6, <2>10 DEF DomainOrder, OpenRow, OpenStates, Status, WorkingStates
    <3> QED BY <3>1, <3>2
  <2>14. Executed(seen') <= Executed(Booked) /\ Executed(seen') \in Nat /\ Executed(Booked) \in Nat
    <3>1. seen' \in [Legs -> Nat] /\ \A l \in Legs : seen'[l] <= legs[l].exec
      BY <2>1, RestoreIsRead
    <3>2. Booked \in [Legs -> Nat]
      BY WeightsNat
    <3> QED BY <3>1, <3>2, ExecutedRises, ExecutedNat DEF Booked
  <2>15. told'.leaves + Executed(Booked) >= reqQty'
    BY <2>9, <2>11, <2>12, <2>13, <2>14, MinusCovers
  <2>16. ToldWorking(told')
    BY <2>12, <2>13 DEF ToldWorking
  <2> QED BY <1>1, <1>11, <2>1, <2>15, <2>16
<1> QED BY <1>5, <1>6, <1>7, <1>8, <1>9, <1>10, <1>11, Telling

\* What waits to be told goes on covering what may fill.
LEMMA OldMailCovers ==
  ASSUME Whole, Next, Kept, Alive, ~Crash, ~Post, ~Resubmit, NEW x \in Mail
  PROVE  Covering(x, reqQty)' /\ job' = job /\ job.at = "idle"
<1> USE DEF Whole
<1>1. inbox # <<>> /\ Waiting
  BY DEF Mail, Waiting, Recorded
<1>2. job.at = "idle" /\ job' = job
  BY <1>1, WaitingListens, JobMoves DEF Submits
<1>3. ~Blank
  BY <1>1, AliveIsHeld
<1>4. Wanted' = Wanted
  BY <1>3, WantedStays
<1>5. reqQty' = reqQty
  BY <1>2, <1>4 DEF Wanted
<1>6. Covering(x, reqQty)
  BY DEF Lossless, MailCovers
<1>7. Booked \in [Legs -> Nat] /\ Booked' \in [Legs -> Nat]
  BY StepTyped DEF Typed, Leg, Booked
<1>8. Executed(Booked) <= Executed(Booked')
  <2>1. \A l \in Legs : Booked[l] <= Booked'[l]
    BY LegsGrow DEF Booked
  <2> QED BY <1>7, <2>1, ExecutedRises
<1>9. Executed(Booked) \in Nat /\ Executed(Booked)' \in Nat /\ Executed(Booked)' = Executed(Booked')
  <2>1. Executed(Booked)' = Executed(Booked')
    BY DEF Executed
  <2> QED BY <1>7, <2>1, ExecutedNat
<1>10. x \in Event /\ reqQty \in Nat
  BY DEF Mail, Recorded, Typed
<1>11. x.leaves \in Nat
  BY <1>10 DEF Event
<1>12. x.leaves + Executed(Booked) >= reqQty => x.leaves + Executed(Booked)' >= reqQty'
  BY <1>5, <1>8, <1>9, <1>10, <1>11
<1>13. Covering(x, reqQty)'
  BY <1>6, <1>12 DEF Covering
<1> QED BY <1>2, <1>13

\* The submits: what is answered is told by the steps that follow.
LEMMA SubmitTells ==
  ASSUME Whole, Next, Kept, Alive', Post \/ Resubmit
  PROVE  /\ UNCHANGED core /\ ~Waiting /\ ToldWorking(told)
         /\ \/ Resubmit /\ job'.at = "resubmitted"
            \/ Post /\ job'.at = "posted" /\ job'.want = job.want /\ told.leaves = job.want
<1> USE DEF Whole
<1>1. CASE Post
  <2>1. 0 \in Legs
    BY TZAssumption DEF Legs
  <2>2. ~Refused(0, job.want) /\ ~Unanswered(0, job.want)
    BY <1>1, <2>1, RefusedLeavesNone, NothingLost
  <2>3. Lands(0, job.want) /\ Goto("posted") /\ UNCHANGED core
    BY <1>1, <2>2 DEF Post
  <2>4. job'.at = "posted" /\ job'.want = job.want
    BY <2>3 DEF Goto, Typed, Job
  <2>5. ToldWorking(told) /\ told.leaves = job.want
    BY <1>1 DEF Post, Lossless, Fresh
  <2>6. ~Waiting
    BY <1>1, WaitingListens DEF Submits
  <2> QED BY <1>1, <2>3, <2>4, <2>5, <2>6
<1>2. CASE Resubmit
  <2>1. job.leg \in Legs
    BY <1>2 DEF Resubmit, Shape, Numbered, Typed
  <2>2. ~Refused(job.leg, job.qty) /\ ~Unanswered(job.leg, job.qty)
    BY <1>2, <2>1, RefusedLeavesNone, NothingLost
  <2>3. Goto("resubmitted") /\ UNCHANGED core
    BY <1>2, <2>2 DEF Resubmit
  <2>4. job'.at = "resubmitted"
    BY <2>3 DEF Goto, Typed, Job
  <2>5. ToldWorking(told)
    BY <1>2 DEF Resubmit, Lossless, SureIsLast, Sure
  <2>6. ~Waiting
    BY <1>2, WaitingListens
  <2> QED BY <1>2, <2>3, <2>4, <2>5, <2>6
<1> QED BY <1>1, <1>2

\* An order the core calls done has no leg that can fill.
LEMMA StepDoneIsDead ==
  ASSUME Whole, Next, Kept
  PROVE  DoneIsDead'
<1> USE DEF Whole
<1> SUFFICES ASSUME Alive' PROVE ToldWorking(told')
  BY DEF DoneIsDead
<1>1. CASE Post \/ Resubmit
  BY <1>1, SubmitTells DEF core
<1>2. CASE ~Post /\ ~Resubmit
  <2>1. Alive /\ ToldWorking(told)
    BY <1>2, NoneRises DEF Alive, Lossless, DoneIsDead
  <2>2. CASE Crash
    BY <2>1, <2>2 DEF Crash
  <2>3. CASE EmitReplaced
    <3>1. ~Waiting
      BY <2>3, WaitingListens
    <3>2. PICK q \in Nat : q = job.want
      BY DEF Typed, Job
    <3>3. told' = Fold(Fold(told, OrderReplaced(q)), NoEvent)
      BY <2>3, <3>1, <3>2 DEF EmitReplaced, Emit, EmitBoth, Waiting
    <3>4. told' = Replaced(told, q)
      BY <3>3 DEF Fold, OrderReplaced, NoEvent
    <3>5. told'.status = "ACCEPTED"
      BY <2>1, <3>4 DEF Replaced, Recorded, Told
    <3> QED BY <3>5 DEF ToldWorking, WorkingStates
  <2>4. CASE FoldOldest /\ Covering(Head(inbox), reqQty)
    <3>1. Head(inbox) \in Events /\ told' = Fold(told, Head(inbox))
      BY <2>4, OldestIsMail DEF Recorded, Events
    <3> QED BY <2>1, <2>4, <3>1, FoldCovers DEF Recorded
  <2>5. ASSUME NEW e \in Events, NEW d \in Events, EmitBoth(e, d),
               e = NoEvent \/ Covering(e, Wanted'), d = NoEvent \/ Covering(d, Wanted')
        PROVE  ToldWorking(told')
    <3>1. PICK n : n = Wanted'
      OBVIOUS
    <3>2. (e = NoEvent \/ Covering(e, n)) /\ (d = NoEvent \/ Covering(d, n))
      BY <2>5, <3>1
    <3> QED BY <2>1, <2>5, <3>2, EmitCovers
  <2>6. CASE ~Crash /\ ~EmitReplaced
    BY <1>2, <2>1, <2>4, <2>5, <2>6, AliveIsTold
  <2> QED BY <2>2, <2>3, <2>6
<1> QED BY <1>1, <1>2

LEMMA StepMailCovers ==
  ASSUME Whole, Next, Kept
  PROVE  MailCovers'
<1> USE DEF Whole
<1> SUFFICES ASSUME Alive', NEW x \in Mail' PROVE Covering(x, reqQty)'
  BY DEF MailCovers
<1>1. inbox' # <<>>
  BY StepRecorded DEF Mail, Recorded
<1>2. ~Crash
  BY <1>1 DEF Crash
<1>3. ~Post /\ ~Resubmit
  BY <1>1, SubmitTells DEF core, Waiting
<1>4. ~EmitReplaced
  BY <1>1, WaitingListens DEF EmitReplaced, Emit, EmitBoth, Waiting
<1>5. Alive
  BY <1>3, NoneRises DEF Alive
<1>6. CASE x \in Mail
  BY <1>2, <1>3, <1>5, <1>6, OldMailCovers
<1>7. CASE x \notin Mail
  <2>1. ~(inbox' = inbox)
    BY <1>7 DEF Mail
  <2>2. ~FoldOldest
    BY <1>7, OldestIsMail DEF Recorded
  <2>3. PICK e \in Events, d \in Events :
          /\ EmitBoth(e, d) /\ UNCHANGED <<legs, up>>
          /\ e = NoEvent \/ Covering(e, Wanted')
          /\ d = NoEvent \/ Covering(d, Wanted')
    BY <1>2, <1>3, <1>4, <2>1, <2>2, AliveIsTold
  <2>4. PICK n : n = Wanted'
    OBVIOUS
  <2>5. (e = NoEvent \/ Covering(e, n)) /\ (d = NoEvent \/ Covering(d, n))
    BY <2>3, <2>4
  <2>6. Covering(x, n) /\ Waiting
    BY <1>7, <2>3, <2>5, EmitCovers
  <2>7. job' = job /\ job.at = "idle"
    BY <1>2, <1>3, <2>6, WaitingListens, JobMoves DEF Submits
  <2>8. n = reqQty'
    BY <2>4, <2>7 DEF Wanted
  <2>9. Executed(Booked)' = Executed(Booked)
    BY <2>3 DEF Executed, Booked
  <2> QED BY <2>6, <2>8, <2>9 DEF Covering
<1> QED BY <1>6, <1>7

\* What the core counts as left covers what the live leg may still fill.
LEMMA StepLeavesCover ==
  ASSUME Whole, Next, Kept
  PROVE  LeavesCover'
<1> USE DEF Whole
<1> SUFFICES ASSUME up', Alive', job'.at \notin {"resubmitted", "replaced"}
             PROVE  told'.leaves + Executed(Booked') >= Wanted'
  BY DEF LeavesCover, Executed
<1>2. Typed' /\ Recorded' /\ ToldIsRead'
  BY StepTyped, StepRecorded, StepToldIsRead
<1>3. /\ told \in Told /\ told' \in Told /\ reqQty \in Nat /\ reqQty' \in Nat
      /\ job.want \in Nat /\ job'.want \in Nat
      /\ Booked \in [Legs -> Nat] /\ Booked' \in [Legs -> Nat]
  BY <1>2 DEF Typed, Recorded, Job, Leg, Booked
<1>4. PICK y \in Nat, z \in Nat : y = Executed(Booked) /\ z = Executed(Booked')
  BY <1>3, ExecutedNat
<1>5. y <= z
  <2>1. \A l \in Legs : Booked[l] <= Booked'[l]
    BY LegsGrow DEF Booked
  <2> QED BY <1>3, <1>4, <2>1, ExecutedRises
<1>6. told.exec <= y /\ told.exec \in Nat
  BY <1>3, <1>4 DEF Books, ToldIsRead, Told
<1>7. told.leaves \in Nat /\ told'.leaves \in Nat /\ Wanted \in Nat /\ Wanted' \in Nat
  BY <1>3 DEF Told, Wanted
<1>8. CASE Post \/ Resubmit
  <2>1. told' = told /\ job'.at = "posted" /\ job'.want = job.want /\ told.leaves = job.want
    BY <1>8, SubmitTells DEF core
  <2>2. Wanted' = job.want
    BY <2>1 DEF Wanted
  <2> QED BY <1>3, <1>4, <1>7, <2>1, <2>2
<1>9. CASE ~Post /\ ~Resubmit
  <2>1. Alive /\ ToldWorking(told) /\ ~Crash
    BY <1>9, NoneRises, NothingLost DEF Alive, Lossless, DoneIsDead
  <2>2. up => ~Blank
    BY <2>1, AliveIsHeld
  <2>3. up => Wanted' = Wanted
    BY <1>9, <2>1, <2>2, WantedStays
  <2>4. CASE EmitReplaced
    <3>1. ~Waiting /\ up /\ job.at = "replaced"
      BY <2>4, WaitingListens DEF EmitReplaced
    <3>2. PICK q \in Nat : q = job.want
      BY <1>3
    <3>3. told' = Fold(Fold(told, OrderReplaced(q)), NoEvent)
      BY <2>4, <3>1, <3>2 DEF EmitReplaced, Emit, EmitBoth, Waiting
    <3>4. told' = Replaced(told, q)
      BY <3>3 DEF Fold, OrderReplaced, NoEvent
    <3>5. told'.leaves = Minus(q, told.exec)
      BY <1>3, <2>1, <3>4 DEF Replaced, Told
    <3>6. Wanted = q
      BY <3>1, <3>2 DEF Lossless, SizeIsWanted, Wanted
    <3>7. told'.leaves + y >= q
      BY <1>4, <1>6, <3>5, MinusCovers
    <3> QED BY <1>4, <1>5, <1>7, <2>3, <3>1, <3>6, <3>7
  <2>5. ASSUME up, ~EmitReplaced PROVE told.leaves + y >= Wanted /\ Wanted' = Wanted
    <3>1. ~Switch
      <4>1. [job EXCEPT !.at = "replaced"].at = "replaced"
        BY DEF Typed, Job
      <4> QED BY <4>1 DEF Switch, Goto
    <3>2. job.at \notin {"resubmitted", "replaced"}
      BY <1>9, <2>1, <2>5, <3>1, JobMoves DEF EmitAccepted, StartReplace, CancelOld, TimesOut,
         GiveUp, Confirmed, EmitDead, Register
    <3> QED BY <1>4, <2>1, <2>3, <2>5, <3>2 DEF Lossless, LeavesCover
  <2>6. CASE UNCHANGED <<told, inbox, up>> /\ ~EmitReplaced
    <3>1. told' = told /\ up
      BY <2>6
    <3>2. told.leaves + y >= Wanted /\ Wanted' = Wanted
      BY <2>5, <2>6, <3>1
    <3> QED BY <1>4, <1>5, <1>7, <3>1, <3>2
  <2>7. CASE /\ FoldOldest /\ Covering(Head(inbox), reqQty)
             /\ UNCHANGED <<legs, job, up>> /\ Waiting
    <3>1. Head(inbox) \in Events /\ told' = Fold(told, Head(inbox)) /\ up /\ ~EmitReplaced
      BY <2>7, OldestIsMail, WaitingListens DEF Recorded, Events
    <3>2. Wanted = reqQty
      BY <2>7, WaitingListens DEF Wanted
    <3>3. told.leaves + y >= reqQty /\ Wanted' = reqQty
      BY <2>5, <3>1, <3>2
    <3>4. told'.leaves + Executed(Booked) >= reqQty
      BY <1>3, <1>4, <2>7, <3>1, <3>3, FoldCovers
    <3> QED BY <1>3, <1>4, <1>5, <1>7, <3>3, <3>4
  <2>8. CASE /\ Boot /\ ToldWorking(told') /\ UNCHANGED <<legs, job, inbox>> /\ Waiting
             /\ told'.leaves + Executed(Booked) >= reqQty'
    <3>1. Wanted' = reqQty'
      BY <2>8, WaitingListens DEF Wanted
    <3> QED BY <1>3, <1>4, <1>5, <1>7, <2>8, <3>1
  <2>9. ASSUME NEW e \in Events, NEW d \in Events, EmitBoth(e, d), UNCHANGED <<legs, up>>,
               e = NoEvent \/ Covering(e, Wanted'), d = NoEvent \/ Covering(d, Wanted'),
               ~EmitReplaced
        PROVE  told'.leaves + z >= Wanted'
    <3>1. PICK n \in Nat : n = Wanted'
      BY <1>7
    <3>2. (e = NoEvent \/ Covering(e, n)) /\ (d = NoEvent \/ Covering(d, n))
      BY <2>9, <3>1
    <3>3. told.leaves + y >= n
      BY <2>5, <2>9, <3>1
    <3>4. told'.leaves + Executed(Booked) >= n
      BY <1>4, <2>9, <3>2, <3>3, EmitCovers
    <3> QED BY <1>4, <1>5, <1>7, <3>1, <3>4
  <2>10. CASE ~EmitReplaced
    BY <1>4, <1>9, <2>1, <2>6, <2>7, <2>8, <2>9, <2>10, AliveIsTold
  <2> QED BY <1>4, <2>4, <2>10
<1> QED BY <1>8, <1>9

LEMMA StepLossless ==
  ASSUME Whole, Next, Kept
  PROVE  Lossless'
BY StepStartIsCalm, StepOfTheLatest, StepSureIsLast, StepFresh, StepEndIsReal, StepDeadHasNone,
   StepLiveIsCurrent, StepSizeIsWanted, StepLeavesCover, StepMailCovers, StepDoneIsDead
   DEF Lossless

-----------------------------------------------------------------------------
(* The invariant of what is in hand *)

LEMMA InitHeld == Init => HInv
<1> SUFFICES ASSUME Init PROVE HInv
  OBVIOUS
<1>1. SInv /\ Typed
  BY InitBooks DEF SInv, IInv
<1>2. PICK q \in 1 .. MaxQty :
        /\ job = [IdleJob EXCEPT !.at = "post", !.want = q]
        /\ told = [status |-> "SUBMITTED", qty |-> q, exec |-> 0, leaves |-> q]
  BY DEF Init
<1>3. job.at = "post" /\ job.want = q /\ ToldWorking(told) /\ told.leaves = q
  BY <1>2 DEF IdleJob, ToldWorking, WorkingStates
<1>4. Queued = {}
  BY <1>1, QueueChanges DEF Init, Queued
<1>5. ~Alive
  BY DEF Init, NoRows, NoOrder, Alive, Open, OpenStates
<1>6. up /\ ~Starting /\ syncing # "apply"
  BY DEF Init, Starting
<1>8. Mail = {}
  BY DEF Init, Mail
<1>7. Lossless
  BY <1>3, <1>4, <1>5, <1>6, <1>8 DEF Lossless, StartIsCalm, OfTheLatest, SureIsLast, Fresh, EndIsReal,
     DeadHasNone, LiveIsCurrent, SizeIsWanted, LeavesCover, MailCovers, DoneIsDead, Sure,
     Replacing, Alive
<1> QED BY <1>1, <1>7 DEF HInv

LEMMA NextHeld == HInv /\ [Next]_vars => HInv'
<1> SUFFICES ASSUME HInv, [Next]_vars PROVE HInv'
  OBVIOUS
<1>1. SInv' /\ SInv
  BY NextBooks DEF HInv
<1>2. CASE Next
  <2>2. ASSUME lost' = {} PROVE Lossless'
    <3>1. lost = {}
      BY <1>2, <2>2, LossIsRemembered
    <3>2. Whole
      BY <1>1, <3>1 DEF Whole, HInv, SInv, IInv, Sound, InHand, Before
    <3> QED BY <1>2, <2>2, <3>2, StepLossless DEF Kept
  <2> QED BY <1>1, <2>2 DEF HInv
<1>3. CASE UNCHANGED vars
  <2> USE <1>3 DEF vars, broker, stream, sync, memory, swap, engine, core
  <2>2. Lossless' = Lossless
    BY DEF Lossless, StartIsCalm, OfTheLatest, SureIsLast, Fresh, EndIsReal, DeadHasNone,
       LiveIsCurrent, SizeIsWanted, LeavesCover, MailCovers, DoneIsDead, Sure, Replacing, Alive,
       Latest, Starting, Known, Listed, Open, Queued, Booked, Executed, Wanted, Blank, Mail, Covering
  <2> QED BY <1>1, <2>2 DEF HInv
<1> QED BY <1>2, <1>3

LEMMA HeldHolds == Spec => []HInv
BY InitHeld, NextHeld, PTL DEF Spec

\* As long as nothing is lost, an order the core calls done has no leg that
\* can fill: the cancel a replace sends does not end the order, whatever the
\* order of its frames, of the timer and of a restart.
THEOREM DoneIsOver == Spec => []DoneIsDone
<1>1. HInv => DoneIsDone
  BY DEF HInv, Lossless, DoneIsDead, Alive, DoneIsDone
<1> QED BY <1>1, HeldHolds, PTL

\* As long as nothing is lost, a leg that can fill is in the hands of a quiet
\* engine: the order works for the core, a cancel reaches that leg, and what
\* the core counts as left covers all it may still fill, over restarts too.
THEOREM LiveLegIsHeld == Spec => []LiveIsHeld
<1>1. HInv => LiveIsHeld
  <2> SUFFICES ASSUME HInv, Quiet, lost = {}, NEW l \in Legs, Open(l)
               PROVE  /\ ToldWorking(told) /\ Target = l
                      /\ told.leaves >= legs[l].qty - legs[l].exec
    BY DEF LiveIsHeld
  <2>1. Typed /\ Recorded /\ Books /\ Lined /\ Sound /\ Lossless /\ up /\ job.at = "idle"
    BY DEF HInv, SInv, IInv, Sound, Quiet
  <2>14. ~Blank
    BY <2>1 DEF Lined, BlankIsUnused, Unused, Known, Open, OpenStates
  <2>15. Sized
    BY <2>14 DEF HInv, SInv, InHand
  <2>2. ToldWorking(told)
    BY <2>1 DEF Lossless, DoneIsDead, Alive
  <2>3. Target = l
    <3>1. current = l
      BY <2>1, <2>14 DEF Lossless, LiveIsCurrent
    <3>2. NoLeg \notin Legs
      BY TZAssumption DEF NoLeg, Legs
    <3> QED BY <3>1, <3>2 DEF Target
  <2>4. reqQty > 0 /\ reqQty \in Nat
    BY <2>1, <2>15 DEF Sized, Unsized, Open, OpenStates, Known, Typed
  <2>5. told.leaves + Executed(Booked) >= reqQty
    BY <2>1 DEF Lossless, LeavesCover, Wanted, Alive
  <2>6. PICK n \in Nat, m \in Nat : n = legs[l].exec /\ m = legs[l].qty
    BY <2>1 DEF Typed, Leg
  <2> DEFINE B == [Booked EXCEPT ![l] = m]
  <2>7. Booked \in [Legs -> Nat] /\ Weights \in [Legs -> Nat] /\ Booked[l] = n
    BY <2>1, <2>6, WeightsNat DEF Booked
  <2>8. B \in [Legs -> Nat] /\ Executed(B) = Executed(Booked) - n + m
    BY <2>7, ExecutedWith
  <2>9. \A k \in Legs : B[k] <= Weights[k]
    <3>1. Weights[l] = m /\ B[l] = m
      BY <2>1, <2>6, <2>7 DEF Lined, LiveIsLatest, Weights, Open, OpenStates
    <3>2. ASSUME NEW k \in Legs PROVE Booked[k] <= Weights[k]
      <4>1. legs[k] \in Leg /\ legs[k].exec <= legs[k].qty
        BY <2>1 DEF Books, Fits, Typed
      <4>2. Booked[k] = legs[k].exec /\ Weights[k] \in {legs[k].exec, legs[k].qty}
        BY DEF Booked, Weights
      <4>3. legs[k].exec \in Nat /\ legs[k].qty \in Nat
        BY <4>1 DEF Leg
      <4> QED BY <4>1, <4>2, <4>3
    <3>3. \A k \in Legs : k # l => B[k] = Booked[k]
      BY <2>7
    <3> HIDE DEF B
    <3> QED BY <2>6, <3>1, <3>2, <3>3
  <2> HIDE DEF B
  <2>10. Executed(B) <= Executed(Weights)
    BY <2>7, <2>8, <2>9, ExecutedRises
  <2>11. Executed(Weights) <= reqQty
    BY <2>1, <2>4, <2>15 DEF Sized, Within
  <2>12. /\ Executed(B) \in Nat /\ Executed(Weights) \in Nat /\ Executed(Booked) \in Nat
         /\ told.leaves \in Nat
    BY <2>1, <2>7, <2>8, ExecutedNat DEF Recorded, Told
  <2>13. told.leaves >= m - n
    BY <2>4, <2>5, <2>6, <2>8, <2>10, <2>11, <2>12
  <2> QED BY <2>2, <2>3, <2>6, <2>13
<1> QED BY <1>1, HeldHolds, PTL
=============================================================================
