------------------------- MODULE ReservationProofs -------------------------
(***************************************************************************)
(* The core commits every share that an order may still sell at the        *)
(* broker, and the account holds what all orders may still sell, for every *)
(* set of orders and every bound.                                          *)
(***************************************************************************)
EXTENDS AgreementProofs

-----------------------------------------------------------------------------
(* The book of an order, the inbox and the broker have one size of it *)

\* Messages that add up to q shares and change no size.
OfSize(i, q) ==
  {m \in Msgs : /\ ~Resized(m, i)
                /\ Filled(m, i) => m.lives[i].cum + m.lives[i].leaves = q
                /\ Listing(m, i) => m.rows[i].qty = q}
Even(o) == o.exec + o.leaves = o.qty
OneSize(i) ==
  /\ Even(orders[i])
  /\ venue[i].st # "none" => venue[i].qty = orders[i].qty
  /\ wire \in Seq(OfSize(i, orders[i].qty))
\* So has the log.
SameLog(i) == Even(logged[i]) /\ logged[i].qty = orders[i].qty

\* A change that says nothing leaves the quantities of both books.
LEMMA IdleEven ==
  ASSUME LInv, NEW i \in Orders, NEW c \in Change, Took(i, c), c.life = NoEvent
  PROVE  /\ orders'[i].qty = orders[i].qty /\ logged'[i].qty = logged[i].qty
         /\ orders'[i].exec = orders[i].exec /\ orders'[i].leaves = orders[i].leaves
         /\ logged'[i].exec = logged[i].exec /\ logged'[i].leaves = logged[i].leaves
         /\ Working(orders'[i]) => Working(orders[i])
<1>1. orders[i] \in Order /\ logged[i] \in Order /\ c.life \in Life /\ c.life.ev = "NoEvent"
  BY LInvFacts, EventParts DEF Change
<1>2. \A o \in {orders[i], logged[i]} :
        /\ Apply(o, c).exec = o.exec /\ Apply(o, c).qty = o.qty /\ Apply(o, c).leaves = o.leaves
        /\ Working(Apply(o, c)) => Working(o)
  BY <1>1, ApplyMeans DEF OwnEvents
<1> QED
  BY <1>2 DEF Took

\* What the head of the inbox leaves of an order, where it resizes nothing.
LEMMA LeavesMean ==
  ASSUME LInv, NEW i \in Orders, NEW m \in Msgs, Learns(i, m), posts[i] # 0
  PROVE  /\ Filled(m, i) => /\ orders'[i].leaves = m.lives[i].leaves
                            /\ logged'[i].leaves = m.lives[i].leaves
         /\ ~Filled(m, i) /\ ~Resized(m, i) => logged'[i].leaves = logged[i].leaves
         /\ Listing(m, i) => orders'[i].leaves = Minus(m.rows[i].qty, m.rows[i].exec)
         /\ ~SaysExec(m, i) /\ ~Resized(m, i) => orders'[i].leaves = orders[i].leaves
         /\ Resized(m, i) /\ Working(orders[i]) =>
              orders'[i].leaves = Minus(m.lives[i].qty, orders[i].exec)
<1>0. /\ orders[i] \in Order /\ logged[i] \in Order /\ m.rows[i] \in Row /\ m.lives[i] \in Life
      /\ NoEvent \in Life /\ NoEvent.ev = "NoEvent"
      /\ orders[i].status # "NONE" /\ logged[i].status # "NONE"
  BY LInvFacts, LifeTypes, EventParts, SentNoLongerWaits DEF Msgs, Custody
<1>1. ~(m.ev = "Lives" /\ Lists(m))
  BY DEF Lists
<1>2. PICK c \in Change :
        IF Lists(m) /\ Listed(m.rows[i])
        THEN /\ c.life = NoEvent
             /\ orders'[i] = Apply(Overlay(orders[i], m.rows[i]), c)
             /\ logged'[i] = Apply(logged[i], c)
        ELSE Took(i, c) /\ c.life = (IF m.ev = "Lives" THEN m.lives[i] ELSE NoEvent)
  BY DEF Learns
<1>3. CASE Listing(m, i)
  <2> DEFINE o == Overlay(orders[i], m.rows[i])
  <2>1. o \in Order /\ o.leaves = Minus(m.rows[i].qty, m.rows[i].exec)
    BY <1>0, <1>3, OverlayType, OverlayFacts DEF Listing
  <2> HIDE DEF o
  <2>2. c.life = NoEvent /\ orders'[i] = Apply(o, c) /\ logged'[i] = Apply(logged[i], c)
    BY <1>2, <1>3 DEF Listing, o
  <2>3. Apply(o, c).leaves = o.leaves
    BY <1>0, <2>1, <2>2, ApplyMeans
  <2>4. Apply(logged[i], c).leaves = logged[i].leaves
    BY <1>0, <2>2, ApplyMeans
  <2> QED BY <1>1, <1>3, <2>1, <2>2, <2>3, <2>4 DEF Listing, Filled, Resized, SaysExec
<1>4. CASE ~Listing(m, i)
  <2>1. Took(i, c) /\ c.life = (IF m.ev = "Lives" THEN m.lives[i] ELSE NoEvent)
    BY <1>2, <1>4 DEF Listing
  <2>2. /\ (c.life.ev = "OrderFilled" <=> Filled(m, i)) /\ (c.life.ev = "OrderReplaced" <=> Resized(m, i))
        /\ (m.ev = "Lives" => c.life = m.lives[i])
        /\ c.life \in Life
    BY <1>0, <2>1 DEF Filled, Resized, Change
  <2>3. /\ orders'[i] = Apply(orders[i], c) /\ logged'[i] = Apply(logged[i], c)
    BY <2>1 DEF Took
  <2>4. CASE Filled(m, i)
    <3>1. c.life = m.lives[i] /\ c.life.ev = "OrderFilled"
      BY <2>2, <2>4 DEF Filled
    <3>2. Apply(orders[i], c).leaves = c.life.leaves /\ Apply(logged[i], c).leaves = c.life.leaves
      BY <1>0, <2>2, <3>1, ApplyMeans
    <3> QED BY <1>4, <2>3, <2>4, <3>1, <3>2 DEF SaysExec, Filled, Resized
  <2>5. CASE Resized(m, i)
    <3>1. c.life = m.lives[i] /\ c.life.ev = "OrderReplaced"
      BY <2>2, <2>5 DEF Resized
    <3>2. Working(orders[i]) => Apply(orders[i], c).leaves = Minus(c.life.qty, orders[i].exec)
      BY <1>0, <2>2, <3>1, ApplyMeans
    <3> QED BY <1>4, <2>3, <2>5, <3>1, <3>2 DEF SaysExec, Filled, Resized
  <2>6. CASE ~Filled(m, i) /\ ~Resized(m, i)
    <3>1. c.life.ev \notin {"OrderFilled", "OrderReplaced"}
      BY <2>2, <2>6
    <3>2. Apply(orders[i], c).leaves = orders[i].leaves /\ Apply(logged[i], c).leaves = logged[i].leaves
      BY <1>0, <2>2, <3>1, ApplyMeans
    <3> QED BY <1>4, <2>3, <2>6, <3>2 DEF SaysExec
  <2> QED BY <2>4, <2>5, <2>6
<1> QED
  BY <1>3, <1>4

\* A step of the core's own says nothing of an order that is at the broker.
LEMMA SentIsIdle ==
  ASSUME LInv, Does, NEW i \in Orders, i \in Sells, AtVenue(i)
  PROVE  \E c \in Change : Took(i, c) /\ Restrained(i, c) /\ c.life = NoEvent
<1>1. posts[i] # 0 /\ orders[i].held.phase \notin Pretrigger /\ i \in Firm
  BY AtVenueIsSent, IdsAssumption DEF Firm
<1>2. PICK c \in Change : Took(i, c) /\ Restrained(i, c)
  BY <1>1 DEF Does, Enters
<1>3. c.life = NoEvent
  BY <1>1, <1>2 DEF Restrained, OwnLife
<1> QED
  BY <1>2, <1>3

LEMMA OwnSize ==
  ASSUME LInv, Does, NEW i \in Orders, i \in Sells, AtVenue(i), OneSize(i)
  PROVE  OneSize(i)' /\ (SameLog(i) => SameLog(i)')
<1>1. UNCHANGED <<venue, wire>>
  BY DEF Does, Quietly
<1>2. PICK c \in Change : Took(i, c) /\ c.life = NoEvent
  BY SentIsIdle
<1> QED
  BY <1>1, <1>2, IdleEven DEF OneSize, SameLog, Even

\* The step that POSTs an order.
LEMMA OwnSubmits ==
  ASSUME Does, NEW i \in Orders, ~AtVenue(i), AtVenue(i)'
  PROVE  \E r \in Requests : r.id = i /\ r.kind \in SubmitKinds /\ Submitted(r) /\ net' = net \cup {r}
<1>0. UNCHANGED venue
  BY DEF Does, Quietly
<1>1. PICK r \in net' : r.kind \in SubmitKinds /\ r.id = i /\ r \notin net
  BY <1>0 DEF AtVenue, SubmitInFlight
<1>2. ~OnlyCancels
  BY <1>1 DEF OnlyCancels, SubmitKinds
<1>3. PICK q \in Requests : net' = net \cup {q} /\ Asked(q)
  BY <1>2 DEF Does, Sent
<1>4. q = r
  BY <1>1, <1>3
<1> QED
  BY <1>1, <1>3, <1>4 DEF Asked, SubmitKinds

\* An order just sent has the size that is asked for.
LEMMA NewSize ==
  ASSUME QInv, Does, NEW i \in Orders, i \in Sells, ~AtVenue(i), AtVenue(i)'
  PROVE  OneSize(i)' /\ SameLog(i)'
<1>0. LInv /\ SInv /\ Bounded(i) /\ Fits(i) /\ i \in Known /\ UNCHANGED <<venue, wire>>
  BY IdsAssumption DEF QInv, SInv, TInv, Past, AtVenue, Known, Firm, Does, Quietly
<1> i \in Legible
  BY <1>0, KnownOrders
<1>1. PICK r \in Requests : r.id = i /\ Submitted(r)
  BY OwnSubmits
<1>2. posts[i] = 0 /\ Working(orders'[i])
  BY <1>1 DEF Submitted
<1>3. Working(logged'[i])
  BY <1>0, <1>2, OwnStands DEF Alike
<1>4. /\ orders'[i].exec = 0 /\ logged'[i].exec = 0 /\ orders'[i].qty = logged'[i].qty
      /\ orders'[i].leaves = orders'[i].qty /\ logged'[i].leaves = logged'[i].qty
      /\ orders'[i].qty \in Nat /\ logged'[i].qty \in Nat
  <2>1. Whole(orders'[i]) /\ Whole(logged'[i]) /\ orders'[i].exec = 0 /\ logged'[i].exec = 0
        /\ orders'[i].qty = logged'[i].qty
    BY <1>0, <1>2, OwnQuantities
  <2>2. orders'[i].qty \in Nat
    BY <1>1, <1>2, <2>1, QtyAssumption DEF Submitted, Whole, Requests, Qtys
  <2> QED BY <1>2, <1>3, <2>1, <2>2 DEF Whole
<1>5. venue[i].st = "none" /\ wire \in Seq(Unsaid(i))
  BY <1>0, <1>2, Numbers DEF Fits
<1>6. \A q : Unsaid(i) \subseteq OfSize(i, q)
  BY DEF Unsaid, OfSize, SaysExec, SaysSize
<1>7. wire' \in Seq(OfSize(i, orders'[i].qty))
  BY <1>0, <1>5, <1>6, SeqRises
<1> QED
  BY <1>0, <1>4, <1>5, <1>7 DEF OneSize, SameLog, Even

\* What the inbox tells of an order keeps its size.
LEMMA LearnsSize ==
  ASSUME QInv, StreamEvent, NEW i \in Orders, AtVenue(i), OneSize(i)
  PROVE  OneSize(i)' /\ (SameLog(i) => SameLog(i)')
<1> DEFINE m == Head(wire)
           q == orders[i].qty
<1>0. /\ LInv /\ Bounded(i) /\ Fits(i) /\ posts[i] # 0
      /\ wire # <<>> /\ m \in Msgs /\ wire' = Tail(wire) /\ Learns(i, m) /\ UNCHANGED venue
  BY EventSteps, AtVenueIsSent DEF QInv, SInv, TInv
<1>1. m \in OfSize(i, q) /\ wire' \in Seq(OfSize(i, q))
  <2>1. wire \in Seq(OfSize(i, q))
    BY DEF OneSize
  <2> HIDE DEF q
  <2> QED BY <1>0, <2>1
<1>2. Listing(m, i) => m.rows[i].exec <= m.rows[i].qty /\ m.rows[i].exec \in Nat /\ m.rows[i].qty \in Nat
  <2>1. CASE venue[i].st = "none"
    <3>1. wire \in Seq(Unsaid(i))
      BY <1>0, <2>1 DEF Fits
    <3>2. m \in Unsaid(i)
      BY <1>0, <3>1
    <3> QED BY <3>2 DEF Unsaid, SaysExec
  <2>2. CASE venue[i].st # "none"
    <3>1. wire \in Seq(Within(i, venue[i].exec))
      BY <1>0 DEF Bounded
    <3>2. m \in Within(i, venue[i].exec)
      BY <1>0, <3>1
    <3>3. venue[i].qty = q /\ venue[i].exec <= venue[i].qty /\ venue[i].exec \in Nat /\ venue[i].qty \in Nat
      BY <1>0, <2>2, Numbers, LInvFacts DEF OneSize, TypeInv, VenueSound
    <3>4. m.rows[i].exec \in Nat /\ m.rows[i].qty \in Nat
      BY <1>0, QtyAssumption DEF Msgs, Row, Qtys
    <3>5. Listing(m, i) => m.rows[i].qty = q /\ m.rows[i].exec <= venue[i].exec
      BY <1>1, <3>2 DEF OfSize, Within, SaysExec, SaidExec, Filled, Listing, Lists
    <3> QED BY <3>3, <3>4, <3>5
  <2> QED BY <2>1, <2>2
<1>3. \A a, b \in Nat : b <= a => b + Minus(a, b) = a
  BY DEF Minus
<1>4. ~Resized(m, i) /\ (Filled(m, i) => m.lives[i].cum + m.lives[i].leaves = q)
      /\ (Listing(m, i) => m.rows[i].qty = q)
  BY <1>1 DEF OfSize
<1>5. ~(Filled(m, i) /\ Listing(m, i)) /\ ~(Resized(m, i) /\ Listing(m, i)) /\ ~(Filled(m, i) /\ Resized(m, i))
  BY DEF Filled, Listing, Lists, Resized
<1>6. orders'[i].qty = q
  BY <1>0, <1>4, LearnsMeans DEF SaysSize
<1>7. orders'[i].exec + orders'[i].leaves = q
  <2>1. CASE Filled(m, i)
    BY <1>0, <1>4, <2>1, LearnsMeans, LeavesMean
  <2>2. CASE Listing(m, i)
    BY <1>0, <1>2, <1>3, <1>4, <2>2, LearnsMeans, LeavesMean
  <2>3. CASE ~Filled(m, i) /\ ~Listing(m, i)
    <3>1. orders'[i].exec = orders[i].exec /\ orders'[i].leaves = orders[i].leaves
      BY <1>0, <1>4, <2>3, LearnsMeans, LeavesMean DEF SaysExec
    <3> QED BY <3>1 DEF OneSize, Even
  <2> QED BY <2>1, <2>2, <2>3
<1>8. ASSUME SameLog(i) PROVE logged'[i].qty = q /\ logged'[i].exec + logged'[i].leaves = q
  <2>1. logged'[i].qty = q
    BY <1>0, <1>4, <1>8, LearnsMeans DEF SameLog
  <2>2. CASE Filled(m, i)
    BY <1>0, <1>4, <2>1, <2>2, LearnsMeans, LeavesMean
  <2>3. CASE ~Filled(m, i)
    <3>1. logged'[i].exec = logged[i].exec /\ logged'[i].leaves = logged[i].leaves
      BY <1>0, <1>4, <2>3, LearnsMeans, LeavesMean
    <3> QED BY <1>8, <2>1, <3>1 DEF SameLog, Even
  <2> QED BY <2>1, <2>2, <2>3
<1> HIDE DEF m
<1>9. OneSize(i)'
  BY <1>0, <1>1, <1>6, <1>7 DEF OneSize, Even
<1> QED
  BY <1>6, <1>8, <1>9 DEF SameLog, Even

\* What is put into the inbox adds up to the size the broker has.
LEMMA UtteredSize ==
  ASSUME LInv, NEW i \in Orders, Alone(i), \A r \in net : ~Gets(i, r), NEW m, Uttered(m)
  PROVE  /\ m \in Msgs /\ ~Resized(m, i)
         /\ Filled(m, i) => m.lives[i].cum + m.lives[i].leaves = venue[i].qty
         /\ Listing(m, i) => m.rows[i].qty = venue[i].qty
         /\ SaysExec(m, i) => venue[i].st # "none"
<1>0. /\ VenueTypeOK /\ m \in Msgs
      /\ venue[i].exec \in Nat /\ venue[i].qty \in Nat /\ venue[i].exec <= venue[i].qty
  BY LInvFacts, Numbers DEF TypeInv, VenueSound, Uttered
<1>1. ~Listed(NoRow)
  BY DEF Listed, NoRow
<1>2. ASSUME m.lives[i] = NoEvent, m.rows[i] = NoRow
      PROVE  /\ ~Resized(m, i)
             /\ Filled(m, i) => m.lives[i].cum + m.lives[i].leaves = venue[i].qty
             /\ Listing(m, i) => m.rows[i].qty = venue[i].qty
  BY <1>1, <1>2, EventParts DEF Filled, Resized, Listing
<1>3. ASSUME m.lives[i] = NoEvent,
             ~OpenAt(i) => m.rows[i] = NoRow,
             OpenAt(i) => m.rows[i].qty = venue[i].qty
      PROVE  /\ ~Resized(m, i)
             /\ Filled(m, i) => m.lives[i].cum + m.lives[i].leaves = venue[i].qty
             /\ Listing(m, i) => m.rows[i].qty = venue[i].qty
  BY <1>1, <1>3, EventParts DEF Filled, Resized, Listing
<1>4. ASSUME m.rows[i] = NoRow, m.lives[i] \in {MissedFills[i], MissedEnds[i]}
      PROVE  /\ ~Resized(m, i) /\ ~Listing(m, i)
             /\ Filled(m, i) => m.lives[i].cum + m.lives[i].leaves = venue[i].qty
  <2>1. /\ MissedEnds[i].ev \notin {"OrderFilled", "OrderReplaced"}
        /\ MissedFills[i].ev # "OrderReplaced"
        /\ MissedFills[i].ev = "OrderFilled" =>
             MissedFills[i].cum = venue[i].exec
             /\ MissedFills[i].leaves = Minus(venue[i].qty, venue[i].exec)
    BY EventParts DEF MissedFills, MissedEnds
  <2>2. venue[i].exec + Minus(venue[i].qty, venue[i].exec) = venue[i].qty
    BY <1>0 DEF Minus
  <2> QED BY <1>1, <1>4, <2>1, <2>2 DEF Filled, Resized, Listing
<1>5. ASSUME m.rows[i] = NoRow, Befalls(i, m.lives[i])
      PROVE  /\ ~Resized(m, i) /\ ~Listing(m, i)
             /\ Filled(m, i) => m.lives[i].cum + m.lives[i].leaves = venue[i].qty
  <2>1. \/ /\ m.lives[i].ev = "OrderFilled" /\ m.lives[i].cum = venue[i].exec + 1
           /\ m.lives[i].leaves = venue[i].qty - (venue[i].exec + 1)
        \/ m.lives[i].ev \in {"OrderCanceled", "OrderExpired", "OrderAccepted", "OrderRejected"}
    BY <1>5, EventParts DEF Befalls
  <2> QED BY <1>0, <1>1, <1>5, <2>1 DEF Filled, Resized, Listing
<1>6. /\ ~Resized(m, i)
      /\ Filled(m, i) => m.lives[i].cum + m.lives[i].leaves = venue[i].qty
      /\ Listing(m, i) => m.rows[i].qty = venue[i].qty
  BY <1>2, <1>3, <1>4, <1>5, UtteredParts, <1>0
<1> QED
  BY <1>0, <1>6, UtteredSays

\* Outside the core only a replace that lands changes the size of an order.
LEMMA OutsideSize ==
  ASSUME LInv, Outside, NEW i \in Orders, Alone(i), Fits(i), OneSize(i), \A r \in net : ~Gets(i, r)
  PROVE  OneSize(i)' /\ (SameLog(i) => SameLog(i)')
<1> DEFINE q == orders[i].qty
<1>0. UNCHANGED <<orders, logged>>
  BY DEF Outside, coreVars, bookVars
<1>1. venue'[i].st # "none" => venue'[i].qty = q
  <2>1. venue[i].st # "none" => venue[i].qty = q
    BY DEF OneSize
  <2>2. Executes(i) \/ Ends(i) => venue[i].st # "none"
    BY DEF Executes, Ends, OpenAt
  <2>3. ASSUME NEW r \in net, Lands(i, r) PROVE r.qty = q
    BY <2>3 DEF Lands, Fits
  <2> QED BY <2>1, <2>2, <2>3, OutsideVenue
<1>2. wire' \in Seq(OfSize(i, q))
  <2>1. wire \in Seq(OfSize(i, q))
    BY DEF OneSize
  <2>2. ASSUME NEW m, Uttered(m) PROVE m \in OfSize(i, q)
    <3>1. venue[i].st # "none" => venue[i].qty = q
      BY DEF OneSize
    <3> HIDE DEF q
    <3> QED BY <2>2, <3>1, UtteredSize DEF OfSize, SaysExec
  <2> HIDE DEF q
  <2> QED BY <2>1, <2>2, OutsidePuts
<1> QED
  BY <1>0, <1>1, <1>2 DEF OneSize, Even, SameLog

LEMMA OutsideStays ==
  ASSUME LInv, Outside, NEW i \in Orders, AtVenue(i)'
  PROVE  AtVenue(i)
<1>1. net' \subseteq net
  BY OutsideVenue
<1>2. venue'[i].st # "none" => AtVenue(i)
  <2>1. Executes(i) \/ Ends(i) \/ (\E r \in net : Gets(i, r)) => venue[i].st # "none"
    BY DEF Executes, Ends, Gets, OpenAt
  <2>2. (\E r \in net : Lands(i, r)) => SubmitInFlight(i)
    BY DEF Lands, SubmitInFlight
  <2> QED BY <2>1, <2>2, OutsideVenue DEF AtVenue
<1> QED
  BY <1>1, <1>2 DEF AtVenue, SubmitInFlight

-----------------------------------------------------------------------------
(* No replace is asked for: the size of an order never changes *)

NoReplace == \A r \in net : r.kind # "REPLACE"
Fixed(i) == AtVenue(i) => OneSize(i) /\ SameLog(i)
FInv == QInv /\ NoReplace /\ \A i \in Sells : Fixed(i)

\* What a new process lists of an order is what the broker has.
LEMMA RestoresRow ==
  ASSUME VenueTypeOK, Restarts, NEW i \in Orders
  PROVE  \E row \in Row : /\ Restored(i, row)
                          /\ Listed(row) => /\ OpenAt(i) /\ row.exec = venue[i].exec
                                            /\ row.qty = venue[i].qty
                          /\ i \notin misread' => PlainRow(row)
<1>1. PICK rows \in Readings \cup {NoRows} : OddIn(rows) \subseteq misread' /\ Restored(i, rows[i])
  BY DEF Restarts
<1>2. rows \in [Orders -> Row]
  BY <1>1, RowsType
<1>3. rows[i] \in Row
  BY <1>2
<1>4. ~Listed(NoRow) /\ NoRows[i] = NoRow
  BY DEF Listed, NoRow, NoRows
<1>5. Listed(rows[i]) => /\ OpenAt(i) /\ rows[i].exec = venue[i].exec
                         /\ rows[i].qty = venue[i].qty
  BY <1>1, <1>4, ReadingsTell
<1>6. i \notin misread' => PlainRow(rows[i])
  BY <1>1 DEF OddIn, PlainRow
<1> QED
  BY <1>1, <1>3, <1>5, <1>6

\* A process that ends leaves an empty inbox, a new one the log.
LEMMA ProcessFixed ==
  ASSUME QInv, Process, NEW i \in Orders, Fixed(i), AtVenue(i)'
  PROVE  OneSize(i)' /\ SameLog(i)'
<1>0. LInv /\ Fits(i) /\ VenueTypeOK
  BY LInvFacts DEF QInv, SInv, TInv
<1>1. CASE Dies
  <2>1. UNCHANGED venue /\ wire' = <<>>
    BY <1>1 DEF Dies
  <2>2. AtVenue(i)
    <3>1. SubmitInFlight(i)' => SubmitInFlight(i)
      <4>1. ASSUME NEW s \in net', s.kind \in SubmitKinds, s.id = i PROVE SubmitInFlight(i)
        <5>1. PICK r \in net : s.kind = r.kind /\ s.id = r.id
          BY <1>1, <4>1 DEF Dies, SubmitKinds
        <5> QED BY <4>1, <5>1 DEF SubmitInFlight
      <4> QED BY <4>1 DEF SubmitInFlight
    <3> QED BY <2>1, <3>1 DEF AtVenue
  <2>3. OneSize(i) /\ SameLog(i)
    BY <2>2 DEF Fixed
  <2>4. \/ orders'[i] = logged[i] /\ logged'[i] = logged[i]
        \/ \E c \in Change : Took(i, c) /\ c.life = NoEvent
    BY <1>1 DEF Dies
  <2>5. \A S : wire' \in Seq(S)
    BY <2>1
  <2> QED BY <1>0, <2>1, <2>3, <2>4, <2>5, IdleEven DEF OneSize, SameLog, Even
<1>2. CASE Restarts
  <2>1. UNCHANGED <<venue, wire>> /\ AtVenue(i)
    <3>1. UNCHANGED <<venue, wire>> /\ OnlyCancels
      BY <1>2 DEF Restarts
    <3> QED BY <3>1, VenueStays
  <2>2. OneSize(i) /\ SameLog(i)
    BY <2>1 DEF Fixed
  <2>3. PICK row \in Row : /\ Restored(i, row)
                           /\ Listed(row) => /\ OpenAt(i) /\ row.exec = venue[i].exec
                                             /\ row.qty = venue[i].qty
    BY <1>0, <1>2, RestoresRow
  <2>4. Listed(row) =>
          row.exec = venue[i].exec /\ row.qty = orders[i].qty /\ venue[i].qty = orders[i].qty
    BY <2>2, <2>3 DEF OneSize, OpenAt
  <2>5. /\ logged'[i].exec = logged[i].exec /\ logged'[i].leaves = logged[i].leaves
        /\ ~Listed(row) => orders'[i].leaves = logged[i].leaves
        /\ Listed(row) => orders'[i].leaves = Minus(row.qty, row.exec)
    <3>1. logged[i] \in Order
      BY <1>0, LInvFacts
    <3>2. PICK a \in Action, h \in Held :
             /\ orders'[i] = [Overlay(logged[i], row) EXCEPT !.action = a, !.held = h]
             /\ logged'[i] = [logged[i] EXCEPT !.action = a, !.held = h]
      BY <2>3 DEF Restored
    <3>3. Overlay(logged[i], row) \in Order
      BY <3>1, OverlayType
    <3>4. orders'[i].leaves = Overlay(logged[i], row).leaves
      BY <3>2, <3>3 DEF Order
    <3> QED BY <3>1, <3>2, <3>4, OverlayFacts DEF Order
  <2>6. venue[i].exec \in Nat /\ venue[i].qty \in Nat /\ venue[i].exec <= venue[i].qty
    BY <1>0, Numbers, LInvFacts DEF TypeInv, VenueSound
  <2>7. \A a, b \in Nat : b <= a => b + Minus(a, b) = a
    BY DEF Minus
  <2>8. orders'[i].qty = orders[i].qty /\ logged'[i].qty = orders[i].qty
    BY <1>0, <2>2, <2>3, <2>4, RestoredMeans DEF SameLog
  <2>9. orders'[i].exec + orders'[i].leaves = orders[i].qty
    <3>1. CASE ~Listed(row)
      BY <1>0, <2>2, <2>3, <2>5, <3>1, RestoredMeans DEF SameLog, Even
    <3>2. CASE Listed(row)
      <4>1. orders'[i].exec = venue[i].exec /\ orders'[i].leaves = Minus(venue[i].qty, venue[i].exec)
            /\ venue[i].qty = orders[i].qty
        BY <1>0, <2>3, <2>4, <2>5, <3>2, RestoredMeans
      <4>2. venue[i].exec + Minus(venue[i].qty, venue[i].exec) = venue[i].qty
        BY <2>6, <2>7
      <4> QED BY <4>1, <4>2
    <3> QED BY <3>1, <3>2
  <2>10. logged'[i].exec + logged'[i].leaves = orders[i].qty
    BY <2>2, <2>5 DEF SameLog, Even
  <2> QED BY <2>1, <2>2, <2>8, <2>9, <2>10 DEF OneSize, SameLog, Even
<1> QED
  BY <1>0, <1>1, <1>2, ProcessSteps

LEMMA NextFixed ==
  ASSUME FInv, "flatten" \notin Commands, "replace" \notin Commands, [Next]_vars
  PROVE  NoReplace' /\ \A i \in Sells : Fixed(i)'
<1>0. /\ LInv /\ NoLateWord /\ QInv /\ NoReplace
      /\ \A i \in Sells : i \in Orders /\ Alone(i) /\ Fits(i) /\ Fixed(i)
  BY IdsAssumption DEF FInv, QInv, SInv, TInv, Rest, Truth
<1>1. CASE UNCHANGED vars
  <2>1. UNCHANGED <<venue, net, wire, orders, logged>>
    BY <1>1 DEF vars, venueVars, brokerVars, coreVars, bookVars
  <2> QED BY <1>0, <2>1 DEF NoReplace, Fixed, AtVenue, SubmitInFlight, OneSize, SameLog, Even
<1>2. CASE OwnStep
  <2>1. Does
    BY <1>0, <1>2, OwnSteps
  <2>2. NoReplace'
    <3>1. CASE OnlyCancels
      BY <1>0, <3>1 DEF OnlyCancels, NoReplace
    <3>2. ASSUME NEW r \in Requests, net' = net \cup {r}, Asked(r) PROVE NoReplace'
      <4>1. r.kind # "REPLACE"
        BY <3>2 DEF Asked, Submitted, Resizes, SubmitKinds
      <4> QED BY <1>0, <3>2, <4>1 DEF NoReplace
    <3> QED BY <2>1, <3>1, <3>2 DEF Does, Sent
  <2> QED BY <1>0, <2>1, <2>2, OwnSize, NewSize DEF Fixed
<1>3. CASE StreamEvent
  <2>1. OnlyCancels /\ UNCHANGED venue
    BY <1>0, <1>3, EventSteps
  <2>2. NoReplace'
    BY <1>0, <2>1 DEF NoReplace, OnlyCancels
  <2> QED BY <1>0, <1>3, <2>1, <2>2, LearnsSize, VenueStays DEF Fixed
<1>4. CASE Process
  <2>1. NoReplace'
    <3>1. CASE Dies
      BY <1>0, <3>1 DEF Dies, NoReplace
    <3>2. CASE Restarts
      BY <1>0, <3>2 DEF Restarts, OnlyCancels, NoReplace
    <3> QED BY <1>0, <1>4, <3>1, <3>2, ProcessSteps
  <2> QED BY <1>0, <1>4, <2>1, ProcessFixed DEF Fixed
<1>5. CASE Outside
  <2>1. \A i \in Orders : \A r \in net : ~Gets(i, r)
    BY <1>0 DEF NoReplace, Gets
  <2>2. NoReplace'
    <3>1. net' \subseteq net
      BY <1>0, <1>5, OutsideSteps DEF Hushed, ClosesAll, Cuts, Returns, Executes, Ends, Gets, Lands, Refuses
    <3> QED BY <1>0, <3>1 DEF NoReplace
  <2> QED BY <1>0, <1>5, <2>1, <2>2, OutsideSize, OutsideStays DEF Fixed
<1> QED
  BY <1>0, <1>1, <1>2, <1>3, <1>4, <1>5, StepKinds

LEMMA FixedInvariant ==
  ASSUME "flatten" \notin Commands, "replace" \notin Commands
  PROVE  Spec => []FInv
<1> DEFINE All == NoReplace /\ \A i \in Sells : Fixed(i)
<1>1. Init => All
  <2> SUFFICES ASSUME Init PROVE All
    OBVIOUS
  <2>1. net = {} /\ venue = [i \in Orders |-> NoVenueOrder]
    BY DEF Init, VenueInit
  <2>2. \A i \in Orders : venue[i].st = "none"
    BY <2>1 DEF NoVenueOrder
  <2> QED BY <2>1, <2>2, IdsAssumption DEF NoReplace, Fixed, AtVenue, SubmitInFlight
<1>2. QInv /\ QInv' /\ All /\ [Next]_vars => All'
  <2> SUFFICES ASSUME QInv, All, [Next]_vars PROVE All'
    OBVIOUS
  <2>1. FInv
    BY DEF FInv
  <2> QED BY <2>1, NextFixed
<1>3. QInv /\ All => FInv
  BY DEF FInv
<1> QED
  BY <1>1, <1>2, <1>3, KnowInvariant, PTL DEF Spec

-----------------------------------------------------------------------------
(* What an order may still sell, against what the core commits *)

\* A set of sizes has a largest one.
LEMMA MaxIsIn ==
  ASSUME NEW S, S \subseteq Qtys, S # {}
  PROVE  Max(S) \in S /\ \A x \in S : x <= Max(S)
<1> DEFINE R == {n \in Nat : \A T \in SUBSET (0 .. n) : T # {} => \E x \in T : \A y \in T : x >= y}
<1>1. 0 \in R
  <2>1. ASSUME NEW T \in SUBSET (0 .. 0), T # {} PROVE \E x \in T : \A y \in T : x >= y
    <3>1. PICK t \in T : TRUE
      BY <2>1
    <3>2. \A y \in 0 .. 0 : y = 0
      OBVIOUS
    <3>3. t >= t /\ \A y \in T : y = t
      BY <2>1, <3>1, <3>2
    <3> QED BY <3>1, <3>3
  <2> QED BY <2>1
<1>2. ASSUME NEW n \in R PROVE n + 1 \in R
  <2>1. ASSUME NEW T \in SUBSET (0 .. n + 1), T # {} PROVE \E x \in T : \A y \in T : x >= y
    <3>1. CASE n + 1 \in T
      BY <2>1, <3>1
    <3>2. CASE n + 1 \notin T
      <4>1. T \in SUBSET (0 .. n)
        BY <2>1, <3>2
      <4> QED BY <1>2, <2>1, <4>1
    <3> QED BY <3>1, <3>2
  <2> QED BY <1>2, <2>1
<1>3. MaxQty \in R
  <2> HIDE DEF R
  <2>1. R \in SUBSET Nat
    BY DEF R
  <2> QED BY <1>1, <1>2, <2>1, NatReached, QtyAssumption
<1>4. \E x \in S : \A y \in S : x >= y
  BY <1>3 DEF Qtys
<1>5. \A x \in S : x \in Int
  BY QtyAssumption DEF Qtys
<1> QED
  BY <1>4, <1>5 DEF Max

\* What is exposed is what some size leaves.
LEMMA ExposureIs ==
  ASSUME LInv, NEW i \in Orders
  PROVE  \/ Exposure(i) = 0
         \/ \E q \in Sizes(i) : Exposure(i) = q - venue[i].exec
<1>1. Sizes(i) \subseteq Qtys
  <2>1. net \subseteq Requests /\ venue[i].qty \in Qtys
    BY LInvFacts DEF VenueTypeOK, VenueOrder
  <2> QED BY <2>1 DEF Sizes, Requests
<1>2. CASE Sizes(i) = {}
  BY <1>2 DEF Exposure
<1>3. CASE Sizes(i) # {}
  BY <1>1, <1>3, MaxIsIn DEF Exposure
<1> QED
  BY <1>2, <1>3

\* What the core commits is a number of shares.
LEMMA CommitsShares ==
  ASSUME LInv, NEW i \in Orders
  PROVE  CommittedLeaves(orders[i]) \in Nat
<1>1. orders[i].action \in Action /\ orders[i].exec \in Nat /\ orders[i].leaves \in Nat
  BY LInvFacts, Numbers DEF Order
<1>2. orders[i].action.qty \in Nat
  BY <1>1, QtyAssumption DEF Action, Qtys
<1>3. Minus(orders[i].action.qty, orders[i].exec) \in Nat
  BY <1>1, <1>2 DEF Minus
<1> QED
  BY <1>1, <1>3 DEF CommittedLeaves

\* An order waits in the engine; a replace of it is in doubt; what is on its way.
Waits(i) == orders[i].status = "NONE" \/ orders[i].held.phase \in Early
Pends(i) == Unresolved(orders[i], "REPLACE")
Replaces(i) == {r \in net : r.kind = "REPLACE" /\ r.id = i}

\* An order that left the engine and works commits what is left of its size in
\* the book, or of the size that a replace asks for.
LEMMA WorksCommits ==
  ASSUME LInv, NEW i \in Orders, AtVenue(i), Working(orders[i])
  PROVE  /\ CommittedLeaves(orders[i]) >= orders[i].leaves
         /\ Pends(i) => CommittedLeaves(orders[i]) >= orders[i].action.qty - orders[i].exec
         /\ ~Pends(i) => CommittedLeaves(orders[i]) = orders[i].leaves
<1>1. orders[i].held.phase \notin Pretrigger
  BY AtVenueIsSent
<1>2. /\ orders[i].leaves \in Nat /\ orders[i].exec \in Nat /\ orders[i].action.qty \in Nat
  <2>1. orders[i].action \in Action
    BY LInvFacts DEF Order
  <2> QED BY <2>1, Numbers, QtyAssumption DEF Action, Qtys
<1>3. \A a, b \in Nat : Minus(a, b) \in Nat /\ Minus(a, b) >= a - b
  BY DEF Minus
<1> DEFINE d == Minus(orders[i].action.qty, orders[i].exec)
<1>4. CommittedLeaves(orders[i]) =
        IF Pends(i) /\ d > orders[i].leaves THEN d ELSE orders[i].leaves
  BY <1>1 DEF CommittedLeaves, Pends
<1>5. d \in Nat /\ d >= orders[i].action.qty - orders[i].exec
  BY <1>2, <1>3
<1> HIDE DEF d
<1> QED
  BY <1>2, <1>4, <1>5

\* So does one that may still sell, for it works in the core, unless a list has
\* shown it under an odd status.
LEMMA CommitsLeaves ==
  ASSUME QInv, NEW i \in Sells, AtBroker(i), i \notin misread
  PROVE  i \in Orders /\ AtVenue(i) /\ Working(orders[i])
<1>0. i \in Legible
  BY IdsAssumption DEF Legible, Firm
<1>1. i \in Orders /\ LInv /\ Stands(i) /\ AtVenue(i) /\ Undone(i)
  BY <1>0, IdsAssumption DEF QInv, SInv, TInv, Truth, Afoot, Undone, AtBroker, AtVenue, OpenAt
<1>2. posts[i] # 0
  BY <1>1, AtVenueIsSent
<1> QED
  BY <1>1, <1>2, StandsWorks DEF Stands

\* The core commits all of what a working order has, or may still get, at the
\* broker; where no replace is in doubt, no less may be there.
Covers(i) ==
  /\ AtVenue(i) /\ Working(orders[i]) /\ venue[i].st # "none" =>
       venue[i].qty <= CommittedLeaves(orders[i]) + orders[i].exec
  /\ AtBroker(i) =>
       /\ \A q \in Sizes(i) : q <= CommittedLeaves(orders[i]) + orders[i].exec
       /\ ~Pends(i) => \E q \in Sizes(i) : orders[i].exec + orders[i].leaves <= q
  /\ Waits(i) => Replaces(i) = {}

LEMMA CoversReserves ==
  ASSUME QInv, NEW i \in Sells, Covers(i)
  PROVE  Exposure(i) <= CommittedLeaves(orders[i])
<1>0. /\ i \in Orders /\ LInv /\ orders[i].exec <= venue[i].exec
      /\ orders[i].exec \in Nat /\ venue[i].exec \in Nat /\ CommittedLeaves(orders[i]) \in Nat
  <2>1. i \in Orders /\ LInv /\ Bounded(i)
    BY IdsAssumption DEF QInv, SInv, TInv
  <2> QED BY <2>1, Numbers, CommitsShares DEF Bounded
<1>1. \A q \in Sizes(i) : q \in Int
  BY <1>0, LInvFacts, QtyAssumption DEF Sizes, VenueTypeOK, VenueOrder, Requests, Qtys
<1>2. \A q \in Sizes(i) : q <= CommittedLeaves(orders[i]) + orders[i].exec
  BY DEF Covers, Sizes
<1> QED
  BY <1>0, <1>1, <1>2, ExposureIs

\* An order whose size never changed is covered.
LEMMA FixedCovers ==
  ASSUME FInv, NEW i \in Sells, i \notin misread
  PROVE  Covers(i)
<1>0. i \in Orders /\ LInv /\ QInv /\ Fits(i) /\ Fixed(i) /\ NoReplace
  BY IdsAssumption DEF FInv, QInv, SInv, TInv
<1>1. AtVenue(i) => /\ orders[i].exec + orders[i].leaves = orders[i].qty
                    /\ venue[i].st # "none" => venue[i].qty = orders[i].qty
  BY <1>0 DEF Fixed, OneSize, Even
<1>2. /\ orders[i].exec \in Nat /\ orders[i].qty \in Nat /\ orders[i].leaves \in Nat
      /\ CommittedLeaves(orders[i]) \in Nat
  BY <1>0, Numbers, CommitsShares
<1>3. AtVenue(i) /\ Working(orders[i]) => orders[i].qty <= CommittedLeaves(orders[i]) + orders[i].exec
  BY <1>0, <1>1, <1>2, WorksCommits
<1>4. ASSUME AtBroker(i)
      PROVE  /\ \A q \in Sizes(i) : q <= CommittedLeaves(orders[i]) + orders[i].exec
             /\ \E q \in Sizes(i) : orders[i].exec + orders[i].leaves <= q
  <2>1. AtVenue(i) /\ orders[i].qty <= CommittedLeaves(orders[i]) + orders[i].exec
    BY <1>0, <1>3, <1>4, CommitsLeaves
  <2>2. ASSUME NEW r \in net, r.id = i, r.kind # "CANCEL" PROVE r.qty = orders[i].qty
    <3>1. r.kind \in SubmitKinds
      BY <1>0, <2>2, LInvFacts DEF NoReplace, VenueTypeOK, Requests, RequestKinds
    <3> QED BY <1>0, <2>2, <3>1 DEF Fits
  <2>3. \A q \in Sizes(i) : q = orders[i].qty
    BY <1>1, <2>1, <2>2 DEF Sizes, OpenAt
  <2>4. orders[i].qty \in Sizes(i)
    BY <1>1, <1>4, <2>1, <2>2 DEF Sizes, AtBroker, OpenAt, SubmitInFlight, SubmitKinds
  <2> QED BY <1>1, <1>2, <2>1, <2>3, <2>4
<1>5. Replaces(i) = {}
  BY <1>0 DEF Replaces, NoReplace
<1> QED
  BY <1>1, <1>3, <1>4, <1>5 DEF Covers

-----------------------------------------------------------------------------
(* Replaces are asked for, and nothing else is of an order meanwhile *)

\* What one fold does to the action and to the custody of an order.
LEMMA FoldActs ==
  ASSUME NEW o \in Order, NEW e \in Life
  PROVE  /\ FoldLife(o, e) \in Order
         /\ FoldLife(o, e).action.kind = o.action.kind /\ FoldLife(o, e).action.qty = o.action.qty
         /\ Pending(FoldLife(o, e).action) => Pending(o.action)
         /\ /\ o.action.kind = "REPLACE" /\ Working(FoldLife(o, e))
            /\ e.ev \notin {"OrderRejected", "OrderReplaced"}
            => FoldLife(o, e).action = o.action
         /\ /\ o.action.kind = "REPLACE" /\ Working(o) /\ e.ev = "OrderReplaced"
            => ~Pending(FoldLife(o, e).action)
<1>0. /\ o.action \in Action /\ FoldLife(o, e) \in Order
      /\ e.ev \in LifeKinds
  BY FoldLifeType DEF Order, Life
<1>1. /\ \A a \in Action : \A k :
            /\ Confirm(a, k) \in Action /\ Confirm(a, k).kind = a.kind /\ Confirm(a, k).qty = a.qty
            /\ (Pending(Confirm(a, k)) => Pending(a))
            /\ (a.kind # k => Confirm(a, k) = a)
            /\ (a.kind = k => ~Pending(Confirm(a, k)))
      /\ \A a \in Action : /\ Fail(a) \in Action /\ Fail(a).kind = a.kind /\ Fail(a).qty = a.qty
                           /\ ~Pending(Fail(a))
  BY DEF Confirm, Fail, Action, Pending, ActionPhases
<1>2. CASE e.ev = "NoEvent"
  BY <1>0, <1>2 DEF FoldLife
<1>3. CASE e.ev = "OrderAccepted"
  <2>1. FoldLife(o, e).action = Confirm(o.action, "SUBMIT")
    BY <1>3 DEF FoldLife, FoldAccepted, Order
  <2> QED BY <1>0, <1>1, <1>3, <2>1
<1>4. CASE e.ev = "OrderRejected"
  <2>1. FoldLife(o, e).action = Fail(o.action)
    BY <1>4 DEF FoldLife, FoldRejected, Order
  <2> QED BY <1>0, <1>1, <1>4, <2>1
<1>5. CASE e.ev = "OrderFilled"
  <2>1. FoldLife(o, e).action = Confirm(o.action, "SUBMIT")
    BY <1>5 DEF FoldLife, FoldFilled, Order
  <2> QED BY <1>0, <1>1, <1>5, <2>1
<1>6. CASE e.ev = "OrderCanceled"
  <2>1. FoldLife(o, e).action = Confirm(Confirm(o.action, "SUBMIT"), "CANCEL")
    BY <1>6 DEF FoldLife, FoldCanceled, Order
  <2> DEFINE a == Confirm(o.action, "SUBMIT")
  <2>2. /\ a \in Action /\ a.kind = o.action.kind /\ a.qty = o.action.qty /\ (Pending(a) => Pending(o.action))
        /\ o.action.kind = "REPLACE" => a = o.action
    BY <1>0, <1>1
  <2> HIDE DEF a
  <2>3. FoldLife(o, e).action = Confirm(a, "CANCEL")
    BY <2>1 DEF a
  <2> QED BY <1>0, <1>1, <1>6, <2>2, <2>3
<1>7. CASE e.ev = "OrderExpired"
  <2>1. FoldLife(o, e).action = Fail(Confirm(o.action, "SUBMIT"))
    BY <1>7 DEF FoldLife, FoldExpired, Order
  <2>2. ~Working(FoldLife(o, e))
    BY <1>7 DEF FoldLife, FoldExpired, Order, Ended, Working, WorkingStatus
  <2> QED BY <1>0, <1>1, <1>7, <2>1, <2>2
<1>8. CASE e.ev = "OrderReplaced"
  <2>1. FoldLife(o, e) = (IF Working(o)
          THEN [o EXCEPT !.status = "ACCEPTED", !.qty = e.qty, !.leaves = Minus(e.qty, o.exec),
                         !.action = Confirm(@, "REPLACE")] ELSE o)
    BY <1>8 DEF FoldLife, FoldReplaced
  <2>2. Working(o) => FoldLife(o, e).action = Confirm(o.action, "REPLACE")
    BY <2>1 DEF Order
  <2> QED BY <1>0, <1>1, <1>8, <2>1, <2>2
<1> QED
  BY <1>0, <1>2, <1>3, <1>4, <1>5, <1>6, <1>7, <1>8 DEF LifeKinds

LEMMA ApplyActs ==
  ASSUME NEW o \in Order, NEW c \in Change
  PROVE  /\ o.status # "NONE" => Apply(o, c).status # "NONE"
         /\ Apply(o, c).held = o.held \/ (Apply(o, c).held = c.held /\ c.held.phase # "KEEP")
         /\ c.action.kind # "KEEP" => Apply(o, c).action \in {c.action, o.action}
         /\ c.action.kind # "KEEP" /\ o.status # "NONE" => Apply(o, c).action = c.action
         /\ c.action.kind = "KEEP" =>
              /\ Apply(o, c).action.kind = o.action.kind /\ Apply(o, c).action.qty = o.action.qty
              /\ Pending(Apply(o, c).action) => Pending(o.action)
              /\ /\ o.action.kind = "REPLACE" /\ Working(Apply(o, c))
                 /\ c.life.ev \notin {"OrderRejected", "OrderReplaced"}
                 => Apply(o, c).action = o.action
              /\ o.action.kind = "REPLACE" /\ Working(o) /\ c.life.ev = "OrderReplaced" =>
                   ~Pending(Apply(o, c).action)
<1> DEFINE f == FoldLife(o, c.life)
<1>0. c.life \in Life
  BY DEF Change
<1>1. /\ f \in Order /\ f.held = o.held /\ (o.status # "NONE" => f.status # "NONE")
      /\ f.action.kind = o.action.kind /\ f.action.qty = o.action.qty
      /\ Pending(f.action) => Pending(o.action)
      /\ (o.action.kind = "REPLACE" /\ Working(f) /\ c.life.ev \notin {"OrderRejected", "OrderReplaced"})
           => f.action = o.action
      /\ (o.action.kind = "REPLACE" /\ Working(o) /\ c.life.ev = "OrderReplaced") => ~Pending(f.action)
  BY <1>0, FoldActs, FoldLifeCustody
<1> HIDE DEF f
<1>2. CASE o.status = "NONE"
  <2>1. Apply(o, c) = o
    BY <1>2 DEF Apply
  <2>2. ~Working(o)
    BY <1>2 DEF Working, WorkingStatus
  <2> QED BY <1>2, <2>1, <2>2
<1>3. CASE o.status # "NONE"
  <2>1. Apply(o, c) = [f EXCEPT !.action = SetAction(f.action, c.action), !.held = SetHeld(f.held, c.held)]
    BY <1>3 DEF Apply, f
  <2>2. /\ Apply(o, c).status = f.status
        /\ Apply(o, c).action = SetAction(f.action, c.action)
        /\ Apply(o, c).held = SetHeld(f.held, c.held)
    BY <1>1, <2>1 DEF Order
  <2> QED BY <1>1, <1>3, <2>2 DEF SetAction, SetHeld, Working
<1> QED
  BY <1>2, <1>3

\* Where a replace may be asked for, nothing else does away with the request:
\* the operator cancels nothing, no held order expires, no process ends.
Uneventful ==
  /\ {"flatten", "cancel", "kill", "shutdown"} \cap Commands = {} /\ "crash" \notin Upsets
  /\ HeldIds = {} \/ MaxClock < Deadline

\* No replace is asked for of an order that has not left the engine.
Aloof(i) == Waits(i) => orders[i].action.kind # "REPLACE" /\ Replaces(i) = {}

\* The one word of the inbox that resizes order i gives it q shares, and what
\* follows adds up to them.
Unresized(i) == {m \in Msgs : ~Resized(m, i)}
Resizing(i, q) ==
  {w \in Seq(Msgs) :
     \E l \in 1 .. Len(w) :
        /\ Resized(w[l], i) /\ w[l].lives[i].qty = q
        /\ \A k \in 1 .. Len(w) : /\ k # l => ~Resized(w[k], i)
                                  /\ k > l => w[k] \in OfSize(i, q)}

\* No replace is on its way; one was asked for, and the broker may have it; the
\* broker has it, and the stream is about to say so.
Steady(i) == ~Pends(i) /\ Replaces(i) = {} /\ OneSize(i)
HasAsked(i) == venue[i].st # "none" /\ venue[i].qty = orders[i].action.qty
Asking(i) ==
  /\ Pends(i)
  /\ \A r \in Replaces(i) : r.qty = orders[i].action.qty
  /\ wire \in Seq(Unresized(i))
  /\ OneSize(i) \/ HasAsked(i)
Granted(i) == Pends(i) /\ Replaces(i) = {} /\ HasAsked(i) /\ wire \in Resizing(i, venue[i].qty)
Sized(i) == AtVenue(i) /\ Working(orders[i]) => Steady(i) \/ Asking(i) \/ Granted(i)
RInv == /\ QInv /\ up /\ \A r \in net : r.live
        /\ \A i \in Sells : Aloof(i) /\ (i \in Known => Sized(i))

LEMMA MayReplace ==
  ASSUME NEW i, NEW q, Resizes(i, q)
  PROVE  ~Waits(i) /\ ~Pending(orders[i].action) /\ ~Pends(i)
  BY DEF Resizes, ReplaceRefused, Waits, IsHeld, Early, Pretrigger, Pends, Unresolved

\* A handler that touches the action of an order.
LEMMA ActsCalmly ==
  ASSUME LInv, Uneventful, NEW i \in Orders, Aloof(i), NEW a, OwnAction(i, a)
  PROVE  \/ a.kind = "KEEP"
         \/ a.kind = "CANCEL" /\ orders[i].action.kind # "REPLACE"
         \/ \E q \in 1 .. MaxQty : a = Requested("REPLACE", q) /\ Resizes(i, q)
         \/ /\ a.kind = orders[i].action.kind /\ a.qty = orders[i].action.qty
            /\ a.kind = "REPLACE" => Pending(orders[i].action) /\ Pending(a)
<1>1. now \in Nat /\ now <= MaxClock
  BY LInvFacts, ClockAssumption DEF CoreTypeOK
<1>2. ~(HeldIds # {} /\ now >= Deadline)
  BY <1>1, HeldTimeAssumption, ClockAssumption DEF Uneventful
<1>3. Cancelable(i) => orders[i].action.kind # "REPLACE"
  BY <1>2 DEF Cancelable, Uneventful, Aloof, Waits, Early
<1> QED
  BY <1>3 DEF OwnAction

LEMMA AskedReplace ==
  ASSUME Sent, NEW r \in net', r \notin net, r.kind = "REPLACE"
  PROVE  Resizes(r.id, r.qty) /\ orders'[r.id].action = Requested("REPLACE", r.qty)
<1>1. ~OnlyCancels
  BY DEF OnlyCancels
<1>2. PICK q \in Requests : net' = net \cup {q} /\ Asked(q)
  BY <1>1 DEF Sent
<1>3. q = r
  BY <1>2
<1> QED
  BY <1>2, <1>3 DEF Asked, Submitted, SubmitKinds

\* What waits in the engine was there, and nothing asks for its replace.
LEMMA OwnAloof ==
  ASSUME LInv, Uneventful, Does, NEW i \in Orders, Aloof(i)
  PROVE  /\ Waits(i)' => Waits(i)
         /\ Waits(i) => orders'[i].action.kind # "REPLACE" /\ Replaces(i)' = {}
<1>0. orders[i] \in Order /\ Sent
  BY LInvFacts DEF Does
<1>1. Enters(i) => /\ Waits(i)
                   /\ orders'[i].action.kind # "REPLACE"
  <2>1. /\ \A q, a, h : NewOrder(q, a, h).action = a
        /\ \A q : BlockedOrder(q).action = NoAction
        /\ NoAction.kind = "NONE" /\ Requested("SUBMIT", 0).kind = "SUBMIT"
    BY DEF NewOrder, BlockedOrder, NoOrder, NoAction, Requested
  <2> QED BY <2>1 DEF Enters, Opened, Waits
<1>2. ASSUME NEW c \in Change, Took(i, c), Restrained(i, c)
      PROVE  /\ Waits(i)' => Waits(i)
             /\ Waits(i) => orders'[i].action.kind # "REPLACE"
  <2>1. orders'[i] = Apply(orders[i], c) /\ OwnAction(i, c.action) /\ OwnHeld(i, c.held)
    BY <1>2 DEF Took, Restrained
  <2>2. Waits(i)' => Waits(i)
    BY <1>0, <2>1, ApplyActs DEF Waits, OwnHeld
  <2>3. ASSUME Waits(i) PROVE orders'[i].action.kind # "REPLACE"
    <3>1. orders[i].action.kind # "REPLACE"
      BY <2>3 DEF Aloof
    <3>2. c.action.kind # "REPLACE"
      BY <2>1, <2>3, <3>1, ActsCalmly, MayReplace DEF Requested
    <3> QED BY <1>0, <2>1, <3>1, <3>2, ApplyActs
  <2> QED BY <2>2, <2>3
<1>3. ASSUME Waits(i) PROVE Replaces(i)' = {}
  <2>1. ASSUME NEW s \in net', s.kind = "REPLACE", s.id = i PROVE FALSE
    <3>1. s \notin net
      BY <1>3, <2>1 DEF Aloof, Replaces
    <3> QED BY <1>0, <1>3, <2>1, <3>1, AskedReplace, MayReplace
  <2> QED BY <2>1 DEF Replaces
<1> QED
  BY <1>1, <1>2, <1>3 DEF Does

LEMMA OwnSized ==
  ASSUME QInv, Uneventful, Does, NEW i \in Orders, i \in Sells, Aloof(i), Sized(i)
  PROVE  Sized(i)'
<1>0. LInv /\ orders[i] \in Order /\ Sent /\ UNCHANGED <<venue, wire>>
  BY LInvFacts DEF QInv, SInv, TInv, Does, Quietly
<1> SUFFICES ASSUME AtVenue(i)', Working(orders'[i])
             PROVE  Steady(i)' \/ Asking(i)' \/ Granted(i)'
  BY DEF Sized
<1>1. CASE ~AtVenue(i)
  <2>1. PICK r \in Requests : r.id = i /\ Submitted(r)
    BY <1>1, OwnSubmits
  <2>2. Waits(i)
    BY <2>1 DEF Submitted, Waits, Early
  <2> QED BY <1>0, <1>1, <2>2, OwnAloof, NewSize DEF Steady, Pends, Unresolved
<1>2. CASE AtVenue(i)
  <2>1. PICK c \in Change : Took(i, c) /\ Restrained(i, c) /\ c.life = NoEvent
    BY <1>0, <1>2, SentIsIdle
  <2>2. Working(orders[i]) /\ orders[i].status # "NONE"
    BY <1>0, <2>1, IdleEven DEF Working, WorkingStatus
  <2>3. Steady(i) \/ Asking(i) \/ Granted(i)
    BY <1>2, <2>2 DEF Sized
  <2>4. OneSize(i) => OneSize(i)'
    BY <1>0, <1>2, OwnSize
  <2>5. orders'[i] = Apply(orders[i], c) /\ OwnAction(i, c.action)
    BY <2>1 DEF Took, Restrained
  <2>6. orders'[i].action.kind # "REPLACE" \/ Pends(i) => Replaces(i)' \subseteq Replaces(i)
    <3>1. ASSUME NEW s \in net', s.kind = "REPLACE", s.id = i, s \notin net
          PROVE  orders'[i].action.kind = "REPLACE" /\ ~Pends(i)
      <4>1. Resizes(i, s.qty) /\ orders'[i].action = Requested("REPLACE", s.qty)
        BY <1>0, <3>1, AskedReplace
      <4>2. ~Pends(i)
        BY <4>1, MayReplace
      <4> QED BY <4>1, <4>2 DEF Requested
    <3> QED BY <3>1 DEF Replaces
  <2>7. CASE \E q \in 1 .. MaxQty : c.action = Requested("REPLACE", q) /\ Resizes(i, q)
    <3>1. PICK q \in 1 .. MaxQty : c.action = Requested("REPLACE", q) /\ Resizes(i, q)
      BY <2>7
    <3>2. Steady(i)
      BY <2>3, <3>1, MayReplace DEF Asking, Granted
    <3>3. orders'[i].action = Requested("REPLACE", q)
      BY <1>0, <2>2, <2>5, <3>1, ApplyActs DEF Requested
    <3>4. Pends(i)' /\ orders'[i].action.qty = q
      BY <3>3 DEF Pends, Unresolved, Pending, Requested
    <3>5. ASSUME NEW s \in net', s.kind = "REPLACE", s.id = i PROVE s.qty = q
      <4>1. s \notin net
        BY <3>2, <3>5 DEF Steady, Replaces
      <4>2. orders'[i].action = Requested("REPLACE", s.qty)
        BY <1>0, <3>5, <4>1, AskedReplace
      <4> QED BY <3>3, <4>2 DEF Requested
    <3>6. wire' \in Seq(Unresized(i))
      <4>1. wire \in Seq(OfSize(i, orders[i].qty)) /\ OfSize(i, orders[i].qty) \subseteq Unresized(i)
        BY <3>2 DEF Steady, OneSize, OfSize, Unresized
      <4> QED BY <1>0, <4>1, SeqRises
    <3>7. Asking(i)'
      BY <2>4, <3>2, <3>4, <3>5, <3>6 DEF Asking, Steady, Replaces
    <3> QED BY <3>7
  <2>8. CASE c.action.kind = "CANCEL" /\ orders[i].action.kind # "REPLACE"
    <3>1. orders'[i].action.kind = "CANCEL"
      BY <1>0, <2>2, <2>5, <2>8, ApplyActs
    <3>2. Steady(i)
      BY <2>3, <2>8 DEF Asking, Granted, Pends, Unresolved
    <3> QED BY <2>4, <2>6, <3>1, <3>2 DEF Steady, Pends, Unresolved
  <2>9. ASSUME \/ c.action.kind = "KEEP"
               \/ /\ c.action.kind = orders[i].action.kind /\ c.action.qty = orders[i].action.qty
                  /\ c.action.kind = "REPLACE" => Pending(orders[i].action) /\ Pending(c.action)
        PROVE  Steady(i)' \/ Asking(i)' \/ Granted(i)'
    <3>1. /\ orders'[i].action.kind = orders[i].action.kind
          /\ orders'[i].action.qty = orders[i].action.qty
          /\ orders[i].action.kind = "REPLACE" =>
               (Pending(orders'[i].action) <=> Pending(orders[i].action))
      <4>1. NoEvent.ev \notin {"OrderRejected", "OrderReplaced"}
        BY EventParts
      <4>2. CASE c.action.kind = "KEEP"
        BY <1>0, <2>1, <2>5, <4>1, <4>2, ApplyActs
      <4>3. CASE c.action.kind # "KEEP"
        BY <1>0, <2>2, <2>5, <2>9, <4>3, ApplyActs
      <4> QED BY <4>2, <4>3
    <3>2. Pends(i)' <=> Pends(i)
      BY <3>1 DEF Pends, Unresolved
    <3>3. Replaces(i)' \subseteq Replaces(i)
      <4>1. ASSUME NEW s \in net', s.kind = "REPLACE", s.id = i, s \notin net PROVE FALSE
        <5>1. orders'[i].action = Requested("REPLACE", s.qty) /\ ~Pends(i)
          BY <1>0, <4>1, AskedReplace, MayReplace
        <5>2. Pends(i)'
          BY <5>1 DEF Pends, Unresolved, Pending, Requested
        <5> QED BY <3>2, <5>1, <5>2
      <4> QED BY <4>1 DEF Replaces
    <3>4. CASE Steady(i)
      BY <2>4, <3>2, <3>3, <3>4 DEF Steady
    <3>5. CASE Asking(i)
      BY <1>0, <2>4, <3>1, <3>2, <3>3, <3>5 DEF Asking, HasAsked
    <3>6. CASE Granted(i)
      <4>1. HasAsked(i)' /\ Replaces(i)' = {} /\ Pends(i)'
        BY <1>0, <3>1, <3>2, <3>3, <3>6 DEF Granted, HasAsked
      <4> QED BY <1>0, <3>6, <4>1 DEF Granted
    <3> QED BY <2>3, <3>4, <3>5, <3>6
  <2> QED BY <1>0, <2>5, <2>7, <2>8, <2>9, ActsCalmly
<1> QED
  BY <1>1, <1>2

\* The head of an inbox that is about to resize an order.
LEMMA GrantTake ==
  ASSUME NEW i \in Orders, NEW q, NEW w \in Resizing(i, q)
  PROVE  /\ w # <<>> /\ Head(w) \in Msgs
         /\ Resized(Head(w), i) => Head(w).lives[i].qty = q /\ Tail(w) \in Seq(OfSize(i, q))
         /\ ~Resized(Head(w), i) => Tail(w) \in Resizing(i, q)
<1>1. w \in Seq(Msgs)
  BY DEF Resizing
<1>2. PICK l \in 1 .. Len(w) :
        /\ Resized(w[l], i) /\ w[l].lives[i].qty = q
        /\ \A k \in 1 .. Len(w) : /\ (k # l => ~Resized(w[k], i))
                                  /\ (k > l => w[k] \in OfSize(i, q))
  BY DEF Resizing
<1> DEFINE t == Tail(w)
<1>3. /\ w # <<>> /\ Head(w) = w[1] /\ t \in Seq(Msgs) /\ Len(t) = Len(w) - 1 /\ Len(w) \in Nat
      /\ \A k \in 1 .. Len(t) : t[k] = w[k + 1]
  BY <1>1, <1>2
<1>4. Head(w) \in Msgs
  BY <1>1, <1>3
<1> HIDE DEF t
<1>5. ASSUME Resized(Head(w), i) PROVE Head(w).lives[i].qty = q /\ t \in Seq(OfSize(i, q))
  <2>1. l = 1
    BY <1>2, <1>3, <1>5
  <2>2. \A k \in 1 .. Len(t) : t[k] \in OfSize(i, q)
    BY <1>2, <1>3, <2>1
  <2> QED BY <1>2, <1>3, <2>1, <2>2, SeqOfParts
<1>6. ASSUME ~Resized(Head(w), i) PROVE t \in Resizing(i, q)
  <2>1. l # 1 /\ l - 1 \in 1 .. Len(t)
    BY <1>2, <1>3, <1>6
  <2>2. Resized(t[l - 1], i) /\ t[l - 1].lives[i].qty = q
    BY SMTT(40), <1>2, <1>3, <2>1
  <2>3. ASSUME NEW k \in 1 .. Len(t)
        PROVE  /\ (k # l - 1 => ~Resized(t[k], i))
               /\ (k > l - 1 => t[k] \in OfSize(i, q))
    <3>1. k + 1 \in 1 .. Len(w) /\ t[k] = w[k + 1]
      BY <1>3
    <3> QED BY <1>2, <3>1
  <2> QED BY <1>3, <2>1, <2>2, <2>3 DEF Resizing
<1> QED
  BY <1>3, <1>4, <1>5, <1>6 DEF t

\* What the head of the inbox does to a request for a replace.
LEMMA LearnsActs ==
  ASSUME LInv, Uneventful, StreamEvent, NEW i \in Orders, Aloof(i)
  PROVE  /\ Aloof(i)' /\ Replaces(i)' \subseteq Replaces(i)
         /\ (~Pends(i) => Replaces(i) = {}) =>
              /\ Pends(i)' => Pends(i)
              /\ Pends(i) => orders'[i].action.qty = orders[i].action.qty
              /\ /\ Pends(i) /\ ~Waits(i) /\ Working(orders'[i])
                 /\ ~Resized(Head(wire), i) /\ Head(wire).lives[i].ev # "OrderRejected"
                 => Pends(i)'
<1> DEFINE m == Head(wire)
<1>0. /\ m \in Msgs /\ Learns(i, m) /\ OnlyCancels
      /\ orders[i] \in Order /\ m.rows[i] \in Row /\ m.lives[i] \in Life
      /\ NoEvent.ev = "NoEvent"
  BY EventSteps, LInvFacts, EventParts DEF Msgs
<1> HIDE DEF m
<1>1. Replaces(i)' \subseteq Replaces(i)
  BY <1>0 DEF OnlyCancels, Replaces
<1>2. PICK c \in Change :
        /\ OwnAction(i, c.action) /\ OwnHeld(i, c.held)
        /\ c.life \in {NoEvent, m.lives[i]}
        /\ (c.life.ev = "OrderReplaced" => Resized(m, i))
        /\ (c.life.ev = "OrderRejected" => m.lives[i].ev = "OrderRejected")
        /\ orders'[i] = Apply(orders[i], c) \/ orders'[i] = Apply(Overlay(orders[i], m.rows[i]), c)
  BY <1>0 DEF Learns, Took, Resized
<1>3. PICK o \in Order : /\ orders'[i] = Apply(o, c)
                         /\ o.action = orders[i].action /\ o.held = orders[i].held
                         /\ (o.status = "NONE" => orders[i].status = "NONE")
  <2>1. Overlay(orders[i], m.rows[i]) \in Order
    BY <1>0, OverlayType
  <2>2. /\ Overlay(orders[i], m.rows[i]).action = orders[i].action
        /\ Overlay(orders[i], m.rows[i]).held = orders[i].held
        /\ (Overlay(orders[i], m.rows[i]).status = "NONE" => orders[i].status = "NONE")
    BY <1>0, OverlayFacts, RowStatus
  <2> QED BY <1>0, <1>2, <2>1, <2>2
<1>4. \/ c.action.kind = "KEEP"
      \/ c.action.kind = "CANCEL" /\ orders[i].action.kind # "REPLACE"
      \/ ~Waits(i) /\ ~Pends(i) /\ Replaces(i)' # {}
      \/ /\ c.action.kind = orders[i].action.kind /\ c.action.qty = orders[i].action.qty
         /\ (c.action.kind = "REPLACE" => Pending(orders[i].action) /\ Pending(c.action))
  <2>1. ASSUME NEW q \in 1 .. MaxQty, c.action = Requested("REPLACE", q), Resizes(i, q)
        PROVE  ~Waits(i) /\ ~Pends(i) /\ Replaces(i)' # {}
    <3>1. Request("REPLACE", i, q) \in net'
      BY <2>1 DEF Resizes
    <3>2. Request("REPLACE", i, q).kind = "REPLACE" /\ Request("REPLACE", i, q).id = i
      BY DEF Request
    <3>3. Request("REPLACE", i, q) \in Replaces(i)'
      BY <3>1, <3>2 DEF Replaces
    <3> QED BY <2>1, <3>3, MayReplace
  <2> QED BY <1>2, <2>1, ActsCalmly
<1>5. Aloof(i)'
  <2> SUFFICES ASSUME Waits(i)' PROVE orders'[i].action.kind # "REPLACE" /\ Replaces(i)' = {}
    BY DEF Aloof
  <2>1. Waits(i)
    <3>1. CASE orders'[i].status = "NONE"
      BY <1>3, <3>1, ApplyActs DEF Waits
    <3>2. CASE orders'[i].held.phase \in Early
      BY <1>2, <1>3, <3>2, ApplyActs DEF Waits, OwnHeld
    <3> QED BY <3>1, <3>2 DEF Waits
  <2>2. orders[i].action.kind # "REPLACE" /\ Replaces(i) = {}
    BY <2>1 DEF Aloof
  <2> QED BY <1>1, <1>3, <1>4, <2>1, <2>2, ApplyActs
<1>6. ASSUME ~Pends(i) => Replaces(i) = {}
      PROVE  /\ Pends(i)' => Pends(i)
             /\ Pends(i) => orders'[i].action.qty = orders[i].action.qty
             /\ /\ Pends(i) /\ ~Waits(i) /\ Working(orders'[i])
                /\ ~Resized(m, i) /\ m.lives[i].ev # "OrderRejected"
                => Pends(i)'
  <2>1. \/ c.action.kind = "KEEP"
        \/ c.action.kind = "CANCEL" /\ orders[i].action.kind # "REPLACE"
        \/ /\ c.action.kind = orders[i].action.kind /\ c.action.qty = orders[i].action.qty
           /\ (c.action.kind = "REPLACE" => Pending(orders[i].action) /\ Pending(c.action))
    BY <1>1, <1>4, <1>6
  <2>2. CASE c.action.kind = "KEEP"
    <3>1. /\ orders'[i].action.kind = orders[i].action.kind
          /\ orders'[i].action.qty = orders[i].action.qty
          /\ (Pending(orders'[i].action) => Pending(orders[i].action))
          /\ (/\ orders[i].action.kind = "REPLACE" /\ Working(orders'[i])
              /\ c.life.ev \notin {"OrderRejected", "OrderReplaced"}) =>
               orders'[i].action = orders[i].action
      BY <1>3, <2>2, ApplyActs
    <3> QED BY <1>2, <3>1 DEF Pends, Unresolved
  <2>3. CASE c.action.kind = "CANCEL" /\ orders[i].action.kind # "REPLACE"
    <3>1. orders'[i].action.kind # "REPLACE"
      BY <1>3, <2>3, ApplyActs
    <3> QED BY <2>3, <3>1 DEF Pends, Unresolved
  <2>4. CASE /\ c.action.kind # "KEEP"
             /\ c.action.kind = orders[i].action.kind /\ c.action.qty = orders[i].action.qty
             /\ (c.action.kind = "REPLACE" => Pending(orders[i].action) /\ Pending(c.action))
    <3>1. orders'[i].action \in {c.action, orders[i].action}
      BY <1>3, <2>4, ApplyActs
    <3> QED BY <2>4, <3>1 DEF Pends, Unresolved
  <2> QED BY <2>1, <2>2, <2>3, <2>4
<1> QED
  BY <1>1, <1>5, <1>6 DEF m

LEMMA LearnsSized ==
  ASSUME QInv, Uneventful, "flatten" \notin Commands, StreamEvent, [Next]_vars,
         NEW i \in Known, i \in Sells, Aloof(i), Sized(i)
  PROVE  Sized(i)'
<1> DEFINE m == Head(wire)
<1>0. /\ LInv /\ SInv /\ TInv /\ Rest /\ Bounded(i) /\ Fits(i) /\ i \in Orders
      /\ i \in Firm /\ i \in Orders \ (misread \cup rewound)
      /\ Stands(i) /\ Stands(i)'
      /\ wire # <<>> /\ m \in Msgs /\ wire' = Tail(wire) /\ Learns(i, m) /\ OnlyCancels
      /\ up /\ up' /\ UNCHANGED <<venue, posts>>
  BY EventSteps, EventStands, KnownOrders DEF QInv, SInv, TInv
<1> HIDE DEF m
<1> SUFFICES ASSUME AtVenue(i)', Working(orders'[i])
             PROVE  Steady(i)' \/ Asking(i)' \/ Granted(i)'
  BY DEF Sized
<1>1. AtVenue(i) /\ Accepted(i) /\ wire \in Seq(Unrefused(i))
      /\ posts[i] # 0 /\ orders[i].status # "NONE" /\ orders[i] \in Order
  BY <1>0, VenueStays, AtVenueIsSent, LInvFacts DEF Stands
<1>2. m \in Unrefused(i)
  BY <1>0, <1>1 DEF m
<1>3. Working(orders[i])
  <2>1. orders[i].status \notin Done
    <3>1. ASSUME orders[i].status \in Done PROVE FALSE
      <4>1. orders'[i].status \in Done
        BY <1>0, <3>1, FirmStays
      <4> QED BY <4>1 DEF Working, WorkingStatus, Done
    <3> QED BY <3>1
  <2> QED BY <1>1, <2>1 DEF Accepted, Refusal, Done, Order, Status, Working, WorkingStatus
<1>4. Steady(i) \/ Asking(i) \/ Granted(i)
  BY <1>1, <1>3 DEF Sized
<1>5. /\ Replaces(i)' \subseteq Replaces(i)
      /\ Pends(i)' => Pends(i)
      /\ Pends(i) => orders'[i].action.qty = orders[i].action.qty
  <2>1. ~Pends(i) => Replaces(i) = {}
    BY <1>4 DEF Steady, Asking, Granted
  <2> QED BY <1>0, <2>1, LearnsActs
<1>6. Pends(i) /\ ~Resized(m, i) => Pends(i)'
  <2> SUFFICES ASSUME Pends(i), ~Resized(m, i) PROVE Pends(i)'
    OBVIOUS
  <2>1. ~Waits(i)
    BY DEF Aloof, Pends, Unresolved
  <2>2. m.lives[i].ev # "OrderRejected"
    BY <1>2 DEF Unrefused
  <2> QED BY <1>0, <2>1, <2>2, LearnsActs DEF m
<1>7. OneSize(i) => OneSize(i)'
  BY <1>0, <1>1, LearnsSize
<1>8. CASE Steady(i)
  BY <1>5, <1>7, <1>8 DEF Steady
<1>9. CASE Asking(i)
  <2>1. ~Resized(m, i) /\ wire' \in Seq(Unresized(i))
    <3>1. wire \in Seq(Unresized(i))
      BY <1>9 DEF Asking
    <3>2. m \in Unresized(i) /\ wire' \in Seq(Unresized(i))
      BY <1>0, <3>1 DEF m
    <3> QED BY <3>2 DEF Unresized
  <2>2. Pends(i) /\ Pends(i)'
    BY <1>6, <1>9, <2>1 DEF Asking
  <2>3. HasAsked(i) => HasAsked(i)'
    BY <1>0, <1>5, <2>2 DEF HasAsked
  <2> QED BY <1>5, <1>7, <1>9, <2>1, <2>2, <2>3 DEF Asking
<1>10. CASE Granted(i)
  <2> DEFINE q == venue[i].qty
  <2>0. /\ Pends(i) /\ Replaces(i) = {} /\ HasAsked(i) /\ wire \in Resizing(i, q)
        /\ Replaces(i)' = {} /\ q' = q
    BY <1>0, <1>5, <1>10 DEF Granted
  <2> HIDE DEF q
  <2>1. CASE ~Resized(m, i)
    <3>1. Pends(i)' /\ HasAsked(i)'
      BY <1>0, <1>5, <1>6, <2>0, <2>1 DEF HasAsked
    <3>2. wire' \in Resizing(i, q)
      BY <1>0, <2>0, <2>1, GrantTake DEF m
    <3> QED BY <2>0, <3>1, <3>2 DEF Granted, q
  <2>2. CASE Resized(m, i)
    <3>1. m.lives[i].qty = q /\ wire' \in Seq(OfSize(i, q))
      BY <1>0, <2>0, <2>2, GrantTake DEF m
    <3>2. ~SaysExec(m, i)
      BY <2>2 DEF SaysExec, Resized, Filled, Listing, Lists
    <3>3. /\ orders'[i].qty = q /\ orders'[i].exec = orders[i].exec
          /\ orders'[i].leaves = Minus(q, orders[i].exec)
      BY <1>0, <1>1, <1>3, <2>2, <3>1, <3>2, LearnsMeans, LeavesMean
    <3>4. orders[i].exec \in Nat /\ q \in Nat /\ orders[i].exec <= q
      <4>1. venue[i].exec <= venue[i].qty
        BY <1>0, LInvFacts DEF TypeInv, VenueSound
      <4> QED BY <1>0, <4>1, Numbers DEF Bounded, q
    <3>5. Even(orders'[i])
      BY <3>3, <3>4 DEF Even, Minus
    <3>6. OneSize(i)'
      BY <2>0, <3>1, <3>3, <3>5 DEF OneSize, q
    <3>7. wire' \in Seq(Unresized(i))
      <4>1. OfSize(i, q) \subseteq Unresized(i)
        BY DEF OfSize, Unresized
      <4> QED BY <3>1, <4>1, SeqRises
    <3> QED BY <2>0, <3>6, <3>7 DEF Steady, Asking
  <2> QED BY <2>1, <2>2
<1> QED
  BY <1>4, <1>8, <1>9, <1>10

\* The inbox that is about to resize an order grows.
LEMMA GrantPut ==
  ASSUME NEW i \in Orders, NEW q, NEW w, NEW m \in Msgs,
         \/ w \in Resizing(i, q) /\ m \in OfSize(i, q)
         \/ w \in Seq(Unresized(i)) /\ Resized(m, i) /\ m.lives[i].qty = q
  PROVE  Append(w, m) \in Resizing(i, q)
<1> DEFINE a == Append(w, m)
<1>1. CASE w \in Resizing(i, q) /\ m \in OfSize(i, q)
  <2>1. PICK l \in 1 .. Len(w) :
          /\ Resized(w[l], i) /\ w[l].lives[i].qty = q
          /\ \A k \in 1 .. Len(w) : /\ (k # l => ~Resized(w[k], i))
                                    /\ (k > l => w[k] \in OfSize(i, q))
    BY <1>1 DEF Resizing
  <2>2. w \in Seq(Msgs) /\ ~Resized(m, i) /\ m \in OfSize(i, q)
    BY <1>1 DEF Resizing, OfSize
  <2>3. /\ a \in Seq(Msgs) /\ Len(a) = Len(w) + 1 /\ Len(w) \in Nat
        /\ \A k \in 1 .. Len(w) : a[k] = w[k]
        /\ a[Len(w) + 1] = m
    BY <2>2
  <2> HIDE DEF a
  <2>4. l \in 1 .. Len(a) /\ a[l] = w[l]
    BY <2>3
  <2>5. ASSUME NEW k \in 1 .. Len(a)
        PROVE  /\ (k # l => ~Resized(a[k], i))
               /\ (k > l => a[k] \in OfSize(i, q))
    <3>1. CASE k \in 1 .. Len(w)
      BY <2>1, <2>3, <3>1
    <3>2. CASE k = Len(w) + 1
      BY <2>2, <2>3, <3>2
    <3> QED BY <2>3, <3>1, <3>2
  <2>6. a \in Resizing(i, q)
    BY <2>1, <2>3, <2>4, <2>5 DEF Resizing
  <2> QED BY <2>6 DEF a
<1>2. CASE w \in Seq(Unresized(i)) /\ Resized(m, i) /\ m.lives[i].qty = q
  <2>1. w \in Seq(Msgs)
    <3>1. Unresized(i) \subseteq Msgs
      BY DEF Unresized
    <3> QED BY <1>2, <3>1, SeqRises
  <2>2. /\ a \in Seq(Msgs) /\ Len(a) = Len(w) + 1 /\ Len(w) \in Nat
        /\ \A k \in 1 .. Len(w) : a[k] = w[k] /\ w[k] \in Unresized(i)
        /\ a[Len(w) + 1] = m
    BY <1>2, <2>1
  <2> HIDE DEF a
  <2>3. ASSUME NEW k \in 1 .. Len(a)
        PROVE  /\ (k # Len(w) + 1 => ~Resized(a[k], i))
               /\ ~(k > Len(w) + 1)
    BY <2>2 DEF Unresized
  <2>4. Len(w) + 1 \in 1 .. Len(a)
    BY <2>2
  <2>5. a \in Resizing(i, q)
    BY <1>2, <2>2, <2>3, <2>4 DEF Resizing
  <2> QED BY <2>5 DEF a
<1> QED
  BY <1>1, <1>2

\* At the broker the one replace that is asked for lands, or is dropped.
LEMMA OutsideSized ==
  ASSUME QInv, Outside, \A r \in net : r.live, NEW i \in Orders, i \in Sells, Sized(i)
  PROVE  Sized(i)'
<1>0. /\ LInv /\ Alone(i) /\ Fits(i) /\ UNCHANGED coreVars /\ net' \subseteq net /\ net \subseteq Requests
      /\ venue \in [Orders -> VenueOrder]
  BY OutsideSteps, OutsideVenue, LInvFacts DEF QInv, SInv, TInv, Truth, VenueTypeOK
<1>1. /\ orders'[i] = orders[i] /\ Replaces(i)' \subseteq Replaces(i)
  BY <1>0 DEF coreVars, bookVars, Replaces
<1> SUFFICES ASSUME AtVenue(i)', Working(orders'[i])
             PROVE  Steady(i)' \/ Asking(i)' \/ Granted(i)'
  BY DEF Sized
<1>2. /\ AtVenue(i) /\ Working(orders[i])
      /\ (Steady(i) \/ Asking(i) \/ Granted(i))
      /\ (Pends(i)' <=> Pends(i))
  BY <1>0, <1>1, OutsideStays DEF Sized, Pends
<1>3. CASE \E r \in net : Gets(i, r)
  <2>1. PICK r \in net : Gets(i, r)
    BY <1>3
  <2>2. r \in Replaces(i)
    BY <2>1 DEF Replaces, Gets
  <2>3. Asking(i) /\ r.qty = orders[i].action.qty
    BY <1>2, <2>2 DEF Steady, Granted, Asking
  <2>4. ASSUME NEW s \in Replaces(i)' PROVE FALSE
    <3>1. s \in net' /\ s # r /\ s \in Replaces(i)
      BY <1>1, <2>1 DEF Gets, Replaces
    <3>2. s \in net /\ s.live /\ r.live /\ s.kind = r.kind /\ s.id = r.id /\ s.qty = r.qty
      BY <1>0, <2>2, <2>3, <3>1 DEF Asking, Replaces
    <3> QED BY <1>0, <3>1, <3>2 DEF Requests
  <2>5. venue'[i].qty = r.qty /\ venue'[i].st # "none"
    BY <1>0, <2>1 DEF Gets, VenueOrder, OpenAt
  <2>6. HasAsked(i)' /\ Pends(i)' /\ Replaces(i)' = {}
    BY <1>1, <1>2, <2>3, <2>4, <2>5 DEF HasAsked, Asking
  <2>7. CASE online
    <3> DEFINE e == ReplaceEvent(r.qty)
               m == LifeMsg(i, e)
    <3>1. e \in Life /\ e.ev = "OrderReplaced" /\ e.qty = r.qty /\ r.qty \in Qtys
      BY <1>0, LifeTypes, EventParts DEF Requests
    <3>2. wire' = Append(wire, m)
      BY <2>1, <2>7 DEF Gets
    <3> HIDE DEF e
    <3>3. m \in Msgs /\ SaysSize(m, i) /\ SaidSize(m, i) = r.qty /\ ~Lists(m)
      BY <3>1, FrameSays
    <3> HIDE DEF m
    <3>4. Resized(m, i) /\ m.lives[i].qty = r.qty
      BY <3>3 DEF SaysSize, SaidSize, Listing
    <3>5. wire' \in Resizing(i, r.qty)
      BY <2>3, <3>2, <3>3, <3>4, GrantPut DEF Asking
    <3> QED BY <2>5, <2>6, <3>5 DEF Granted
  <2>8. CASE ~online
    <3>1. wire' \in Seq(Unresized(i))
      BY <2>1, <2>3, <2>8 DEF Gets, Asking
    <3> QED BY <2>6, <3>1 DEF Asking
  <2> QED BY <2>7, <2>8
<1>4. CASE \A r \in net : ~Gets(i, r)
  <2>1. OneSize(i) => OneSize(i)'
    BY <1>0, <1>4, OutsideSize
  <2>2. HasAsked(i) => HasAsked(i)' /\ venue'[i].qty = venue[i].qty
    <3>1. HasAsked(i) => venue'[i].qty = venue[i].qty /\ venue'[i].st # "none"
      BY <1>0, <1>4, OutsideVenue DEF HasAsked, Lands
    <3> QED BY <1>1, <3>1 DEF HasAsked
  <2>3. CASE Steady(i)
    BY <1>1, <1>2, <2>1, <2>3 DEF Steady
  <2>4. CASE Asking(i)
    <3>1. wire' \in Seq(Unresized(i))
      <4>1. wire \in Seq(Unresized(i))
        BY <2>4 DEF Asking
      <4>2. ASSUME NEW m, Uttered(m) PROVE m \in Unresized(i)
        BY <1>0, <1>4, <4>2, UtteredSize DEF Unresized
      <4> QED BY <1>0, <4>1, <4>2, OutsidePuts
    <3> QED BY <1>1, <1>2, <2>1, <2>2, <2>4, <3>1 DEF Asking
  <2>5. CASE Granted(i)
    <3>1. ASSUME NEW m, NEW w, Uttered(m), w \in Resizing(i, venue[i].qty)
          PROVE  Append(w, m) \in Resizing(i, venue[i].qty)
      <4>1. m \in OfSize(i, venue[i].qty) /\ m \in Msgs
        BY <1>0, <1>4, <3>1, UtteredSize DEF OfSize
      <4> QED BY <3>1, <4>1, GrantPut
    <3>2. wire \in Resizing(i, venue[i].qty)
      BY <2>5 DEF Granted
    <3> DEFINE W == Resizing(i, venue[i].qty)
    <3>3. wire \in W /\ \A m, w : Uttered(m) /\ w \in W => Append(w, m) \in W
      BY <3>1, <3>2
    <3> HIDE DEF W
    <3>4. wire' \in W
      BY <1>0, <3>3, OutsideGrows
    <3>5. venue'[i].qty = venue[i].qty /\ HasAsked(i)' /\ Pends(i)' /\ Replaces(i)' = {}
      BY <1>1, <1>2, <2>2, <2>5 DEF Granted
    <3> QED BY <3>4, <3>5 DEF Granted, W
  <2> QED BY <1>2, <2>3, <2>4, <2>5
<1> QED
  BY <1>3, <1>4

LEMMA NextSized ==
  ASSUME RInv, Uneventful, [Next]_vars
  PROVE  /\ up' /\ \A r \in net' : r.live
         /\ \A i \in Sells : Aloof(i)' /\ (i \in Known' => Sized(i)')
<1>0. /\ LInv /\ NoLateWord /\ QInv /\ up /\ "flatten" \notin Commands
      /\ \A r \in net : r.live
      /\ \A i \in Sells : /\ i \in Orders /\ Aloof(i)
                          /\ i \in Known' => i \in Known /\ Sized(i)
  <2>1. \A i \in Known' : i \in Known
    BY KnownBefore
  <2>2. \A i \in Sells : i \in Orders /\ Aloof(i) /\ (i \in Known => Sized(i))
    BY IdsAssumption DEF RInv
  <2> QED BY <2>1, <2>2 DEF RInv, QInv, SInv, TInv, Rest, Uneventful
<1>1. CASE UNCHANGED vars
  <2>1. UNCHANGED <<venue, net, wire, orders, up>>
    BY <1>1 DEF vars, venueVars, brokerVars, coreVars, bookVars
  <2>2. \A i \in Orders : /\ Waits(i)' <=> Waits(i)
                          /\ Pends(i)' <=> Pends(i)
                          /\ Replaces(i)' = Replaces(i)
                          /\ AtVenue(i)' <=> AtVenue(i)
    BY <2>1 DEF Waits, Pends, Replaces, AtVenue, SubmitInFlight
  <2> QED BY <1>0, <2>1, <2>2 DEF Aloof, Sized, Steady, Asking, Granted, HasAsked, OneSize
<1>2. CASE OwnStep
  <2>1. Does
    BY <1>0, <1>2, OwnSteps
  <2>2. up' /\ \A r \in net' : r.live
    BY <1>0, <2>1 DEF Does, Quietly, Sent, OnlyCancels, Asked
  <2>3. \A i \in Sells : Aloof(i)'
    BY <1>0, <2>1, OwnAloof DEF Aloof
  <2> QED BY <1>0, <2>1, <2>2, <2>3, OwnSized
<1>3. CASE StreamEvent
  <2>1. up' /\ OnlyCancels
    BY <1>0, <1>3, EventSteps
  <2>2. \A r \in net' : r.live
    BY <1>0, <2>1 DEF OnlyCancels
  <2> QED BY <1>0, <1>3, <2>1, <2>2, LearnsActs, LearnsSized
<1>4. CASE Process
  BY <1>0, <1>4 DEF Process, Crash, Upset, ShutdownEngine, Recover, Uneventful
<1>5. CASE Outside
  <2>1. UNCHANGED coreVars
    BY <1>0, <1>5, OutsideSteps
  <2>2. UNCHANGED <<orders, up>>
    BY <2>1 DEF coreVars, bookVars
  <2>3. ASSUME NEW i \in Sells
        PROVE  Aloof(i)' /\ (i \in Known' => Sized(i)') /\ net' \subseteq net
    <3>1. net' \subseteq net
      BY <1>0, <1>5, OutsideVenue
    <3>2. Aloof(i)'
      BY <1>0, <2>2, <3>1 DEF Aloof, Waits, Replaces
    <3> QED BY <1>0, <1>5, <3>1, <3>2, OutsideSized
  <2>4. net' \subseteq net
    BY <1>0, <1>5, OutsideSteps DEF Hushed, ClosesAll, Cuts, Returns, Executes, Ends, Gets, Lands, Refuses
  <2> QED BY <1>0, <2>2, <2>3, <2>4
<1> QED
  BY <1>0, <1>1, <1>2, <1>3, <1>4, <1>5, StepKinds

LEMMA SizedInvariant ==
  ASSUME Uneventful
  PROVE  Spec => []RInv
<1>0. "flatten" \notin Commands
  BY DEF Uneventful
<1> DEFINE All == /\ up /\ \A r \in net : r.live
                  /\ \A i \in Sells : Aloof(i) /\ (i \in Known => Sized(i))
<1>1. Init => All
  <2> SUFFICES ASSUME Init PROVE All
    OBVIOUS
  <2>1. /\ net = {} /\ venue = [i \in Orders |-> NoVenueOrder] /\ up = TRUE
        /\ orders = [i \in Orders |-> NoOrder]
    BY DEF Init, VenueInit
  <2>2. \A i \in Orders : venue[i].st = "none" /\ orders[i].action.kind = "NONE"
    BY <2>1 DEF NoVenueOrder, NoOrder, NoAction
  <2> QED BY <2>1, <2>2, IdsAssumption DEF Aloof, Replaces, Sized, AtVenue, SubmitInFlight
<1>2. QInv /\ QInv' /\ All /\ [Next]_vars => All'
  <2> SUFFICES ASSUME QInv, All, [Next]_vars PROVE All'
    OBVIOUS
  <2>1. RInv
    BY DEF RInv
  <2> QED BY <2>1, NextSized
<1>3. QInv /\ All => RInv
  BY DEF RInv
<1> QED
  BY <1>0, <1>1, <1>2, <1>3, KnowInvariant, PTL DEF Spec

\* So is an order that may be resized.
LEMMA SizedCovers ==
  ASSUME RInv, NEW i \in Sells, i \in Known
  PROVE  Covers(i)
<1>0. i \in Orders /\ LInv /\ QInv /\ Fits(i) /\ Sized(i) /\ Aloof(i) /\ Alone(i) /\ i \notin misread
  BY IdsAssumption, KnownOrders DEF RInv, QInv, SInv, TInv, Truth
<1>1. /\ orders[i].exec \in Nat /\ orders[i].qty \in Nat /\ orders[i].leaves \in Nat
      /\ orders[i].action.qty \in Nat /\ CommittedLeaves(orders[i]) \in Nat
  <2>1. orders[i].action.qty \in Nat
    BY <1>0, LInvFacts, QtyAssumption DEF Order, Action, Qtys
  <2> QED BY <1>0, <2>1, Numbers, CommitsShares
<1>2. ASSUME AtVenue(i), Working(orders[i])
      PROVE  /\ Steady(i) \/ Asking(i) \/ Granted(i)
             /\ Even(orders[i]) => orders[i].qty <= CommittedLeaves(orders[i]) + orders[i].exec
             /\ Pends(i) => orders[i].action.qty <= CommittedLeaves(orders[i]) + orders[i].exec
  <2>1. Steady(i) \/ Asking(i) \/ Granted(i)
    BY <1>0, <1>2 DEF Sized
  <2>2. /\ CommittedLeaves(orders[i]) >= orders[i].leaves
        /\ Pends(i) => CommittedLeaves(orders[i]) >= orders[i].action.qty - orders[i].exec
    BY <1>0, <1>2, WorksCommits
  <2> QED BY <1>1, <2>1, <2>2 DEF Even
<1>3. ASSUME AtVenue(i), Working(orders[i]), venue[i].st # "none"
      PROVE  venue[i].qty <= CommittedLeaves(orders[i]) + orders[i].exec
  BY <1>2, <1>3 DEF Steady, Asking, Granted, OneSize, HasAsked
<1>4. ASSUME AtBroker(i)
      PROVE  /\ \A q \in Sizes(i) : q <= CommittedLeaves(orders[i]) + orders[i].exec
             /\ ~Pends(i) => \E q \in Sizes(i) : orders[i].exec + orders[i].leaves <= q
  <2>1. AtVenue(i) /\ Working(orders[i])
    BY <1>0, <1>4, CommitsLeaves
  <2>2. Steady(i) \/ Asking(i) \/ Granted(i)
    BY <1>2, <2>1
  <2>3. ASSUME NEW r \in net, r.id = i, r.kind \in SubmitKinds
        PROVE  r.qty = orders[i].qty /\ Even(orders[i])
    <3>1. venue[i].st = "none"
      BY <1>0, <2>3 DEF Alone, SubmitInFlight
    <3> QED BY <1>0, <2>2, <2>3, <3>1 DEF Fits, Steady, Asking, Granted, OneSize, HasAsked
  <2>4. ASSUME NEW r \in net, r.id = i, r.kind = "REPLACE"
        PROVE  r.qty = orders[i].action.qty /\ Pends(i)
    <3>1. r \in Replaces(i)
      BY <2>4 DEF Replaces
    <3> QED BY <2>2, <3>1 DEF Steady, Asking, Granted
  <2>5. \A r \in net : r.kind # "CANCEL" => r.kind \in SubmitKinds \/ r.kind = "REPLACE"
    BY <1>0, LInvFacts DEF VenueTypeOK, Requests, RequestKinds
  <2>6. ASSUME NEW q \in Sizes(i) PROVE q <= CommittedLeaves(orders[i]) + orders[i].exec
    <3>1. CASE OpenAt(i) /\ q = venue[i].qty
      BY <1>3, <2>1, <3>1 DEF OpenAt
    <3>2. ASSUME NEW r \in net, r.id = i, r.kind # "CANCEL", q = r.qty
          PROVE  q <= CommittedLeaves(orders[i]) + orders[i].exec
      BY <1>2, <2>1, <2>3, <2>4, <2>5, <3>2
    <3> QED BY <2>6, <3>1, <3>2 DEF Sizes
  <2>7. ASSUME ~Pends(i) PROVE \E q \in Sizes(i) : orders[i].exec + orders[i].leaves <= q
    <3>1. OneSize(i)
      BY <2>2, <2>7 DEF Steady, Asking, Granted
    <3>2. orders[i].exec + orders[i].leaves <= orders[i].qty
      BY <1>1, <3>1 DEF OneSize, Even
    <3>3. orders[i].qty \in Sizes(i)
      BY <1>4, <2>3, <3>1 DEF Sizes, AtBroker, OpenAt, SubmitInFlight, SubmitKinds, OneSize
    <3> QED BY <3>2, <3>3
  <2> QED BY <2>6, <2>7
<1> QED
  BY <1>0, <1>3, <1>4 DEF Covers, Aloof

-----------------------------------------------------------------------------
(* The theorems *)

\* A SELL whose submit returned after it was over has nothing left to sell.
LEMMA RewoundIsOver ==
  ASSUME QInv, NEW i \in Sells, i \in rewound
  PROVE  Exposure(i) = 0
<1>1. venue[i].st \notin {"none", "open"}
  BY IdsAssumption DEF QInv, SInv, Past
<1> QED
  BY <1>1 DEF Exposure, Sizes, AtBroker, OpenAt

\* Where no replace is asked for, every share that an order may still sell at
\* the broker is committed by the core, whatever is canceled, crashes, is lost
\* or is replayed on the way (sellLeavesCheck reads what this promises), unless a
\* list showed the order under a status the core does not count as working.
THEOREM UnresizedReserved ==
  ASSUME "flatten" \notin Commands, "replace" \notin Commands
  PROVE  Spec => []Reserved
<1>1. FInv => Reserved
  BY FixedCovers, CoversReserves DEF FInv, Reserved
<1> QED
  BY <1>1, FixedInvariant, PTL

\* And where replaces are asked for, as long as no cancel overwrites one and no
\* process that asked for one ends: before the broker has it the larger of both
\* sizes is committed, after it the new one is, before the stream says so.
THEOREM ResizedReserved ==
  ASSUME Uneventful
  PROVE  Spec => []Reserved
<1>1. ASSUME RInv, NEW i \in Sells \ misread PROVE Exposure(i) <= CommittedLeaves(orders[i])
  <2>1. QInv /\ LInv /\ i \in Orders
    BY <1>1, IdsAssumption DEF RInv, QInv, SInv, TInv
  <2>2. CASE i \in rewound
    <3>1. CommittedLeaves(orders[i]) \in Nat
      BY <2>1, CommitsShares
    <3> QED BY <2>1, <2>2, <3>1, RewoundIsOver
  <2>3. CASE i \notin rewound
    <3>1. i \in Known
      BY <1>1, <2>1, <2>3 DEF Known, Firm
    <3> QED BY <1>1, <2>1, <3>1, SizedCovers, CoversReserves
  <2> QED BY <2>2, <2>3
<1>2. RInv => Reserved
  BY <1>1 DEF Reserved
<1> QED
  BY <1>2, SizedInvariant, PTL

-----------------------------------------------------------------------------
(* How far the position of the core may be behind the broker *)

\* The shares the account holds where of each order i x[i] shares filled.
Worths(x) == Opening + SumFunctionOnSet([i \in Orders |-> SideSign(i) * x[i]], Orders)
Executions == [i \in Orders |-> venue[i].exec]

\* Once the core took the first k messages: it has heard of v fills of order i,
\* and of no more; it takes the order for done; and what it will still hear of
\* the fills before the stream breaks.
Reaches(i, k, v) ==
  v <= orders[i].exec \/ \E l \in 1 .. k : SaysExec(wire[l], i) /\ v <= SaidExec(wire[l], i)
Below(i, k, v) ==
  orders[i].exec <= v /\ \A l \in 1 .. k : SaysExec(wire[l], i) => SaidExec(wire[l], i) <= v
Closed(i, k) == ~Working(orders[i]) \/ \E l \in 1 .. k : Ending(wire[l].lives[i])
Hears(i, k) == \E l \in 1 .. Len(wire) : /\ l > k /\ SaysExec(wire[l], i)
                                         /\ \A n \in 1 .. l : n > k => ~Breaks(wire[n])

\* A position that counts v fills of order i is safe to sell on: of a SELL it
\* counts all that the core knows, and all there were once the order is done;
\* of a BUY no more than there were, and none that are still to be heard.
Backs(i, k, v) ==
  IF i \in Sells
  THEN Below(i, k, v) /\ (Closed(i, k) => venue[i].exec <= v)
  ELSE v <= venue[i].exec /\ (Hears(i, k) => Reaches(i, k, v))
Backed(k, s) ==
  \E x \in [Orders -> Nat] : s <= Worths(x) /\ \A i \in Orders : Backs(i, k, x[i])

\* Message 0 is the core itself; a list makes it trust the position read before.
Worth(k) ==
  IF k = 0 THEN position
  ELSE IF ~Lists(wire[k]) THEN wire[k].qty
  ELSE IF k = 1 THEN position ELSE wire[k - 1].qty
OnShares(k) == k = 0 \/ Tells(wire[k]) \/ Lists(wire[k])
Backing ==
  \A k \in 0 .. Len(wire) : Trusted(ready, wire, k) /\ OnShares(k) => Backed(k, Worth(k))

\* Fills are told in the order they happened, and a SELL's end after them.
Rises(i, e) ==
  {w \in Seq(Msgs) :
     \A k \in 1 .. Len(w) : SaysExec(w[k], i) =>
       /\ e <= SaidExec(w[k], i)
       /\ \A l \in 1 .. Len(w) : k < l /\ SaysExec(w[l], i) => SaidExec(w[k], i) <= SaidExec(w[l], i)}
Rising(i) == wire \in Rises(i, orders[i].exec)
EndsLate(i) ==
  i \in Sells => \A k \in 1 .. Len(wire) :
    Trusted(ready, wire, k) /\ Ending(wire[k].lives[i]) => Reaches(i, k, venue[i].exec)

\* No list has shown a SELL under an odd status.
Clear == Sells \cap misread = {}

\* What the account holds is what the broker's orders made of it.
Counted == /\ shares = Worths(Executions) /\ ~closing /\ up /\ position \in Int
HInv ==
  /\ QInv /\ PosInv /\ Counted /\ Clear
  /\ \A i \in Orders : Rising(i) /\ EndsLate(i)
  /\ Backing

\* The numbers of one order, in the book, in the inbox and at the broker.
LEMMA SaidNumbers ==
  ASSUME QInv, NEW i \in Orders
  PROVE  /\ wire \in Seq(Msgs) /\ Len(wire) \in Nat
         /\ orders[i].exec \in Nat /\ venue[i].exec \in Nat /\ orders[i].exec <= venue[i].exec
         /\ venue[i].st = "none" => venue[i].exec = 0
         /\ \A k \in 1 .. Len(wire) :
              /\ wire[k] \in Msgs
              /\ SaysExec(wire[k], i) =>
                   /\ SaidExec(wire[k], i) \in Nat /\ SaidExec(wire[k], i) <= venue[i].exec
                   /\ venue[i].st # "none"
<1>0. LInv /\ Bounded(i) /\ Fits(i) /\ Alone(i) /\ VenueTypeOK
  BY LInvFacts DEF QInv, SInv, TInv, Truth
<1>1. wire \in Seq(Msgs) /\ Len(wire) \in Nat
  BY <1>0 DEF VenueTypeOK
<1>2. orders[i].exec \in Nat /\ venue[i].exec \in Nat
  BY <1>0, Numbers
<1>3. ASSUME NEW k \in 1 .. Len(wire)
      PROVE  /\ wire[k] \in Msgs
             /\ SaysExec(wire[k], i) =>
                  /\ SaidExec(wire[k], i) \in Nat /\ SaidExec(wire[k], i) <= venue[i].exec
                  /\ venue[i].st # "none"
  <2>1. wire[k] \in Msgs
    BY <1>1
  <2>2. wire[k] \in Within(i, venue[i].exec)
    <3>1. wire \in Seq(Within(i, venue[i].exec))
      BY <1>0 DEF Bounded
    <3> QED BY <3>1
  <2>3. venue[i].st = "none" => wire[k] \in Unsaid(i)
    <3>1. venue[i].st = "none" => wire \in Seq(Unsaid(i))
      BY <1>0 DEF Fits
    <3> QED BY <3>1
  <2>4. SaidExec(wire[k], i) \in Nat
    BY <2>1, QtyAssumption DEF SaidExec, Msgs, Life, Row, Qtys
  <2> QED BY <2>1, <2>2, <2>3, <2>4 DEF Within, Unsaid
<1> QED
  BY <1>0, <1>1, <1>2, <1>3 DEF Bounded, Alone

\* The core only ever trusts itself at once.
LEMMA TrustedNow ==
  ASSUME NEW r, NEW w
  PROVE  Trusted(r, w, 0) <=> r = TRUE
BY DEF Trusted

-----------------------------------------------------------------------------
(* A step of the core's own *)

LEMMA OwnExec ==
  ASSUME QInv, Does, NEW i \in Orders
  PROVE  orders'[i].exec = orders[i].exec
<1>0. LInv /\ Bounded(i) /\ Fits(i) /\ orders[i].exec \in Nat
  BY SaidNumbers DEF QInv, SInv, TInv
<1>1. posts[i] = 0 => orders[i].exec = 0
  BY <1>0, Numbers DEF Bounded
<1> QED
  BY <1>0, <1>1, OwnQuantities

\* It ends no order that ever traded.
LEMMA OwnWorks ==
  ASSUME QInv, Does, NEW i \in Orders, i \in Sells, AtVenue(i)
  PROVE  Working(orders'[i]) <=> Working(orders[i])
<1>0. LInv
  BY DEF QInv, SInv, TInv
<1>1. PICK c \in Change : Took(i, c) /\ c.life = NoEvent
  BY <1>0, SentIsIdle
<1>2. orders[i] \in Order /\ orders'[i] = Apply(orders[i], c) /\ orders[i].status # "NONE"
  BY <1>0, <1>1, LInvFacts, AtVenueIsSent DEF Took
<1>3. Apply(orders[i], c).status = orders[i].status
  <2>1. FoldLife(orders[i], c.life) = orders[i]
    BY <1>1, EventParts DEF FoldLife
  <2>2. Apply(orders[i], c) = [orders[i] EXCEPT !.action = SetAction(@, c.action),
                                                !.held = SetHeld(@, c.held)]
    BY <1>2, <2>1 DEF Apply
  <2> QED BY <1>2, <2>2 DEF Order
<1> QED
  BY <1>2, <1>3 DEF Working

LEMMA BacksOwn ==
  ASSUME QInv, Does, NEW i \in Orders, NEW k, NEW v \in Nat, Backs(i, k, v)
  PROVE  Backs(i, k, v)'
<1>0. /\ UNCHANGED <<wire, venue>> /\ orders'[i].exec = orders[i].exec
      /\ venue[i].st = "none" => venue[i].exec = 0
  BY OwnExec, SaidNumbers DEF Does, Quietly
<1>1. CASE i \in Sells
  <2>1. Below(i, k, v) /\ (Closed(i, k) => venue[i].exec <= v)
    BY <1>1 DEF Backs
  <2>2. Below(i, k, v)'
    BY <1>0, <2>1 DEF Below
  <2>3. ASSUME Closed(i, k)' PROVE venue[i].exec <= v
    <3>1. CASE AtVenue(i)
      BY <1>0, <1>1, <2>1, <2>3, <3>1, OwnWorks DEF Closed
    <3>2. CASE ~AtVenue(i)
      BY <1>0, <3>2 DEF AtVenue
    <3> QED BY <3>1, <3>2
  <2> QED BY <1>0, <1>1, <2>2, <2>3 DEF Backs
<1>2. CASE i \notin Sells
  <2>1. v <= venue[i].exec /\ (Hears(i, k) => Reaches(i, k, v))
    BY <1>2 DEF Backs
  <2>2. Hears(i, k)' => Reaches(i, k, v)'
    BY <1>0, <2>1 DEF Hears, Reaches
  <2> QED BY <1>0, <1>2, <2>1, <2>2 DEF Backs
<1> QED
  BY <1>1, <1>2

LEMMA OwnBacking ==
  ASSUME HInv, Does
  PROVE  Backing' /\ \A i \in Orders : Rising(i)' /\ EndsLate(i)'
<1>0. QInv /\ UNCHANGED <<wire, ready, position, venue>>
  BY DEF HInv, Does, Quietly
<1>1. ASSUME NEW i \in Orders PROVE Rising(i)' /\ EndsLate(i)'
  <2>1. orders'[i].exec = orders[i].exec /\ Rising(i) /\ EndsLate(i)
    BY <1>0, OwnExec DEF HInv
  <2>2. Rising(i)'
    BY <1>0, <2>1 DEF Rising, Rises
  <2>3. EndsLate(i)'
    BY <1>0, <2>1 DEF EndsLate, Trusted, Reaches
  <2> QED BY <2>2, <2>3
<1>2. ASSUME NEW k \in 0 .. Len(wire), Trusted(ready, wire, k), OnShares(k)
      PROVE  Backed(k, Worth(k))'
  <2>1. PICK x \in [Orders -> Nat] : Worth(k) <= Worths(x) /\ \A i \in Orders : Backs(i, k, x[i])
    BY <1>2 DEF HInv, Backing, Backed
  <2>2. \A i \in Orders : Backs(i, k, x[i])'
    BY <1>0, <2>1, BacksOwn
  <2>3. Worth(k)' = Worth(k) /\ Worths(x)' = Worths(x)
    BY <1>0 DEF Worth, Worths
  <2> QED BY <2>1, <2>2, <2>3 DEF Backed
<1>3. Backing'
  BY <1>0, <1>2 DEF Backing, OnShares, Trusted
<1> QED
  BY <1>1, <1>3

-----------------------------------------------------------------------------
(* A message of the inbox *)

LEMMA TakeParts ==
  ASSUME QInv, StreamEvent
  PROVE  /\ Len(wire) \in Nat /\ Len(wire) > 0 /\ Head(wire) = wire[1] /\ wire[1] \in Msgs
         /\ wire' \in Seq(Msgs) /\ Len(wire') = Len(wire) - 1
         /\ \A l \in 1 .. Len(wire) - 1 : wire'[l] = wire[l + 1]
         /\ UNCHANGED <<venue, shares, closing, up, posts>>
         /\ ready' = After(ready, wire[1])
         /\ \A i \in Orders : Learns(i, wire[1])
<1>1. LInv /\ wire \in Seq(Msgs)
  BY LInvFacts DEF QInv, SInv, TInv, VenueTypeOK
<1>2. /\ wire # <<>> /\ wire' = Tail(wire) /\ UNCHANGED <<venue, shares, closing, up, posts>>
      /\ ready' = After(ready, Head(wire)) /\ \A i \in Orders : Learns(i, Head(wire))
  BY <1>1, EventSteps
<1> QED
  BY <1>1, <1>2, SeqParts

LEMMA HeadExec ==
  ASSUME QInv, StreamEvent, NEW i \in Orders
  PROVE  /\ SaysExec(wire[1], i) => orders'[i].exec = SaidExec(wire[1], i)
         /\ ~SaysExec(wire[1], i) => orders'[i].exec = orders[i].exec
<1> DEFINE m == wire[1]
<1>0. LInv /\ m \in Msgs /\ Learns(i, m) /\ 1 \in 1 .. Len(wire)
  BY TakeParts DEF QInv, SInv, TInv
<1>1. CASE posts[i] # 0
  <2>1. ~(Filled(m, i) /\ Listing(m, i))
    BY DEF Filled, Listing, Lists
  <2> QED BY <1>0, <1>1, <2>1, LearnsMeans DEF SaysExec, SaidExec
<1>2. CASE posts[i] = 0
  <2>1. ~SaysExec(m, i)
    BY <1>0, <1>2, Numbers, SaidNumbers
  <2>2. PICK c \in Change : Took(i, c) /\ c.life = (IF m.ev = "Lives" THEN m.lives[i] ELSE NoEvent)
    BY <1>0, <2>1 DEF Learns, SaysExec, Listing
  <2>3. c.life.ev # "OrderFilled"
    BY <2>1, <2>2, EventParts DEF SaysExec, Filled
  <2> QED BY <1>0, <2>1, <2>2, <2>3, TookMeans
<1> QED
  BY <1>1, <1>2

\* A message that does not end a SELL leaves it working.
LEMMA HeadWorks ==
  ASSUME QInv, StreamEvent, NEW i \in Orders, i \in Sells, i \notin misread, AtVenue(i),
         Working(orders[i]), ~Ending(wire[1].lives[i])
  PROVE  Working(orders'[i])
<1> DEFINE m == wire[1]
<1>0. /\ LInv /\ SInv /\ m \in Msgs /\ Learns(i, m) /\ i \in Legible /\ PlainRow(m.rows[i])
      /\ orders[i] \in Order /\ m.lives[i] \in Life /\ m.rows[i] \in Row
      /\ orders[i].status # "NONE" /\ orders[i].status \notin Done
  <2>1. LInv /\ SInv /\ m \in Msgs /\ Learns(i, m)
    BY TakeParts DEF QInv, SInv, TInv
  <2>2. i \in Legible
    BY DEF Legible, Firm
  <2>3. PlainRow(m.rows[i])
    <3>1. wire \in Seq(PlainMsgs(i)) /\ 1 \in 1 .. Len(wire)
      BY <2>1, <2>2, TakeParts DEF SInv, Stands
    <3>2. wire[1] \in PlainMsgs(i)
      BY <3>1
    <3> QED BY <3>2 DEF PlainMsgs
  <2> QED BY <2>1, <2>2, <2>3, IdsAssumption, LInvFacts DEF Msgs, Working, WorkingStatus, Done
<1>1. orders'[i].status \notin Refusal
  <2>1. AtVenue(i)'
    <3>1. UNCHANGED venue /\ net \subseteq net'
      BY <1>0, EventSteps DEF OnlyCancels
    <3> QED BY <3>1 DEF AtVenue, SubmitInFlight
  <2>2. Stands(i)'
    BY <1>0, EventStands
  <2> QED BY <2>1, <2>2 DEF Stands, Accepted
<1>2. PICK o \in Order, c \in Change :
        /\ orders'[i] = Apply(o, c) /\ o.status # "NONE" /\ o.status \notin Done
        /\ c.life = NoEvent \/ c.life = m.lives[i]
  <2>1. PICK c \in Change :
          IF Lists(m) /\ Listed(m.rows[i])
          THEN /\ c.life = NoEvent
               /\ orders'[i] = Apply(Overlay(orders[i], m.rows[i]), c)
          ELSE Took(i, c) /\ c.life = (IF m.ev = "Lives" THEN m.lives[i] ELSE NoEvent)
    BY <1>0 DEF Learns
  <2>2. CASE Lists(m) /\ Listed(m.rows[i])
    <3> DEFINE o == Overlay(orders[i], m.rows[i])
    <3>1. o \in Order /\ o.status \in WorkingStatus
      BY <1>0, <2>2, OverlayType, OverlayFacts, RowStatus DEF PlainRow
    <3>2. o.status # "NONE" /\ o.status \notin Done
      BY <3>1 DEF Done, WorkingStatus
    <3> QED BY <2>1, <2>2, <3>1, <3>2
  <2>3. CASE ~(Lists(m) /\ Listed(m.rows[i]))
    BY <1>0, <2>1, <2>3 DEF Took
  <2> QED BY <2>2, <2>3
<1>3. c.life \in Life /\ ~Ending(c.life)
  BY <1>0, <1>2, EventParts, LifeTypes DEF Ending
<1>4. Apply(o, c).status \notin Done /\ Apply(o, c).status # "NONE" /\ Apply(o, c) \in Order
  <2>1. Apply(o, c).status \notin Done
    BY <1>2, <1>3, ApplyEndsNone
  <2>2. Apply(o, c).status # "NONE"
    BY <1>2, ApplyActs
  <2>3. Apply(o, c) \in Order
    BY <1>2, ApplyType
  <2> QED BY <2>1, <2>2, <2>3
<1> QED
  BY <1>1, <1>2, <1>4 DEF Refusal, Done, Working, WorkingStatus, Order, Status

\* What was reached is, once the first message is taken.
LEMMA ReachesTake ==
  ASSUME QInv, StreamEvent, NEW i \in Orders, Rising(i), NEW k \in 0 .. Len(wire) - 1, NEW v \in Nat,
         Reaches(i, k + 1, v)
  PROVE  Reaches(i, k, v)'
<1>1. /\ Len(wire) \in Nat /\ Len(wire) > 0 /\ \A l \in 1 .. Len(wire) - 1 : wire'[l] = wire[l + 1]
  BY TakeParts
<1>2. /\ orders[i].exec \in Nat
      /\ \A l \in 1 .. Len(wire) : SaysExec(wire[l], i) => SaidExec(wire[l], i) \in Nat
      /\ SaysExec(wire[1], i) => orders'[i].exec = SaidExec(wire[1], i)
      /\ ~SaysExec(wire[1], i) => orders'[i].exec = orders[i].exec
      /\ SaysExec(wire[1], i) => orders[i].exec <= SaidExec(wire[1], i)
  BY <1>1, SaidNumbers, HeadExec DEF Rising, Rises
<1>3. CASE v <= orders[i].exec
  BY <1>1, <1>2, <1>3 DEF Reaches
<1>4. ASSUME NEW l \in 1 .. k + 1, SaysExec(wire[l], i), v <= SaidExec(wire[l], i)
      PROVE  Reaches(i, k, v)'
  <2>1. CASE l = 1
    BY <1>2, <1>4, <2>1 DEF Reaches
  <2>2. CASE l # 1
    <3>1. l - 1 \in 1 .. k /\ l - 1 \in 1 .. Len(wire) - 1 /\ (l - 1) + 1 = l
      BY <1>1, <2>2
    <3>2. wire'[l - 1] = wire[l]
      BY <1>1, <3>1
    <3>3. SaysExec(wire'[l - 1], i) /\ v <= SaidExec(wire'[l - 1], i)
      BY <1>4, <3>2
    <3> QED BY <3>1, <3>3 DEF Reaches, SaysExec, SaidExec, Filled, Listing, Lists
  <2> QED BY <2>1, <2>2
<1> QED
  BY <1>3, <1>4 DEF Reaches

LEMMA BacksTake ==
  ASSUME QInv, Clear, StreamEvent, NEW i \in Orders, Rising(i), NEW k \in 0 .. Len(wire) - 1, NEW v \in Nat,
         Backs(i, k + 1, v)
  PROVE  Backs(i, k, v)'
<1>1. /\ Len(wire) \in Nat /\ Len(wire) > 0 /\ \A l \in 1 .. Len(wire) - 1 : wire'[l] = wire[l + 1]
      /\ UNCHANGED venue /\ Len(wire') = Len(wire) - 1
  BY TakeParts
<1>2. /\ SaysExec(wire[1], i) => orders'[i].exec = SaidExec(wire[1], i)
      /\ ~SaysExec(wire[1], i) => orders'[i].exec = orders[i].exec
      /\ venue[i].st = "none" => venue[i].exec = 0
  BY SaidNumbers, HeadExec
<1>3. \A l \in 1 .. k : l + 1 \in 1 .. k + 1 /\ wire'[l] = wire[l + 1]
  BY <1>1
<1>4. CASE i \in Sells
  <2>1. Below(i, k + 1, v) /\ (Closed(i, k + 1) => venue[i].exec <= v)
    BY <1>4 DEF Backs
  <2>2. Below(i, k, v)'
    <3>1. /\ orders[i].exec <= v
          /\ \A l \in 1 .. k + 1 : SaysExec(wire[l], i) => SaidExec(wire[l], i) <= v
      BY <2>1 DEF Below
    <3>2. orders'[i].exec <= v
      BY <1>2, <3>1
    <3>3. \A l \in 1 .. k : SaysExec(wire'[l], i) => SaidExec(wire'[l], i) <= v
      BY <1>3, <3>1
    <3> QED BY <3>2, <3>3 DEF Below, SaysExec, SaidExec, Filled, Listing, Lists
  <2>3. ASSUME Closed(i, k)' PROVE venue[i].exec <= v
    <3>1. CASE ~AtVenue(i)
      BY <1>2, <3>1 DEF AtVenue
    <3>2. CASE AtVenue(i) /\ ~Working(orders'[i])
      <4>1. ~Working(orders[i]) \/ Ending(wire[1].lives[i])
        BY <1>4, <3>2, HeadWorks DEF Clear
      <4>2. Closed(i, k + 1)
        BY <4>1 DEF Closed
      <4> QED BY <2>1, <4>2
    <3>3. ASSUME NEW l \in 1 .. k, Ending(wire'[l].lives[i]) PROVE venue[i].exec <= v
      <4>1. Closed(i, k + 1)
        BY <1>3, <3>3 DEF Closed
      <4> QED BY <2>1, <4>1
    <3> QED BY <2>3, <3>1, <3>2, <3>3 DEF Closed
  <2> QED BY <1>1, <1>4, <2>2, <2>3 DEF Backs
<1>5. CASE i \notin Sells
  <2>1. v <= venue[i].exec /\ (Hears(i, k + 1) => Reaches(i, k + 1, v))
    BY <1>5 DEF Backs
  <2>2. ASSUME Hears(i, k)' PROVE Hears(i, k + 1)
    <3>1. PICK l \in 1 .. Len(wire') :
            l > k /\ SaysExec(wire'[l], i) /\ \A n \in 1 .. l : n > k => ~Breaks(wire'[n])
      BY <2>2 DEF Hears, SaysExec, Filled, Listing, Lists
    <3>2. l + 1 \in 1 .. Len(wire) /\ l + 1 > k + 1 /\ SaysExec(wire[l + 1], i)
      BY <1>1, <3>1
    <3>3. ASSUME NEW n \in 1 .. l + 1, n > k + 1 PROVE ~Breaks(wire[n])
      <4>1. n - 1 \in 1 .. l /\ n - 1 > k /\ n - 1 \in 1 .. Len(wire) - 1 /\ (n - 1) + 1 = n
        BY <1>1, <3>1, <3>3
      <4>2. wire'[n - 1] = wire[n]
        BY <1>1, <4>1
      <4>3. ~Breaks(wire'[n - 1])
        BY <3>1, <4>1
      <4> QED BY <4>2, <4>3
    <3> QED BY <3>2, <3>3 DEF Hears
  <2>3. Hears(i, k)' => Reaches(i, k, v)'
    BY <2>1, <2>2, ReachesTake
  <2> QED BY <1>1, <1>5, <2>1, <2>3 DEF Backs
<1> QED
  BY <1>4, <1>5

LEMMA TakeOrders ==
  ASSUME QInv, StreamEvent, NEW i \in Orders, Rising(i), EndsLate(i), ready \in BOOLEAN
  PROVE  Rising(i)' /\ EndsLate(i)'
<1>1. /\ Len(wire) \in Nat /\ Len(wire) > 0 /\ \A l \in 1 .. Len(wire) - 1 : wire'[l] = wire[l + 1]
      /\ UNCHANGED venue /\ Len(wire') = Len(wire) - 1 /\ wire' \in Seq(Msgs)
      /\ wire \in Seq(Msgs) /\ wire # <<>> /\ wire' = Tail(wire) /\ ready' = After(ready, Head(wire))
  <2>1. LInv
    BY DEF QInv, SInv, TInv
  <2> QED BY <2>1, TakeParts, SaidNumbers, EventSteps
<1>2. /\ SaysExec(wire[1], i) => orders'[i].exec = SaidExec(wire[1], i)
      /\ ~SaysExec(wire[1], i) => orders'[i].exec = orders[i].exec
  BY HeadExec
<1>3. \A l \in 1 .. Len(wire') : l + 1 \in 1 .. Len(wire) /\ 1 < l + 1 /\ wire'[l] = wire[l + 1]
  BY <1>1
<1>4. Rising(i)'
  <2>1. \A a \in 1 .. Len(wire) : SaysExec(wire[a], i) =>
          /\ orders[i].exec <= SaidExec(wire[a], i)
          /\ \A b \in 1 .. Len(wire) : a < b /\ SaysExec(wire[b], i)
                                         => SaidExec(wire[a], i) <= SaidExec(wire[b], i)
    BY DEF Rising, Rises
  <2>2. 1 \in 1 .. Len(wire)
    BY <1>1
  <2>3. ASSUME NEW a \in 1 .. Len(wire'), SaysExec(wire'[a], i)
        PROVE  /\ orders'[i].exec <= SaidExec(wire'[a], i)
               /\ \A b \in 1 .. Len(wire') : a < b /\ SaysExec(wire'[b], i)
                                              => SaidExec(wire'[a], i) <= SaidExec(wire'[b], i)
    <3>1. a + 1 \in 1 .. Len(wire) /\ 1 < a + 1 /\ wire'[a] = wire[a + 1] /\ SaysExec(wire[a + 1], i)
      BY <1>3, <2>3
    <3>2. orders'[i].exec <= SaidExec(wire'[a], i)
      <4>1. CASE SaysExec(wire[1], i)
        BY <1>2, <2>1, <2>2, <3>1, <4>1
      <4>2. CASE ~SaysExec(wire[1], i)
        BY <1>2, <2>1, <3>1, <4>2
      <4> QED BY <4>1, <4>2
    <3>3. ASSUME NEW b \in 1 .. Len(wire'), a < b, SaysExec(wire'[b], i)
          PROVE  SaidExec(wire'[a], i) <= SaidExec(wire'[b], i)
      <4>1. b + 1 \in 1 .. Len(wire) /\ a + 1 < b + 1 /\ wire'[b] = wire[b + 1]
        BY <1>3, <3>3
      <4> QED BY <2>1, <3>1, <3>3, <4>1
    <3> QED BY <3>2, <3>3
  <2>4. wire' \in Rises(i, orders'[i].exec)
    BY <1>1, <2>3 DEF Rises
  <2> QED BY <2>4 DEF Rising, Rises, SaysExec, SaidExec, Filled, Listing, Lists
<1>5. EndsLate(i)'
  <2> SUFFICES ASSUME i \in Sells PROVE EndsLate(i)'
    BY DEF EndsLate
  <2>1. ASSUME NEW k \in 1 .. Len(wire'), Trusted(ready', wire', k), Ending(wire'[k].lives[i])
        PROVE  Reaches(i, k, venue[i].exec)'
    <3>1. k + 1 \in 1 .. Len(wire) /\ wire'[k] = wire[k + 1] /\ k \in 0 .. Len(wire) - 1
      BY <1>1, <1>3
    <3>2. Trusted(ready, wire, k + 1)
      BY <1>1, <2>1, <3>1, TrustTake
    <3>3. Reaches(i, k + 1, venue[i].exec) /\ venue[i].exec \in Nat
      BY <2>1, <3>1, <3>2, SaidNumbers DEF EndsLate
    <3> DEFINE v == venue[i].exec
    <3>4. v' = v /\ v \in Nat /\ Reaches(i, k + 1, v)
      BY <1>1, <3>3
    <3> HIDE DEF v
    <3>5. Reaches(i, k, v)'
      <4>1. \A u \in Nat : Reaches(i, k + 1, u) => Reaches(i, k, u)'
        BY <3>1, ReachesTake
      <4> QED BY <3>4, <4>1
    <3> QED BY <3>5 DEF v
  <2> QED BY <2>1 DEF EndsLate, Trusted, Lists, Breaks
<1> QED
  BY <1>4, <1>5


-----------------------------------------------------------------------------
(* The position after a message of the inbox *)

LEMMA HeadPosition ==
  ASSUME QInv, StreamEvent
  PROVE  /\ wire[1].ev = "Lives" =>
              position' = IF ready THEN position + FillsDelta(wire[1].lives) ELSE position
         /\ Tells(wire[1]) =>
              \/ position' = wire[1].qty
              \/ ~ready /\ wire[1].ev = "BrokerPosition" /\ position' = position
         /\ ~Tells(wire[1]) /\ wire[1].ev # "Lives" => position' = position
<1>0. Head(wire) = wire[1]
  BY TakeParts
<1>1. CASE OnLives
  <2>1. wire[1].ev = "Lives"
    BY <1>0, <1>1 DEF OnLives, Receive
  <2>2. position' = IF ready THEN position + FillsDelta(wire[1].lives) ELSE position
    BY <1>0, <1>1 DEF OnLives, FoldLives
  <2> QED BY <2>1, <2>2 DEF Tells
<1>2. CASE OnPosition
  <2>1. wire[1].ev = "BrokerPosition" /\ position' = IF ready THEN wire[1].qty ELSE position
    BY <1>0, <1>2 DEF OnPosition, Receive
  <2> QED BY <2>1 DEF Tells
<1>3. CASE OnPositions
  BY <1>0, <1>3 DEF OnPositions, Receive, Tells
<1>4. CASE OnOpenOrders
  BY <1>0, <1>4 DEF OnOpenOrders, Receive, Tells
<1>5. ASSUME NEW k \in {"StreamGap", "BrokerConnUp", "BrokerConnDown"}, OnStreamBreak(k)
      PROVE  position' = position /\ ~Tells(wire[1]) /\ wire[1].ev # "Lives"
  BY <1>0, <1>5 DEF OnStreamBreak, Receive, Tells
<1> QED
  BY <1>1, <1>2, <1>3, <1>4, <1>5 DEF StreamEvent

LEMMA Signed ==
  ASSUME NEW i, NEW v \in Int
  PROVE  /\ SideSign(i) * v \in Int
         /\ i \in Sells => SideSign(i) * v = 0 - v
         /\ i \notin Sells => SideSign(i) * v = v
<1>1. CASE i \in Sells
  <2>1. SideSign(i) = -1 /\ -1 * v = 0 - v
    BY <1>1 DEF SideSign
  <2> QED BY <1>1, <2>1
<1>2. CASE i \notin Sells
  <2>1. SideSign(i) = 1 /\ 1 * v = v
    BY <1>2 DEF SideSign
  <2> QED BY <1>2, <2>1
<1> QED
  BY <1>1, <1>2

\* Taking a message of fills moves what the position counts of an order by what
\* it moves the position.
LEMMA BacksFill ==
  ASSUME QInv, Clear, StreamEvent, wire[1].ev = "Lives", ready = TRUE, NEW i \in Orders,
         Rising(i), EndsLate(i), NEW v \in Nat, Backs(i, 0, v)
  PROVE  \E u \in Nat : /\ Backs(i, 0, u)'
                        /\ SideSign(i) * v + FillDelta(i, wire[1].lives[i]) <= SideSign(i) * u
<1> DEFINE m == wire[1]
           d == FillDelta(i, wire[1].lives[i])
           c == SaidExec(wire[1], i)
           e == orders[i].exec
<1>0. /\ Len(wire) \in Nat /\ Len(wire) > 0 /\ \A l \in 1 .. Len(wire) - 1 : wire'[l] = wire[l + 1]
      /\ UNCHANGED venue /\ Len(wire') = Len(wire) - 1 /\ m \in Msgs /\ LInv
      /\ ~Breaks(m) /\ ~Lists(m) /\ 1 \in 1 .. Len(wire)
  <2>1. LInv
    BY DEF QInv, SInv, TInv
  <2> QED BY <2>1, TakeParts DEF Breaks, Lists
<1>1. /\ SaysExec(m, i) => orders'[i].exec = c
      /\ ~SaysExec(m, i) => orders'[i].exec = e
      /\ e \in Nat /\ venue[i].exec \in Nat /\ e <= venue[i].exec
      /\ venue[i].st = "none" => venue[i].exec = 0
      /\ SaysExec(m, i) => c \in Nat /\ c <= venue[i].exec /\ e <= c /\ venue[i].st # "none"
  BY <1>0, SaidNumbers, HeadExec DEF Rising, Rises
<1>2. SaysExec(m, i) <=> m.lives[i].ev = "OrderFilled"
  BY <1>0 DEF SaysExec, Filled, Listing
<1>3. /\ ~SaysExec(m, i) => d = 0
      /\ SaysExec(m, i) /\ i \in Sells => d = e - c
      /\ SaysExec(m, i) /\ i \notin Sells => d = c - e
  <2>1. CASE ~SaysExec(m, i)
    BY <1>2, <2>1 DEF FillDelta
  <2>2. CASE SaysExec(m, i)
    <3>1. orders[i].status # "NONE"
      BY <1>0, <1>1, <2>2, AtVenueIsSent DEF AtVenue
    <3>2. c = m.lives[i].cum
      BY <1>0, <2>2 DEF SaysExec, Listing, SaidExec
    <3>3. CASE c > e
      <4>1. d = SideSign(i) * (c - e)
        BY <1>2, <2>2, <3>1, <3>2, <3>3 DEF FillDelta
      <4>2. c - e \in Int /\ 0 - (c - e) = e - c
        BY <1>1, <2>2
      <4> QED BY <2>2, <4>1, <4>2, Signed
    <3>4. CASE c = e
      <4>1. d = 0
        BY <1>1, <3>2, <3>4 DEF FillDelta
      <4> QED BY <1>1, <2>2, <3>4, <4>1
    <3> QED BY <1>1, <2>2, <3>3, <3>4
  <2> QED BY <2>1, <2>2
<1>4. \A n \in Nat : /\ i \in Sells => SideSign(i) * n = 0 - n
                     /\ i \notin Sells => SideSign(i) * n = n
  BY Signed
<1> HIDE DEF d
<1>5. CASE i \in Sells
  <2>0. PICK u \in Nat : u = IF SaysExec(m, i) /\ c > v THEN c ELSE v
    BY <1>1
  <2>1. e <= v /\ (Closed(i, 0) => venue[i].exec <= v)
    BY <1>5 DEF Backs, Below
  <2>2. u \in Nat /\ v <= u /\ orders'[i].exec <= u /\ (SaysExec(m, i) => c <= u)
    BY <1>1, <2>0, <2>1
  <2>3. SideSign(i) * v + d <= SideSign(i) * u
    <3>1. SideSign(i) * v = 0 - v /\ SideSign(i) * u = 0 - u
      BY <1>4, <1>5
    <3>2. (0 - v) + d <= 0 - u
      BY <1>1, <1>3, <1>5, <2>0, <2>1
    <3> QED BY <3>1, <3>2
  <2>4. ASSUME Closed(i, 0)' PROVE venue[i].exec <= u
    <3>1. CASE ~AtVenue(i)
      BY <1>1, <2>2, <3>1 DEF AtVenue
    <3>2. CASE ~Working(orders[i])
      BY <1>1, <2>1, <2>2, <3>2 DEF Closed
    <3>3. CASE Ending(m.lives[i])
      <4>1. Trusted(ready, wire, 1)
        BY <1>0 DEF Trusted
      <4>2. Reaches(i, 1, venue[i].exec)
        BY <1>0, <1>5, <3>3, <4>1 DEF EndsLate
      <4>3. venue[i].exec <= e \/ (SaysExec(m, i) /\ venue[i].exec <= c)
        BY <4>2 DEF Reaches
      <4> QED BY <1>1, <2>1, <2>2, <4>3
    <3>4. CASE AtVenue(i) /\ Working(orders[i]) /\ ~Ending(m.lives[i])
      <4>1. Working(orders'[i])
        BY <1>5, <3>4, HeadWorks DEF Clear
      <4> QED BY <2>4, <4>1 DEF Closed
    <3> QED BY <3>1, <3>2, <3>3, <3>4
  <2>5. Backs(i, 0, u)'
    <3>1. Below(i, 0, u)'
      BY <2>2 DEF Below
    <3> QED BY <1>0, <1>5, <2>4, <3>1 DEF Backs
  <2> QED BY <2>2, <2>3, <2>5 DEF d
<1>6. CASE i \notin Sells
  <2>0. PICK u \in Nat : u = IF SaysExec(m, i) THEN v + (c - e) ELSE v
    BY <1>1
  <2>1. v <= venue[i].exec /\ (Hears(i, 0) => v <= e)
    BY <1>6 DEF Backs, Reaches
  <2>2. SaysExec(m, i) => v <= e
    <3>1. SaysExec(m, i) => Hears(i, 0)
      BY <1>0 DEF Hears
    <3> QED BY <2>1, <3>1
  <2>3. u \in Nat /\ u <= venue[i].exec /\ (SaysExec(m, i) => u <= orders'[i].exec)
    BY <1>1, <2>0, <2>1, <2>2
  <2>4. SideSign(i) * v + d <= SideSign(i) * u
    <3>1. SideSign(i) * v = v /\ SideSign(i) * u = u
      BY <1>4, <1>6
    <3>2. v + d <= u
      BY <1>1, <1>3, <1>6, <2>0
    <3> QED BY <3>1, <3>2
  <2>5. ASSUME Hears(i, 0)' PROVE u <= orders'[i].exec
    <3>1. CASE SaysExec(m, i)
      BY <2>3, <3>1
    <3>2. CASE ~SaysExec(m, i)
      <4>1. PICK l \in 1 .. Len(wire') :
              SaysExec(wire'[l], i) /\ \A n \in 1 .. l : n > 0 => ~Breaks(wire'[n])
        BY <2>5 DEF Hears, SaysExec, Filled, Listing, Lists
      <4>2. l + 1 \in 1 .. Len(wire) /\ l + 1 > 0 /\ SaysExec(wire[l + 1], i)
        BY <1>0, <4>1
      <4>3. ASSUME NEW n \in 1 .. l + 1 PROVE ~Breaks(wire[n])
        <5>1. CASE n = 1
          BY <1>0, <5>1
        <5>2. CASE n # 1
          <6>1. n - 1 \in 1 .. l /\ n - 1 > 0 /\ n - 1 \in 1 .. Len(wire) - 1 /\ (n - 1) + 1 = n
            BY <1>0, <4>1, <4>3, <5>2
          <6>2. wire'[n - 1] = wire[n] /\ ~Breaks(wire'[n - 1])
            BY <1>0, <4>1, <6>1
          <6> QED BY <6>2
        <5> QED BY <5>1, <5>2
      <4>4. Hears(i, 0)
        BY <4>2, <4>3 DEF Hears
      <4> QED BY <1>1, <2>0, <2>1, <3>2, <4>4
    <3> QED BY <3>1, <3>2
  <2>6. Backs(i, 0, u)'
    BY <1>0, <1>6, <2>3, <2>5 DEF Backs, Reaches
  <2> QED BY <2>3, <2>4, <2>6 DEF d
<1> QED
  BY <1>5, <1>6

\* A number for each order that has one.
LEMMA Choosing ==
  ASSUME NEW S, NEW R, \A a \in S : \E n \in Nat : <<a, n>> \in R
  PROVE  \E x \in [S -> Nat] : \A a \in S : <<a, x[a]>> \in R
<1> DEFINE x == [a \in S |-> CHOOSE n \in Nat : <<a, n>> \in R]
<1>1. \A a \in S : x[a] \in Nat /\ <<a, x[a]>> \in R
  OBVIOUS
<1> QED
  BY <1>1

LEMMA WorthsType ==
  ASSUME IsFiniteSet(Orders), NEW x \in [Orders -> Nat]
  PROVE  Worths(x) \in Int
<1> DEFINE f == [i \in Orders |-> SideSign(i) * x[i]]
<1>1. \A i \in Orders : f[i] \in Int
  BY Signed
<1> HIDE DEF f
<1>2. SumFunctionOnSet(f, Orders) \in Int
  BY <1>1, SumType
<1> QED
  BY <1>2, OpeningAssumption DEF Worths, f

\* The position after a message of fills is backed by what it was before.
LEMMA FillBacking ==
  ASSUME HInv, StreamEvent, IsFiniteSet(Orders), wire[1].ev = "Lives", ready = TRUE
  PROVE  Backed(0, position)'
<1>0. QInv /\ Counted /\ Clear /\ \A i \in Orders : Rising(i) /\ EndsLate(i)
  BY DEF HInv
<1>1. PICK x \in [Orders -> Nat] : position <= Worths(x) /\ \A i \in Orders : Backs(i, 0, x[i])
  <2>1. Trusted(ready, wire, 0)
    BY TrustedNow
  <2>2. OnShares(0) /\ Worth(0) = position
    BY DEF OnShares, Worth
  <2>3. 0 \in 0 .. Len(wire)
    BY <1>0, TakeParts
  <2> QED BY <2>1, <2>2, <2>3 DEF HInv, Backing, Backed
<1> DEFINE R == {p \in Orders \X Nat :
                   /\ Backs(p[1], 0, p[2])'
                   /\ SideSign(p[1]) * x[p[1]] + FillDelta(p[1], wire[1].lives[p[1]])
                        <= SideSign(p[1]) * p[2]}
<1>2. \A i \in Orders : \E n \in Nat : <<i, n>> \in R
  <2>1. ASSUME NEW i \in Orders PROVE \E n \in Nat : <<i, n>> \in R
    <3>1. PICK u \in Nat : /\ Backs(i, 0, u)'
                           /\ SideSign(i) * x[i] + FillDelta(i, wire[1].lives[i]) <= SideSign(i) * u
      BY <1>0, <1>1, BacksFill
    <3> QED BY <3>1
  <2> QED BY <2>1
<1>3. PICK y \in [Orders -> Nat] : \A i \in Orders : <<i, y[i]>> \in R
  <2> HIDE DEF R
  <2> QED BY <1>2, Choosing
<1>4. \A i \in Orders :
        /\ Backs(i, 0, y[i])'
        /\ SideSign(i) * x[i] + FillDelta(i, wire[1].lives[i]) <= SideSign(i) * y[i]
  BY <1>3
<1> HIDE DEF R
<1> DEFINE f == [i \in Orders |-> SideSign(i) * x[i]]
           d == [i \in Orders |-> FillDelta(i, wire[1].lives[i])]
           h == [i \in Orders |-> f[i] + d[i]]
           g == [i \in Orders |-> SideSign(i) * y[i]]
<1>5. \A i \in Orders : /\ f[i] \in Int /\ d[i] \in Int /\ g[i] \in Int /\ h[i] \in Int
                         /\ h[i] = f[i] + d[i] /\ h[i] <= g[i]
  <2>1. ASSUME NEW i \in Orders
        PROVE  /\ f[i] \in Int /\ d[i] \in Int /\ g[i] \in Int /\ h[i] \in Int
               /\ h[i] = f[i] + d[i] /\ h[i] <= g[i]
    <3>1. SideSign(i) * x[i] \in Int /\ SideSign(i) * y[i] \in Int
      BY Signed
    <3>2. FillDelta(i, wire[1].lives[i]) \in Int
      <4>1. wire[1].lives[i].cum \in Nat /\ orders[i].exec \in Nat
        <5>1. wire[1] \in Msgs /\ orders[i].exec \in Nat
          BY <1>0, TakeParts, SaidNumbers
        <5> QED BY <5>1, QtyAssumption DEF Msgs, Life, Qtys
      <4>2. wire[1].lives[i].cum - orders[i].exec \in Int
        BY <4>1
      <4>3. SideSign(i) * (wire[1].lives[i].cum - orders[i].exec) \in Int
        BY <4>2, Signed
      <4> QED BY <4>3 DEF FillDelta
    <3> QED BY <1>4, <3>1, <3>2
  <2> QED BY <2>1
<1>6. /\ Worths(x) = Opening + SumFunctionOnSet(f, Orders)
      /\ Worths(y) = Opening + SumFunctionOnSet(g, Orders)
      /\ FillsDelta(wire[1].lives) = SumFunctionOnSet(d, Orders)
  BY DEF Worths, FillsDelta
<1> HIDE DEF f, d, g, h
<1>7. SumFunctionOnSet(h, Orders) = SumFunctionOnSet(f, Orders) + SumFunctionOnSet(d, Orders)
  <2>1. \A i \in Orders : f[i] \in Int /\ d[i] \in Int /\ h[i] = f[i] + d[i]
    BY <1>5
  <2> QED BY <2>1, SumAdds
<1>8. SumFunctionOnSet(h, Orders) <= SumFunctionOnSet(g, Orders)
  <2>1. \A i \in Orders : h[i] \in Int /\ g[i] \in Int /\ h[i] <= g[i]
    BY <1>5
  <2> QED BY <2>1, SumRises
<1>9. /\ SumFunctionOnSet(f, Orders) \in Int /\ SumFunctionOnSet(d, Orders) \in Int
      /\ SumFunctionOnSet(g, Orders) \in Int
  BY <1>5, SumType
<1>10. position' <= Worths(y)
  <2>1. position' = position + SumFunctionOnSet(d, Orders)
    BY <1>0, <1>6, HeadPosition
  <2>2. position \in Int /\ position <= Opening + SumFunctionOnSet(f, Orders)
    BY <1>0, <1>1, <1>6 DEF Counted
  <2> QED BY <1>6, <1>7, <1>8, <1>9, <2>1, <2>2, OpeningAssumption
<1>11. Worths(y)' = Worths(y)
  BY DEF Worths
<1> QED
  BY <1>4, <1>10, <1>11 DEF Backed

LEMMA TakeBacking ==
  ASSUME HInv, StreamEvent, IsFiniteSet(Orders)
  PROVE  Backing'
<1>0. /\ QInv /\ Clear /\ (\A i \in Orders : Rising(i)) /\ ready \in BOOLEAN /\ Paired(wire)
      /\ wire \in Seq(Msgs) /\ wire # <<>> /\ wire' = Tail(wire) /\ Head(wire) = wire[1]
      /\ Len(wire) \in Nat /\ Len(wire) > 0 /\ Len(wire') = Len(wire) - 1
      /\ ready' = After(ready, wire[1])
      /\ \A l \in 1 .. Len(wire) - 1 : wire'[l] = wire[l + 1]
  <2>1. QInv /\ Clear /\ LInv
    BY DEF HInv, QInv, SInv, TInv
  <2>2. ready \in BOOLEAN
    BY <2>1, LInvFacts DEF CoreTypeOK
  <2>3. wire \in Seq(Msgs) /\ Paired(wire) /\ \A i \in Orders : Rising(i)
    BY <2>1, LInvFacts DEF VenueTypeOK, HInv, PosInv
  <2>4. wire # <<>> /\ wire' = Tail(wire)
    BY <2>1, EventSteps
  <2> QED BY <2>1, <2>2, <2>3, <2>4, TakeParts
<1>1. ASSUME NEW k \in 0 .. Len(wire) - 1, Trusted(ready, wire, k + 1), OnShares(k + 1),
             Worth(k)' = Worth(k + 1)
      PROVE  Backed(k, Worth(k))'
  <2>1. k + 1 \in 0 .. Len(wire)
    BY <1>0
  <2>2. Backed(k + 1, Worth(k + 1))
    BY <1>1, <2>1 DEF HInv, Backing
  <2>3. PICK x \in [Orders -> Nat] :
          Worth(k + 1) <= Worths(x) /\ \A i \in Orders : Backs(i, k + 1, x[i])
    BY <2>2 DEF Backed
  <2>4. \A i \in Orders : Backs(i, k, x[i])'
    BY <1>0, <2>3, BacksTake
  <2>5. Worths(x)' = Worths(x)
    BY DEF Worths
  <2> QED BY <1>1, <2>3, <2>4, <2>5 DEF Backed
<1>2. ASSUME NEW k \in 0 .. Len(wire'), Trusted(ready', wire', k), OnShares(k)'
      PROVE  Backed(k, Worth(k))'
  <2>1. k \in 0 .. Len(wire) - 1 /\ Trusted(ready, wire, k + 1)
    <3>1. k \in 0 .. Len(wire) - 1
      BY <1>0
    <3> QED BY <1>0, <1>2, <3>1, TrustTake
  <2>2. CASE k # 0
    <3>1. k \in 1 .. Len(wire) - 1 /\ wire'[k] = wire[k + 1] /\ k + 1 # 0 /\ k + 1 # 1
          /\ (k + 1) - 1 = k /\ k + 1 \in 1 .. Len(wire)
      BY <1>0, <2>1, <2>2
    <3>2. OnShares(k + 1)
      BY <1>2, <2>2, <3>1 DEF OnShares, Tells, Lists
    <3>3. Worth(k)' = Worth(k + 1)
      <4>1. CASE ~Lists(wire[k + 1])
        BY <2>2, <3>1, <4>1 DEF Worth, Lists
      <4>2. CASE Lists(wire[k + 1]) /\ k = 1
        <5>1. wire[k].ev = "BrokerPositions"
          BY <1>0, <3>1, <4>2 DEF Paired
        <5>2. position' = wire[1].qty
          BY <1>0, <4>2, <5>1, HeadPosition DEF Tells
        <5> QED BY <2>2, <3>1, <4>2, <5>2 DEF Worth, Lists
      <4>3. CASE Lists(wire[k + 1]) /\ k # 1
        <5>1. wire'[k - 1] = wire[k]
          <6>1. k - 1 \in 1 .. Len(wire) - 1 /\ (k - 1) + 1 = k
            BY <1>0, <3>1, <4>3
          <6> QED BY <1>0, <6>1
        <5> QED BY <2>2, <3>1, <4>3, <5>1 DEF Worth, Lists
      <4> QED BY <4>1, <4>2, <4>3
    <3> QED BY <1>1, <2>1, <3>2, <3>3
  <2>3. CASE k = 0
    <3>1. ready' = TRUE /\ Worth(k)' = position' /\ 0 \in 0 .. Len(wire) - 1
      BY <1>0, <1>2, <2>3, TrustedNow DEF Trusted, Worth
    <3>2. ~Breaks(wire[1]) /\ (~Lists(wire[1]) => ready = TRUE)
      BY <1>0, <3>1 DEF After
    <3>3. CASE wire[1].ev = "Lives"
      <4>1. ready = TRUE
        BY <3>2, <3>3 DEF Lists
      <4>2. Backed(0, position)'
        BY <3>3, <4>1, FillBacking
      <4> QED BY <2>3, <4>2 DEF Worth
    <3>4. CASE Tells(wire[1])
      <4>1. ready = TRUE
        BY <3>2, <3>4 DEF Lists, Tells
      <4>2. position' = wire[1].qty
        BY <1>0, <3>4, <4>1, HeadPosition
      <4>3. Worth(1) = wire[1].qty /\ OnShares(1)
        BY <3>4 DEF Worth, OnShares, Lists, Tells
      <4> QED BY <1>1, <2>1, <2>3, <3>1, <4>2, <4>3
    <3>5. CASE Lists(wire[1])
      <4>1. position' = position
        BY <1>0, <3>5, HeadPosition DEF Lists, Tells
      <4>2. Worth(1) = position /\ OnShares(1)
        BY <3>5 DEF Worth, OnShares
      <4> QED BY <1>1, <2>1, <2>3, <3>1, <4>1, <4>2
    <3>6. wire[1].ev \in MsgKinds
      <4>1. wire[1] \in Msgs
        BY <1>0, TakeParts
      <4> QED BY <4>1 DEF Msgs
    <3> QED BY <3>2, <3>3, <3>4, <3>5, <3>6 DEF MsgKinds, Breaks, Tells, Lists
  <2> QED BY <2>2, <2>3
<1> QED
  BY <1>2 DEF Backing, Trusted, Lists, Breaks

\* A message of the inbox keeps all of it.
LEMMA TakeKeeps ==
  ASSUME HInv, StreamEvent, IsFiniteSet(Orders)
  PROVE  Backing' /\ Counted' /\ \A i \in Orders : Rising(i)' /\ EndsLate(i)'
<1>0. QInv /\ Counted /\ ready \in BOOLEAN /\ \A i \in Orders : Rising(i) /\ EndsLate(i)
  <2>1. QInv /\ LInv
    BY DEF HInv, QInv, SInv, TInv
  <2> QED BY <2>1, LInvFacts DEF CoreTypeOK, HInv
<1>1. \A i \in Orders : Rising(i)' /\ EndsLate(i)'
  BY <1>0, TakeOrders
<1>2. position' \in Int
  <2>1. position \in Int /\ wire[1] \in Msgs /\ wire[1].qty \in Int
    <3>1. wire[1] \in Msgs
      BY <1>0, TakeParts
    <3> QED BY <1>0, <3>1 DEF Counted, Msgs
  <2>2. FillsDelta(wire[1].lives) \in Int
    <3> DEFINE d == [i \in Orders |-> FillDelta(i, wire[1].lives[i])]
    <3>1. \A i \in Orders : d[i] \in Int
      <4>1. ASSUME NEW i \in Orders PROVE FillDelta(i, wire[1].lives[i]) \in Int
        <5>1. wire[1].lives[i].cum \in Nat /\ orders[i].exec \in Nat
          <6>1. orders[i].exec \in Nat
            BY <1>0, SaidNumbers
          <6> QED BY <2>1, <6>1, QtyAssumption DEF Msgs, Life, Qtys
        <5>2. wire[1].lives[i].cum - orders[i].exec \in Int
          BY <5>1
        <5>3. SideSign(i) * (wire[1].lives[i].cum - orders[i].exec) \in Int
          BY <5>2, Signed
        <5> QED BY <5>3 DEF FillDelta
      <4> QED BY <4>1
    <3> HIDE DEF d
    <3>2. SumFunctionOnSet(d, Orders) \in Int
      BY <3>1, SumType
    <3> QED BY <3>2 DEF FillsDelta, d
  <2> QED BY <1>0, <2>1, <2>2, HeadPosition
<1>3. Counted'
  <2>1. UNCHANGED <<venue, shares, closing, up>>
    BY <1>0, TakeParts
  <2> QED BY <1>0, <1>2, <2>1 DEF Counted, Worths, Executions
<1> QED
  BY <1>1, <1>3, TakeBacking

-----------------------------------------------------------------------------
(* A step outside the core *)

\* A SELL that is open is not taken for done, whatever the core has still to hear.
LEMMA OpenWorks ==
  ASSUME QInv, NEW i \in Orders, i \in Sells, i \notin misread, OpenAt(i), NEW k \in 0 .. Len(wire)
  PROVE  ~Closed(i, k)
<1>1. LInv /\ Afoot(i) /\ Stands(i) /\ AtVenue(i) /\ posts[i] # 0
  <2>1. LInv /\ Truth /\ AtBroker(i) /\ AtVenue(i)
    BY DEF QInv, SInv, TInv, AtBroker, AtVenue, OpenAt
  <2>2. i \in Legible => Stands(i)
    BY DEF QInv, SInv
  <2>3. i \in Legible
    BY DEF Legible, Firm
  <2> QED BY <2>1, <2>2, <2>3, AtVenueIsSent DEF Truth
<1>2. Working(orders[i])
  BY <1>1, StandsWorks DEF Stands, Afoot, Undone
<1>3. ASSUME NEW l \in 1 .. k PROVE ~Ending(wire[l].lives[i])
  <2>1. wire \in Seq(Unending(i)) /\ l \in 1 .. Len(wire)
    BY <1>1 DEF Afoot
  <2>2. wire[l] \in Unending(i)
    BY <2>1
  <2> QED BY <2>2 DEF Unending
<1> QED
  BY <1>2, <1>3 DEF Closed

\* Of an open order a trusted inbox says all there is.
LEMMA SureReaches ==
  ASSUME QInv, up, online, NEW i \in Orders, OpenAt(i), Trusted(ready, wire, Len(wire)),
         NEW k \in 0 .. Len(wire)
  PROVE  \/ Reaches(i, k, venue[i].exec)
         \/ \E l \in 1 .. Len(wire) : l > k /\ SaysExec(wire[l], i)
<1>1. Current(wire, OnExec(i), ExecIs(i, venue[i].exec), HasExec(i))
  <2>1. KnowsExec(i)
    BY DEF QInv, Knows
  <2>2. Sure(i)
    BY DEF Sure
  <2> QED BY <2>1, <2>2 DEF KnowsExec
<1>2. orders[i].exec \in Nat /\ venue[i].exec \in Nat /\ Len(wire) \in Nat
  BY SaidNumbers
<1>3. CASE HasExec(i)
  BY <1>2, <1>3 DEF HasExec, Reaches
<1>4. ASSUME NEW l \in 1 .. Len(wire), wire[l] \in ExecIs(i, venue[i].exec)
      PROVE  \/ Reaches(i, k, venue[i].exec)
             \/ \E n \in 1 .. Len(wire) : n > k /\ SaysExec(wire[n], i)
  <2>1. SaysExec(wire[l], i) /\ SaidExec(wire[l], i) = venue[i].exec
    BY <1>4 DEF ExecIs
  <2>2. CASE l > k
    BY <2>1, <2>2
  <2>3. CASE ~(l > k)
    <3>1. l \in 1 .. k
      BY <1>2, <2>3
    <3> QED BY <1>2, <2>1, <3>1 DEF Reaches
  <2> QED BY <2>2, <2>3
<1> QED
  BY <1>1, <1>3, <1>4 DEF Current

\* The inbox only grows.  A new word that tells of shares, if it is trusted, is
\* the last one and tells how many there are now; one that ends an order comes
\* after all its fills; one of fills comes after a break, or tells the fill that
\* happens.
Extends ==
  wire' \in Seq(Msgs) /\ Len(wire) <= Len(wire') /\ \A l \in 1 .. Len(wire) : wire'[l] = wire[l]
NewWord(k) ==
  /\ Trusted(ready, wire', k) /\ OnShares(k)' => k = Len(wire') /\ Worth(k)' = shares'
  /\ \A i \in Orders : /\ Trusted(ready, wire', k) /\ Ending(wire'[k].lives[i])
                            => Reaches(i, k, venue[i].exec)'
                       /\ SaysExec(wire'[k], i) =>
                            \/ Executes(i) /\ online
                            \/ \E n \in Len(wire) + 1 .. k : Breaks(wire'[n])
Lengthens == Extends /\ \A k \in Len(wire) + 1 .. Len(wire') : NewWord(k)

\* A word that breaks the stream, or one of a single order that is no fill.
LEMMA OneWord ==
  ASSUME wire \in Seq(Msgs), NEW m \in Msgs, wire' = Append(wire, m), UNCHANGED orders,
         ~Tells(m), ~Lists(m), \A i \in Orders : ~SaysExec(m, i),
         \A i \in Orders : Ending(m.lives[i]) =>
           (Trusted(ready, wire, Len(wire)) => Reaches(i, Len(wire), venue'[i].exec)),
         Breaks(m) => \A i \in Orders : ~Ending(m.lives[i])
  PROVE  Lengthens
<1>1. /\ Len(wire) \in Nat /\ wire' \in Seq(Msgs) /\ Len(wire') = Len(wire) + 1
      /\ wire'[Len(wire) + 1] = m /\ \A l \in 1 .. Len(wire) : wire'[l] = wire[l]
  BY SeqParts
<1>2. ASSUME NEW k \in Len(wire) + 1 .. Len(wire') PROVE NewWord(k)
  <2>1. k = Len(wire) + 1 /\ wire'[k] = m /\ k # 0
    BY <1>1
  <2>2. ~OnShares(k)'
    BY <2>1 DEF OnShares, Tells, Lists
  <2>3. ASSUME NEW i \in Orders, Trusted(ready, wire', k), Ending(wire'[k].lives[i])
        PROVE  Reaches(i, k, venue[i].exec)'
    <3>1. Trusted(ready, wire, Len(wire))
      BY <2>1, <2>3, TrustPut
    <3>2. Reaches(i, Len(wire), venue'[i].exec)
      BY <2>1, <2>3, <3>1
    <3>3. CASE venue'[i].exec <= orders[i].exec
      BY <3>3 DEF Reaches
    <3>4. ASSUME NEW l \in 1 .. Len(wire), SaysExec(wire[l], i), venue'[i].exec <= SaidExec(wire[l], i)
          PROVE  Reaches(i, k, venue[i].exec)'
      <4>1. l \in 1 .. k /\ wire'[l] = wire[l]
        BY <1>1, <2>1
      <4> QED BY <3>4, <4>1 DEF Reaches, SaysExec, SaidExec, Filled, Listing, Lists
    <3> QED BY <3>2, <3>3, <3>4 DEF Reaches
  <2> QED BY <2>1, <2>2, <2>3 DEF NewWord
<1> QED
  BY <1>1, <1>2 DEF Lengthens, Extends

LEMMA NoWord ==
  ASSUME wire \in Seq(Msgs), wire' = wire
  PROVE  Lengthens
<1>1. Len(wire) \in Nat /\ Len(wire') = Len(wire)
  OBVIOUS
<1>2. \A k \in Len(wire) + 1 .. Len(wire') : FALSE
  BY <1>1
<1> QED
  BY <1>1, <1>2 DEF Lengthens, Extends

\* An inbox that was broken and has not been listed since.
Reopens(w) ==
  {v \in Seq(Msgs) : /\ Len(v) > Len(w) /\ Breaks(v[Len(w) + 1])
                     /\ \A l \in 1 .. Len(w) : v[l] = w[l]
                     /\ \A l \in 1 .. Len(v) : l > Len(w) => ~Lists(v[l])}
LEMMA ReopensPut ==
  ASSUME NEW w \in Seq(Msgs), NEW m \in Msgs, ~Lists(m)
  PROVE  /\ Breaks(m) => Append(w, m) \in Reopens(w)
         /\ \A v \in Reopens(w) : Append(v, m) \in Reopens(w)
<1>1. ASSUME Breaks(m) PROVE Append(w, m) \in Reopens(w)
  <2> DEFINE u == Append(w, m)
  <2>1. /\ Len(w) \in Nat /\ u \in Seq(Msgs) /\ Len(u) = Len(w) + 1 /\ u[Len(w) + 1] = m
        /\ \A l \in 1 .. Len(w) : u[l] = w[l]
    BY SeqParts
  <2> HIDE DEF u
  <2>2. \A l \in 1 .. Len(u) : l > Len(w) => l = Len(w) + 1
    BY <2>1
  <2>3. u \in Reopens(w)
    BY <1>1, <2>1, <2>2 DEF Reopens
  <2> QED BY <2>3 DEF u
<1>2. ASSUME NEW v \in Reopens(w) PROVE Append(v, m) \in Reopens(w)
  <2> DEFINE u == Append(v, m)
  <2>1. /\ Len(w) \in Nat /\ v \in Seq(Msgs) /\ Len(v) > Len(w) /\ Breaks(v[Len(w) + 1])
        /\ \A l \in 1 .. Len(w) : v[l] = w[l]
        /\ \A l \in 1 .. Len(v) : l > Len(w) => ~Lists(v[l])
    BY DEF Reopens
  <2>2. /\ Len(v) \in Nat /\ u \in Seq(Msgs) /\ Len(u) = Len(v) + 1 /\ u[Len(v) + 1] = m
        /\ \A l \in 1 .. Len(v) : u[l] = v[l]
    BY <2>1, SeqParts
  <2> HIDE DEF u
  <2>3. Len(w) + 1 \in 1 .. Len(v) /\ \A l \in 1 .. Len(w) : l \in 1 .. Len(v)
    BY <2>1, <2>2
  <2>4. \A l \in 1 .. Len(u) : l \in 1 .. Len(v) \/ l = Len(v) + 1
    BY <2>2
  <2>5. \A l \in 1 .. Len(u) : l > Len(w) => ~Lists(u[l])
    BY <2>1, <2>2, <2>4
  <2>6. u \in Reopens(w)
    <3>1. Len(u) > Len(w) /\ u[Len(w) + 1] = v[Len(w) + 1]
      BY <2>1, <2>2, <2>3
    <3>2. \A l \in 1 .. Len(w) : u[l] = w[l]
      BY <2>1, <2>2, <2>3
    <3> QED BY <2>1, <2>2, <2>5, <3>1, <3>2 DEF Reopens
  <2> QED BY <2>6 DEF u
<1> QED
  BY <1>1, <1>2

\* What a reconnect puts into the inbox: nothing of it is trusted before the list
\* at its end, which follows the position.
LEMMA ReturnWords ==
  ASSUME QInv, Returns, UNCHANGED orders
  PROVE  Lengthens
<1>0. wire \in Seq(Msgs) /\ VenueTypeOK
  <2>1. LInv
    BY DEF QInv, SInv, TInv
  <2> QED BY <2>1, LInvFacts DEF VenueTypeOK
<1> PICK rows \in Readings : wire' = Append(Append(Recalled, Positions), OpenOrders(rows))
  BY DEF Returns
<1> DEFINE list == OpenOrders(rows)
<1>1. /\ Positions \in Msgs /\ ~Lists(Positions) /\ Positions.qty = shares
      /\ list \in Msgs /\ Lists(list) /\ \A i \in Orders : list.lives[i] = NoEvent
  <2>1. /\ Positions.ev = "BrokerPositions" /\ Positions.qty = shares
        /\ list.ev = "BrokerOpenOrders" /\ list.lives = NoLives
    BY DEF Positions, OpenOrders, Msg
  <2>2. Positions \in Msgs /\ list \in Msgs
    BY <1>0, ReconcilePuts DEF Positions, OpenOrders
  <2> QED BY <2>1, <2>2 DEF Lists, NoLives
<1>2. Recalled \in Reopens(wire)
  <2>1. Returned \in Reopens(wire)
    BY <1>0, MsgParts, ReopensPut DEF Returned
  <2>2. /\ Msg("StreamGap") \in Msgs /\ ~Lists(Msg("StreamGap"))
        /\ LivesMsg(MissedFills) \in Msgs /\ ~Lists(LivesMsg(MissedFills))
        /\ LivesMsg(MissedEnds) \in Msgs /\ ~Lists(LivesMsg(MissedEnds))
    BY <1>0, MsgParts, MissedTypes
  <2>3. Append(Returned, Msg("StreamGap")) \in Reopens(wire)
    BY <1>0, <2>1, <2>2, ReopensPut
  <2>4. Append(Append(Returned, Msg("StreamGap")), LivesMsg(MissedFills)) \in Reopens(wire)
    BY <1>0, <2>2, <2>3, ReopensPut
  <2>5. Append(Append(Append(Returned, Msg("StreamGap")), LivesMsg(MissedFills)), LivesMsg(MissedEnds))
          \in Reopens(wire)
    BY <1>0, <2>2, <2>4, ReopensPut
  <2> QED BY <2>1, <2>5 DEF Recalled
<1> DEFINE v == Append(Recalled, Positions)
<1>3. v \in Reopens(wire) /\ Len(v) \in Nat /\ v[Len(v)] = Positions
  <2>1. v \in Reopens(wire)
    BY <1>0, <1>1, <1>2, ReopensPut
  <2>2. Recalled \in Seq(Msgs)
    BY <1>2 DEF Reopens
  <2>3. Len(Recalled) \in Nat /\ Len(v) = Len(Recalled) + 1 /\ v[Len(Recalled) + 1] = Positions
    BY <1>1, <2>2, SeqParts
  <2> QED BY <2>1, <2>3
<1>4. wire' = Append(v, list)
  OBVIOUS
<1> HIDE DEF v, list
<1>5. /\ Len(wire) \in Nat /\ v \in Seq(Msgs) /\ Len(v) > Len(wire) /\ Breaks(v[Len(wire) + 1])
      /\ \A l \in 1 .. Len(wire) : v[l] = wire[l]
      /\ \A l \in 1 .. Len(v) : l > Len(wire) => ~Lists(v[l])
  BY <1>0, <1>3 DEF Reopens
<1>6. /\ wire' \in Seq(Msgs) /\ Len(wire') = Len(v) + 1 /\ wire'[Len(v) + 1] = list
      /\ \A l \in 1 .. Len(v) : wire'[l] = v[l]
  BY <1>1, <1>4, <1>5, SeqParts
<1>7. Len(wire) + 1 \in 1 .. Len(v) /\ wire'[Len(wire) + 1] = v[Len(wire) + 1]
  BY <1>3, <1>5, <1>6
<1>8. ASSUME NEW k \in Len(wire) + 1 .. Len(v) PROVE ~Trusted(ready, wire', k)
  <2>1. Len(wire) + 1 \in 1 .. k
    BY <1>3, <1>5, <1>8
  <2>2. ASSUME NEW l \in 1 .. k, Lists(wire'[l]), \A n \in 1 .. k : n > l => ~Breaks(wire'[n])
        PROVE  FALSE
    <3>1. l \in 1 .. Len(v) /\ wire'[l] = v[l]
      BY <1>3, <1>5, <1>6, <1>8, <2>2
    <3>2. ~(l > Len(wire))
      BY <1>5, <2>2, <3>1
    <3>3. Len(wire) + 1 > l
      BY <1>5, <2>2, <3>2
    <3> QED BY <1>5, <1>7, <2>1, <2>2, <3>3
  <2> QED BY <1>5, <1>7, <2>1, <2>2 DEF Trusted
<1>9. ASSUME NEW k \in Len(wire) + 1 .. Len(wire') PROVE NewWord(k)
  <2>1. \E n \in Len(wire) + 1 .. k : Breaks(wire'[n])
    <3>1. Len(wire) + 1 \in Len(wire) + 1 .. k
      BY <1>3, <1>5, <1>6, <1>9
    <3> QED BY <1>5, <1>7, <3>1
  <2>2. CASE k = Len(v) + 1
    <3>1. wire'[k] = list /\ k = Len(wire') /\ k # 0 /\ k # 1 /\ k - 1 = Len(v)
      BY <1>3, <1>5, <1>6, <2>2
    <3>2. wire'[k - 1] = Positions
      <4>1. Len(v) \in 1 .. Len(v)
        BY <1>3, <1>5
      <4> QED BY <1>3, <1>6, <3>1, <4>1
    <3>3. Worth(k)' = shares'
      <4>1. shares' = shares
        BY DEF Returns
      <4>2. Lists(wire'[k])
        BY <1>1, <3>1
      <4> QED BY <1>1, <3>1, <3>2, <4>1, <4>2 DEF Worth, Lists
    <3>4. \A i \in Orders : ~Ending(wire'[k].lives[i])
      BY <1>1, <3>1, EventParts DEF Ending
    <3> QED BY <2>1, <3>1, <3>3, <3>4 DEF NewWord
  <2>3. CASE k # Len(v) + 1
    <3>1. k \in Len(wire) + 1 .. Len(v)
      BY <1>3, <1>5, <1>6, <1>9, <2>3
    <3> QED BY <1>8, <2>1, <3>1 DEF NewWord
  <2> QED BY <2>2, <2>3
<1>10. Extends
  <2>1. \A l \in 1 .. Len(wire) : l \in 1 .. Len(v)
    BY <1>3, <1>5
  <2> QED BY <1>3, <1>5, <1>6, <2>1 DEF Extends
<1> QED
  BY <1>9, <1>10 DEF Lengthens

\* What a message of one order is about.
LEMMA FrameParts ==
  ASSUME NEW j \in Orders, NEW e \in Life
  PROVE  /\ LifeMsg(j, e) \in Msgs /\ ~Breaks(LifeMsg(j, e)) /\ ~Lists(LifeMsg(j, e))
         /\ ~Tells(LifeMsg(j, e)) /\ LifeMsg(j, e).lives[j] = e
         /\ \A i \in Orders : /\ SaysExec(LifeMsg(j, e), i) <=> i = j /\ e.ev = "OrderFilled"
                              /\ Ending(LifeMsg(j, e).lives[i]) => i = j
         /\ e.ev = "OrderFilled" => SaidExec(LifeMsg(j, e), j) = e.cum
<1>1. /\ LifeMsg(j, e).ev = "Lives"
      /\ \A i \in Orders : LifeMsg(j, e).lives[i] = IF i = j THEN e ELSE NoEvent
  BY DEF LifeMsg, LivesMsg, Msg, NoLives
<1>2. ~Tells(LifeMsg(j, e))
  BY <1>1 DEF Tells
<1>3. ~Ending(NoEvent)
  BY EventParts DEF Ending
<1>4. LifeMsg(j, e) \in Msgs /\ ~Breaks(LifeMsg(j, e)) /\ ~Lists(LifeMsg(j, e))
  BY FrameSays
<1>5. \A i \in Orders : SaysExec(LifeMsg(j, e), i) <=> i = j /\ e.ev = "OrderFilled"
  BY FrameSays
<1>6. e.ev = "OrderFilled" => SaidExec(LifeMsg(j, e), j) = e.cum
  BY FrameSays
<1> QED
  BY <1>1, <1>2, <1>3, <1>4, <1>5, <1>6

\* What a fill puts into it: the fill, and the position after it.
LEMMA FillWords ==
  ASSUME QInv, NEW j \in Orders, Executes(j), UNCHANGED orders
  PROVE  Lengthens
<1>0. wire \in Seq(Msgs) /\ LInv /\ shares' \in Int /\ venue[j].exec \in Nat /\ venue[j].qty \in Nat
      /\ venue'[j].exec = venue[j].exec + 1 /\ venue[j].exec < venue[j].qty /\ venue[j].qty <= MaxQty
  <2>1. LInv
    BY DEF QInv, SInv, TInv
  <2>2. wire \in Seq(Msgs) /\ shares \in Int /\ venue \in [Orders -> VenueOrder]
    BY <2>1, LInvFacts DEF VenueTypeOK
  <2>3. shares' \in Int
    BY <2>2 DEF Executes, SideSign
  <2>4. venue'[j] = Executed(venue[j]) /\ venue[j].exec < venue[j].qty
    BY <2>2 DEF Executes
  <2>5. venue'[j].exec = venue[j].exec + 1
    BY <2>2, <2>4 DEF Executed, VenueOrder
  <2> QED BY <2>1, <2>2, <2>3, <2>4, <2>5, Numbers
<1> DEFINE e == FillEvent(venue[j].exec + 1, venue[j].qty - (venue[j].exec + 1))
           m == LifeMsg(j, e)
           u == Append(wire, m)
           p == PositionMsg(shares')
<1>1. CASE ~online
  <2>1. wire' = wire
    BY <1>1 DEF Executes
  <2> QED BY <1>0, <2>1, NoWord
<1>2. CASE online
  <2>1. wire' = Append(u, p)
    BY <1>2 DEF Executes
  <2>2. e \in Life /\ e.ev = "OrderFilled" /\ e.cum = venue[j].exec + 1
    <3>1. venue[j].exec + 1 \in Qtys /\ venue[j].qty - (venue[j].exec + 1) \in Qtys
      BY <1>0, QtyAssumption, SMTT(30) DEF Qtys
    <3> QED BY <3>1, LifeTypes, EventParts
  <2> HIDE DEF e
  <2>3. /\ m \in Msgs /\ ~Breaks(m) /\ ~Lists(m) /\ ~Tells(m)
        /\ \A i \in Orders : /\ SaysExec(m, i) <=> i = j
                             /\ Ending(m.lives[i]) => i = j
        /\ SaidExec(m, j) = venue'[j].exec
    BY <1>0, <2>2, FrameParts
  <2>4. /\ p \in Msgs /\ p.qty = shares' /\ Tells(p) /\ ~Lists(p) /\ ~Breaks(p)
        /\ \A i \in Orders : ~SaysExec(p, i) /\ ~Ending(p.lives[i])
    <3>1. p.ev = "BrokerPosition" /\ p.lives = NoLives
      BY DEF PositionMsg, Msg
    <3>2. \A i \in Orders : ~Ending(p.lives[i])
      BY <3>1, EventParts DEF Ending, NoLives
    <3>3. \A i \in Orders : ~SaysExec(p, i)
      BY <3>1 DEF SaysExec, Filled, Listing, Lists
    <3> QED BY <1>0, <3>1, <3>2, <3>3, MsgParts DEF Breaks
  <2> HIDE DEF m, p
  <2>5. /\ Len(wire) \in Nat /\ u \in Seq(Msgs) /\ Len(u) = Len(wire) + 1 /\ u[Len(wire) + 1] = m
        /\ \A l \in 1 .. Len(wire) : u[l] = wire[l]
    BY <1>0, <2>3, SeqParts
  <2> HIDE DEF u
  <2>6. /\ wire' \in Seq(Msgs) /\ Len(wire') = Len(wire) + 2 /\ wire'[Len(wire) + 2] = p
        /\ \A l \in 1 .. Len(wire) + 1 : wire'[l] = u[l]
    BY <2>1, <2>4, <2>5, SeqParts
  <2>7. wire'[Len(wire) + 1] = m /\ \A l \in 1 .. Len(wire) : wire'[l] = wire[l]
    BY <2>5, <2>6
  <2>8. ASSUME NEW k \in Len(wire) + 1 .. Len(wire') PROVE NewWord(k)
    <3>1. CASE k = Len(wire) + 1
      <4>1. wire'[k] = m /\ k # 0 /\ k \in 1 .. k
        BY <2>5, <2>7, <3>1
      <4>2. ~OnShares(k)'
        BY <2>3, <4>1 DEF OnShares, Tells, Lists
      <4>3. ASSUME NEW i \in Orders, Ending(wire'[k].lives[i]) PROVE Reaches(i, k, venue[i].exec)'
        <5>1. i = j /\ SaysExec(wire'[k], j) /\ SaidExec(wire'[k], j) = venue'[j].exec
          BY <2>3, <4>1, <4>3
        <5>2. venue'[j].exec <= SaidExec(wire'[k], j)
          BY <1>0, <5>1
        <5> QED BY <4>1, <5>1, <5>2 DEF Reaches, SaysExec, SaidExec, Filled, Listing, Lists
      <4>4. \A i \in Orders : SaysExec(wire'[k], i) => Executes(i) /\ online
        BY <1>2, <2>3, <4>1
      <4> QED BY <4>2, <4>3, <4>4 DEF NewWord
    <3>2. CASE k # Len(wire) + 1
      <4>1. k = Len(wire) + 2 /\ k = Len(wire') /\ wire'[k] = p /\ k # 0
        BY <2>5, <2>6, <3>2
      <4>2. Worth(k)' = shares'
        BY <2>4, <4>1 DEF Worth, Lists
      <4> QED BY <2>4, <4>1, <4>2 DEF NewWord
    <3> QED BY <3>1, <3>2
  <2> QED BY <2>5, <2>6, <2>7, <2>8 DEF Lengthens, Extends
<1> QED
  BY <1>1, <1>2

LEMMA OutsideWords ==
  ASSUME HInv, Outside
  PROVE  Lengthens
<1>0. /\ QInv /\ wire \in Seq(Msgs) /\ VenueTypeOK /\ ~closing /\ up
      /\ UNCHANGED <<orders, ready, up>>
      /\ \/ Hushed \/ Cuts \/ Returns
         \/ \E j \in Orders : \/ Executes(j) \/ Ends(j)
                              \/ \E r \in net : Gets(j, r) \/ Lands(j, r) \/ Refuses(j, r)
  <2>1. QInv /\ LInv /\ ~closing /\ up
    BY DEF HInv, QInv, SInv, TInv, Counted
  <2> QED BY <2>1, LInvFacts, OutsideSteps DEF VenueTypeOK, ClosesAll, coreVars, bookVars
<1>1. CASE Hushed
  BY <1>0, <1>1, NoWord DEF Hushed
<1>2. CASE Cuts
  <2>1. PICK k \in {"BrokerConnUp", "BrokerConnDown"} : wire' = Append(wire, Msg(k))
    BY <1>2 DEF Cuts
  <2>2. /\ Msg(k) \in Msgs /\ Breaks(Msg(k)) /\ ~Lists(Msg(k)) /\ ~Tells(Msg(k))
        /\ \A i \in Orders : ~SaysExec(Msg(k), i) /\ ~Ending(Msg(k).lives[i])
    <3>1. Msg(k).ev = k /\ Msg(k).lives = NoLives
      BY DEF Msg
    <3>2. \A i \in Orders : ~Ending(Msg(k).lives[i])
      BY <3>1, EventParts DEF Ending, NoLives
    <3> QED BY <3>1, <3>2, MsgParts DEF Tells, SaysExec, Filled, Listing, Lists
  <2> QED BY <1>0, <2>1, <2>2, OneWord
<1>3. CASE Returns
  BY <1>0, <1>3, ReturnWords
<1>4. ASSUME NEW j \in Orders, Executes(j) PROVE Lengthens
  BY <1>0, <1>4, FillWords
<1>5. ASSUME NEW j \in Orders, Ends(j) PROVE Lengthens
  <2>1. PICK k \in {"OrderCanceled", "OrderExpired"}, s \in {"canceled", "expired"} :
          /\ venue' = [venue EXCEPT ![j] = [@ EXCEPT !.st = s]]
          /\ wire' = IF online THEN Append(wire, LifeMsg(j, LifeEvent(k))) ELSE wire
    BY <1>5 DEF Ends
  <2>2. CASE ~online
    BY <1>0, <2>1, <2>2, NoWord
  <2>3. CASE online
    <3> DEFINE m == LifeMsg(j, LifeEvent(k))
    <3>1. LifeEvent(k) \in Life /\ LifeEvent(k).ev = k
      BY LifeTypes, EventParts DEF LifeKinds
    <3>2. /\ m \in Msgs /\ ~Breaks(m) /\ ~Lists(m) /\ ~Tells(m)
          /\ \A i \in Orders : ~SaysExec(m, i) /\ (Ending(m.lives[i]) => i = j)
      BY <3>1, FrameParts
    <3>3. venue'[j].exec = venue[j].exec
      BY <1>0, <2>1 DEF VenueTypeOK, VenueOrder
    <3>4. Trusted(ready, wire, Len(wire)) => Reaches(j, Len(wire), venue'[j].exec)
      <4>1. Len(wire) \in 0 .. Len(wire) /\ ~\E l \in 1 .. Len(wire) : l > Len(wire)
        BY <1>0
      <4>2. OpenAt(j)
        BY <1>5 DEF Ends
      <4> QED BY <1>0, <2>3, <3>3, <4>1, <4>2, SureReaches
    <3>5. wire' = Append(wire, m)
      BY <2>1, <2>3
    <3> HIDE DEF m
    <3> QED BY <1>0, <3>2, <3>4, <3>5, OneWord
  <2> QED BY <2>2, <2>3
<1>6. ASSUME NEW j \in Orders, NEW r \in net, Gets(j, r) \/ Lands(j, r) \/ Refuses(j, r)
      PROVE  Lengthens
  <2>1. PICK e \in Life : /\ e.ev \in {"OrderReplaced", "OrderAccepted", "OrderRejected"}
                          /\ wire' = wire \/ wire' = Append(wire, LifeMsg(j, e))
    <3>1. r.qty \in Qtys
      BY <1>0 DEF VenueTypeOK, Requests
    <3>2. /\ ReplaceEvent(r.qty) \in Life /\ ReplaceEvent(r.qty).ev = "OrderReplaced"
          /\ LifeEvent("OrderAccepted") \in Life /\ LifeEvent("OrderAccepted").ev = "OrderAccepted"
          /\ LifeEvent("OrderRejected") \in Life /\ LifeEvent("OrderRejected").ev = "OrderRejected"
      BY <3>1, LifeTypes, EventParts DEF LifeKinds
    <3>3. CASE Gets(j, r)
      BY <3>2, <3>3 DEF Gets
    <3>4. CASE Lands(j, r)
      BY <3>2, <3>4 DEF Lands
    <3>5. CASE Refuses(j, r)
      BY <3>2, <3>5 DEF Refuses
    <3> QED BY <1>6, <3>3, <3>4, <3>5
  <2> DEFINE m == LifeMsg(j, e)
  <2>2. /\ m \in Msgs /\ ~Breaks(m) /\ ~Lists(m) /\ ~Tells(m)
        /\ \A i \in Orders : ~SaysExec(m, i) /\ (Ending(m.lives[i]) => i = j)
        /\ m.lives[j] = e
    BY <2>1, FrameParts
  <2>3. \A i \in Orders : ~Ending(m.lives[i])
    BY <2>1, <2>2 DEF Ending
  <2>4. wire' = wire \/ wire' = Append(wire, m)
    BY <2>1
  <2> HIDE DEF m
  <2> QED BY <1>0, <2>2, <2>3, <2>4, OneWord, NoWord
<1> QED
  BY <1>0, <1>1, <1>2, <1>3, <1>4, <1>5, <1>6

LEMMA TrustOn ==
  ASSUME NEW r, NEW w \in Seq(Msgs), NEW k \in 0 .. Len(w), Trusted(r, w, k),
         \A n \in 1 .. Len(w) : n > k => ~Breaks(w[n])
  PROVE  Trusted(r, w, Len(w))
<1>1. Len(w) \in Nat /\ \A l \in 1 .. k : l \in 1 .. Len(w)
  OBVIOUS
<1>2. \A l \in 1 .. Len(w) : l \in 1 .. k \/ l > k
  BY <1>1
<1>3. CASE r /\ \A l \in 1 .. k : ~Breaks(w[l])
  BY <1>1, <1>2, <1>3 DEF Trusted
<1>4. ASSUME NEW l \in 1 .. k, Lists(w[l]), \A n \in 1 .. k : n > l => ~Breaks(w[n])
      PROVE  Trusted(r, w, Len(w))
  <2>1. \A n \in 1 .. Len(w) : n > l => ~Breaks(w[n])
    BY <1>2, <1>4
  <2> QED BY <1>1, <1>4, <2>1 DEF Trusted
<1> QED
  BY <1>3, <1>4 DEF Trusted

LEMMA OutsideFacts ==
  ASSUME HInv, Outside
  PROVE  /\ QInv /\ LInv /\ Truth /\ wire \in Seq(Msgs) /\ Len(wire) \in Nat /\ up /\ Lengthens
         /\ UNCHANGED <<orders, ready, position, up>>
         /\ \A k \in 0 .. Len(wire) : Trusted(ready, wire', k) <=> Trusted(ready, wire, k)
         /\ \A i \in Orders : \/ venue'[i].exec = venue[i].exec
                              \/ Executes(i) /\ venue'[i].exec = venue[i].exec + 1
<1>1. QInv /\ LInv /\ Truth /\ up
  BY DEF HInv, QInv, SInv, TInv, Counted
<1>2. wire \in Seq(Msgs) /\ Len(wire) \in Nat
  BY <1>1, LInvFacts DEF VenueTypeOK
<1>3. Lengthens /\ UNCHANGED <<orders, ready, position, up>>
  BY <1>1, OutsideWords, OutsideSteps DEF coreVars, bookVars
<1>4. ASSUME NEW k \in 0 .. Len(wire) PROVE Trusted(ready, wire', k) <=> Trusted(ready, wire, k)
  <2>1. \A l \in 1 .. k : wire'[l] = wire[l]
    BY <1>2, <1>3 DEF Lengthens, Extends
  <2> QED BY <2>1 DEF Trusted
<1>5. ASSUME NEW i \in Orders
      PROVE  \/ venue'[i].exec = venue[i].exec
             \/ Executes(i) /\ venue'[i].exec = venue[i].exec + 1
  <2>1. venue[i].st = "none" => venue[i].exec = 0
    BY <1>1 DEF Truth, Alone
  <2>2. \A r : Lands(i, r) => venue[i].st = "none"
    BY DEF Lands
  <2> QED BY <1>1, <2>1, <2>2, OutsideVenue
<1> QED
  BY <1>1, <1>2, <1>3, <1>4, <1>5

\* What a position counts stays safe to count.
LEMMA BacksGrow ==
  ASSUME HInv, Outside, NEW i \in Orders, NEW k \in 0 .. Len(wire), Trusted(ready, wire, k),
         NEW v \in Nat, Backs(i, k, v)
  PROVE  Backs(i, k, v)'
<1>0. /\ QInv /\ Clear /\ wire \in Seq(Msgs) /\ Len(wire) \in Nat /\ up /\ Lengthens
      /\ orders' = orders
      /\ \/ venue'[i].exec = venue[i].exec
         \/ Executes(i) /\ venue'[i].exec = venue[i].exec + 1
      /\ Len(wire) <= Len(wire') /\ \A l \in 1 .. Len(wire) : wire'[l] = wire[l]
      /\ venue[i].exec \in Nat
  BY OutsideFacts, SaidNumbers DEF Lengthens, Extends, HInv
<1>1. \A l \in 1 .. k : l \in 1 .. Len(wire) /\ wire'[l] = wire[l]
  BY <1>0
<1>2. CASE i \in Sells
  <2>1. Below(i, k, v) /\ (Closed(i, k) => venue[i].exec <= v)
    BY <1>2 DEF Backs
  <2>2. Below(i, k, v)'
    BY <1>0, <1>1, <2>1 DEF Below, SaysExec, SaidExec, Filled, Listing, Lists
  <2>3. Closed(i, k)' => Closed(i, k)
    BY <1>0, <1>1 DEF Closed
  <2>4. Executes(i) => ~Closed(i, k)
    BY <1>0, <1>2, OpenWorks DEF Executes, Clear
  <2>5. ASSUME Closed(i, k)' PROVE venue'[i].exec <= v
    BY <1>0, <2>1, <2>3, <2>4, <2>5
  <2> QED BY <1>2, <2>2, <2>5 DEF Backs
<1>3. CASE i \notin Sells
  <2>1. v <= venue[i].exec /\ (Hears(i, k) => Reaches(i, k, v))
    BY <1>3 DEF Backs
  <2>2. v <= venue'[i].exec
    BY <1>0, <2>1
  <2>3. Reaches(i, k, v) => Reaches(i, k, v)'
    BY <1>0, <1>1 DEF Reaches, SaysExec, SaidExec, Filled, Listing, Lists
  <2>4. ASSUME Hears(i, k)' PROVE Reaches(i, k, v)
    <3>1. PICK l \in 1 .. Len(wire') :
            l > k /\ SaysExec(wire'[l], i) /\ \A n \in 1 .. l : n > k => ~Breaks(wire'[n])
      BY <2>4 DEF Hears, SaysExec, Filled, Listing, Lists
    <3>2. CASE l \in 1 .. Len(wire)
      <4>1. SaysExec(wire[l], i)
        BY <1>0, <3>1, <3>2
      <4>2. \A n \in 1 .. l : n > k => ~Breaks(wire[n])
        BY <1>0, <3>1, <3>2
      <4>3. Hears(i, k)
        BY <3>1, <3>2, <4>1, <4>2 DEF Hears
      <4> QED BY <2>1, <4>3
    <3>3. CASE l \notin 1 .. Len(wire)
      <4>1. l \in Len(wire) + 1 .. Len(wire')
        BY <1>0, <3>1, <3>3
      <4>2. Executes(i) /\ online
        <5>1. NewWord(l)
          BY <1>0, <4>1 DEF Lengthens
        <5>2. \A n \in Len(wire) + 1 .. l : n \in 1 .. l /\ n > k
          BY <1>0, <4>1
        <5>3. ~\E n \in Len(wire) + 1 .. l : Breaks(wire'[n])
          BY <3>1, <5>2
        <5> QED BY <3>1, <5>1, <5>3 DEF NewWord
      <4>3. \A n \in 1 .. Len(wire) : n > k => ~Breaks(wire[n])
        <5>1. \A n \in 1 .. Len(wire) : n \in 1 .. l /\ wire'[n] = wire[n]
          BY <1>0, <4>1
        <5> QED BY <3>1, <5>1
      <4>4. Trusted(ready, wire, Len(wire))
        BY <1>0, <4>3, TrustOn
      <4>5. \/ Reaches(i, k, venue[i].exec)
            \/ \E p \in 1 .. Len(wire) : p > k /\ SaysExec(wire[p], i)
        BY <1>0, <4>2, <4>4, SureReaches DEF Executes
      <4>6. CASE Reaches(i, k, venue[i].exec)
        <5>1. /\ orders[i].exec \in Nat
              /\ \A p \in 1 .. Len(wire) : SaysExec(wire[p], i) => SaidExec(wire[p], i) \in Nat
          BY <1>0, SaidNumbers
        <5> QED BY <1>0, <1>1, <2>1, <4>6, <5>1 DEF Reaches
      <4>7. CASE \E p \in 1 .. Len(wire) : p > k /\ SaysExec(wire[p], i)
        <5>1. PICK p \in 1 .. Len(wire) : p > k /\ SaysExec(wire[p], i)
          BY <4>7
        <5>2. \A n \in 1 .. p : n \in 1 .. Len(wire)
          BY <1>0
        <5>3. Hears(i, k)
          BY <4>3, <5>1, <5>2 DEF Hears
        <5> QED BY <2>1, <5>3
      <4> QED BY <4>5, <4>6, <4>7
    <3> QED BY <3>2, <3>3
  <2> QED BY <1>3, <2>2, <2>3, <2>4 DEF Backs
<1> QED
  BY <1>2, <1>3

\* The account itself is what its orders made of it, and the end of the inbox may
\* tell so.
LEMMA WholeBacked ==
  ASSUME wire' \in Seq(Msgs), Counted', shares' \in Int,
         \A i \in Orders : Bounded(i)' /\ venue'[i].exec \in Nat
  PROVE  Backed(Len(wire), shares)'
<1>0. PICK x \in [Orders -> Nat] : \A i \in Orders : x[i] = venue'[i].exec
  <2> DEFINE x == [i \in Orders |-> venue'[i].exec]
  <2>1. x \in [Orders -> Nat] /\ \A i \in Orders : x[i] = venue'[i].exec
    OBVIOUS
  <2> QED BY <2>1
<1>1. shares' = Worths(x)'
  <2>1. Executions' = x
    BY <1>0 DEF Executions
  <2>2. shares' = Worths(Executions)'
    BY DEF Counted
  <2> QED BY <2>1, <2>2 DEF Worths
<1>2. shares' <= Worths(x)'
  BY <1>1
<1>3. ASSUME NEW i \in Orders PROVE Backs(i, Len(wire), x[i])'
  <2>1. Len(wire') \in Nat
    BY DEF Counted
  <2>2. Below(i, Len(wire), x[i])'
    <3>1. orders'[i].exec <= x[i]
      BY <1>0 DEF Bounded
    <3>2. wire' \in Seq(Within(i, x[i]))
      BY <1>0 DEF Bounded, Within, SaysExec, SaidExec, Filled, Listing, Lists
    <3>3. \A l \in 1 .. Len(wire') : wire'[l] \in Within(i, x[i])
      BY <3>2
    <3>4. \A l \in 1 .. Len(wire') : SaysExec(wire'[l], i) => SaidExec(wire'[l], i) <= x[i]
      BY <3>3 DEF Within
    <3> QED BY <3>1, <3>4 DEF Below, SaysExec, SaidExec, Filled, Listing, Lists
  <2>3. ~Hears(i, Len(wire))'
    BY <2>1 DEF Hears
  <2>4. venue'[i].exec <= x[i] /\ x[i] <= venue'[i].exec
    BY <1>0
  <2> QED BY <2>2, <2>3, <2>4 DEF Backs
<1> QED
  BY <1>2, <1>3 DEF Backed

LEMMA OutsideBacking ==
  ASSUME HInv, Outside, Counted', shares' \in Int, \A i \in Orders : Bounded(i)'
  PROVE  Backing'
<1>0. /\ QInv /\ wire \in Seq(Msgs) /\ Len(wire) \in Nat /\ Lengthens
      /\ UNCHANGED <<orders, ready, position>>
      /\ \A k \in 0 .. Len(wire) : Trusted(ready, wire', k) <=> Trusted(ready, wire, k)
      /\ wire' \in Seq(Msgs) /\ Len(wire) <= Len(wire') /\ Len(wire') \in Nat
      /\ \A l \in 1 .. Len(wire) : wire'[l] = wire[l]
      /\ \A i \in Orders : venue'[i].exec \in Nat
  <2>1. wire' \in Seq(Msgs) /\ Len(wire) <= Len(wire') /\ \A l \in 1 .. Len(wire) : wire'[l] = wire[l]
    BY OutsideFacts DEF Lengthens, Extends
  <2>2. \A i \in Orders : venue'[i].exec \in Nat
    BY OutsideFacts, SaidNumbers
  <2> QED BY <2>1, <2>2, OutsideFacts
<1>1. ASSUME NEW k \in 0 .. Len(wire), Trusted(ready', wire', k), OnShares(k)'
      PROVE  Backed(k, Worth(k))'
  <2>1. k = 0 \/ (k \in 1 .. Len(wire) /\ wire'[k] = wire[k])
    BY <1>0
  <2>2. Trusted(ready, wire, k) /\ OnShares(k)
    BY <1>0, <1>1, <2>1 DEF OnShares, Tells, Lists
  <2>3. Worth(k)' = Worth(k)
    <3>1. k # 0 /\ k # 1 => wire'[k - 1] = wire[k - 1]
      BY <1>0
    <3> QED BY <1>0, <2>1, <3>1 DEF Worth, Lists
  <2>4. PICK x \in [Orders -> Nat] : Worth(k) <= Worths(x) /\ \A i \in Orders : Backs(i, k, x[i])
    BY <2>2 DEF HInv, Backing, Backed
  <2>5. \A i \in Orders : Backs(i, k, x[i])'
    BY <2>2, <2>4, BacksGrow
  <2>6. Worths(x)' = Worths(x)
    BY DEF Worths
  <2> QED BY <2>3, <2>4, <2>5, <2>6 DEF Backed
<1>2. ASSUME NEW k \in Len(wire) + 1 .. Len(wire'), Trusted(ready', wire', k), OnShares(k)'
      PROVE  Backed(k, Worth(k))'
  <2>1. k = Len(wire') /\ Worth(k)' = shares'
    BY <1>0, <1>2 DEF Lengthens, NewWord
  <2>2. Backed(Len(wire), shares)'
    BY <1>0, WholeBacked
  <2> QED BY <2>1, <2>2 DEF Backed
<1>3. \A k \in 0 .. Len(wire') : k \in 0 .. Len(wire) \/ k \in Len(wire) + 1 .. Len(wire')
  BY <1>0
<1> QED
  BY <1>1, <1>2, <1>3 DEF Backing, Trusted, Lists, Breaks

LEMMA OutsideCounted ==
  ASSUME HInv, Outside, IsFiniteSet(Orders), "flatten" \notin Commands
  PROVE  Counted' /\ shares' \in Int
<1>0. /\ shares = Worths(Executions) /\ ~closing /\ up /\ position \in Int /\ shares \in Int
      /\ UNCHANGED <<up, position>> /\ flatJob.st = "idle"
      /\ \A i \in Orders : venue[i].exec \in Nat /\ (venue[i].st = "none" => venue[i].exec = 0)
      /\ venue \in [Orders -> VenueOrder] /\ net \subseteq Requests
      /\ \/ Hushed \/ ClosesAll \/ Cuts \/ Returns
         \/ \E j \in Orders : \/ Executes(j) \/ Ends(j)
                              \/ \E r \in net : Gets(j, r) \/ Lands(j, r) \/ Refuses(j, r)
  <2>1. QInv /\ LInv /\ Counted /\ PosInv
    BY DEF HInv, QInv, SInv, TInv
  <2>2. shares \in Int /\ venue \in [Orders -> VenueOrder] /\ net \subseteq Requests
    BY <2>1, LInvFacts DEF VenueTypeOK
  <2>3. \A i \in Orders : venue[i].exec \in Nat /\ (venue[i].st = "none" => venue[i].exec = 0)
    BY <2>1, SaidNumbers
  <2> QED BY <2>1, <2>2, <2>3, OutsideSteps, OutsideFacts DEF Counted, PosInv
<1>1. ASSUME NEW j \in Orders, Executes(j) PROVE Counted' /\ shares' \in Int
  <2> DEFINE f == [i \in Orders |-> SideSign(i) * venue[i].exec]
             g == [i \in Orders |-> SideSign(i) * venue'[i].exec]
  <2>1. /\ venue'[j].exec = venue[j].exec + 1 /\ \A i \in Orders \ {j} : venue'[i] = venue[i]
    BY <1>0, <1>1 DEF Executes, Executed, VenueOrder
  <2>2. \A i \in Orders : f[i] \in Int /\ g[i] \in Int
    <3>1. \A i \in Orders : venue[i].exec \in Int /\ venue'[i].exec \in Int
      BY <1>0, <2>1
    <3>2. \A i \in Orders : SideSign(i) * venue[i].exec \in Int /\ SideSign(i) * venue'[i].exec \in Int
      BY <3>1, Signed
    <3> QED BY <3>2
  <2>3. \A i \in Orders \ {j} : f[i] = g[i]
    BY <2>1
  <2>4. g[j] = f[j] + SideSign(j) /\ SideSign(j) \in Int
    <3>1. venue[j].exec \in Int /\ venue'[j].exec \in Int
      BY <1>0, <2>1
    <3>2. CASE j \in Sells
      BY <2>1, <3>1, <3>2, Signed DEF SideSign
    <3>3. CASE j \notin Sells
      BY <2>1, <3>1, <3>3, Signed DEF SideSign
    <3> QED BY <3>2, <3>3
  <2>5. /\ Worths(Executions) = Opening + SumFunctionOnSet(f, Orders)
        /\ Worths(Executions)' = Opening + SumFunctionOnSet(g, Orders)
    <3>1. [i \in Orders |-> SideSign(i) * Executions[i]] = f
      BY DEF Executions
    <3>2. [i \in Orders |-> SideSign(i) * Executions'[i]] = g
      BY DEF Executions
    <3> QED BY <3>1, <3>2 DEF Worths
  <2> HIDE DEF f, g
  <2>6. SumFunctionOnSet(g, Orders) = SumFunctionOnSet(f, Orders) - f[j] + g[j]
    BY <2>2, <2>3, SumDiffers
  <2>7. SumFunctionOnSet(f, Orders) \in Int
    BY <2>2, SumType
  <2>8. shares' = shares + SideSign(j) /\ closing' = closing
    BY <1>1 DEF Executes
  <2>9. shares' = Worths(Executions)'
    <3>1. f[j] \in Int
      BY <2>2
    <3> QED BY <1>0, <2>4, <2>5, <2>6, <2>7, <2>8, <3>1, OpeningAssumption
  <2>10. shares' \in Int
    BY <1>0, <2>4, <2>8
  <2> QED BY <1>0, <2>8, <2>9, <2>10 DEF Counted
<1>2. ASSUME UNCHANGED <<shares, closing>>, \A i \in Orders : venue'[i].exec = venue[i].exec
      PROVE  Counted' /\ shares' \in Int
  <2>1. Executions' = Executions
    BY <1>2 DEF Executions
  <2>2. Worths(Executions)' = Worths(Executions)
    BY <2>1 DEF Worths
  <2> QED BY <1>0, <1>2, <2>2 DEF Counted
<1>3. CASE Hushed \/ Cuts \/ Returns
  BY <1>0, <1>2, <1>3 DEF Hushed, Cuts, Returns
<1>4. ASSUME NEW j \in Orders, Ends(j) PROVE Counted' /\ shares' \in Int
  BY <1>0, <1>2, <1>4 DEF Ends, VenueOrder
<1>5. ASSUME NEW j \in Orders, NEW r \in net, Gets(j, r) \/ Lands(j, r) \/ Refuses(j, r)
      PROVE  Counted' /\ shares' \in Int
  <2>1. CASE Gets(j, r)
    BY <1>0, <1>2, <2>1 DEF Gets, VenueOrder
  <2>2. CASE Lands(j, r)
    BY <1>0, <1>2, <2>2 DEF Lands, Landed
  <2>3. CASE Refuses(j, r)
    BY <1>2, <2>3 DEF Refuses
  <2> QED BY <1>5, <2>1, <2>2, <2>3
<1> QED
  BY <1>0, <1>1, <1>3, <1>4, <1>5 DEF ClosesAll

\* Words of the fills of an order are put behind lower ones.
LEMMA RisesPut ==
  ASSUME NEW i \in Orders, NEW e \in Nat, NEW v \in Nat, NEW w \in Rises(i, e),
         w \in Seq(Within(i, v)), NEW m \in Msgs,
         SaysExec(m, i) => /\ SaidExec(m, i) \in Nat /\ e <= SaidExec(m, i) /\ v <= SaidExec(m, i)
  PROVE  Append(w, m) \in Rises(i, e)
<1> DEFINE u == Append(w, m)
<1>0. /\ w \in Seq(Msgs)
      /\ \A k \in 1 .. Len(w) : SaysExec(w[k], i) =>
           /\ e <= SaidExec(w[k], i)
           /\ \A l \in 1 .. Len(w) : k < l /\ SaysExec(w[l], i) => SaidExec(w[k], i) <= SaidExec(w[l], i)
  BY DEF Rises
<1>1. /\ Len(w) \in Nat /\ u \in Seq(Msgs) /\ Len(u) = Len(w) + 1 /\ u[Len(w) + 1] = m
      /\ \A l \in 1 .. Len(w) : u[l] = w[l] /\ w[l] \in Msgs
  BY <1>0, SeqParts
<1>2. ASSUME NEW k \in 1 .. Len(w), SaysExec(w[k], i)
      PROVE  SaidExec(w[k], i) <= v /\ SaidExec(w[k], i) \in Nat
  <2>1. w[k] \in Within(i, v)
    BY <1>1
  <2>2. w[k] \in Msgs
    BY <1>1
  <2>3. SaidExec(w[k], i) \in Nat
    BY <2>2, QtyAssumption, SMTT(30) DEF SaidExec, Msgs, Life, Row, Qtys
  <2> QED BY <1>2, <2>1, <2>3 DEF Within
<1> HIDE DEF u
<1>3. \A k \in 1 .. Len(u) : k \in 1 .. Len(w) \/ k = Len(w) + 1
  BY <1>1
<1>4. ASSUME NEW k \in 1 .. Len(u), SaysExec(u[k], i)
      PROVE  /\ e <= SaidExec(u[k], i)
             /\ \A l \in 1 .. Len(u) : k < l /\ SaysExec(u[l], i) => SaidExec(u[k], i) <= SaidExec(u[l], i)
  <2>1. CASE k \in 1 .. Len(w)
    <3>1. u[k] = w[k] /\ e <= SaidExec(w[k], i)
      BY <1>0, <1>1, <1>4, <2>1
    <3>2. ASSUME NEW l \in 1 .. Len(u), k < l, SaysExec(u[l], i)
          PROVE  SaidExec(u[k], i) <= SaidExec(u[l], i)
      <4>1. CASE l \in 1 .. Len(w)
        BY <1>0, <1>1, <1>4, <2>1, <3>2, <4>1
      <4>2. CASE l = Len(w) + 1
        <5>1. u[l] = m /\ SaidExec(m, i) \in Nat /\ v <= SaidExec(m, i)
          BY <1>1, <3>2, <4>2
        <5>2. SaidExec(w[k], i) <= v /\ SaidExec(w[k], i) \in Nat
          BY <1>2, <1>4, <2>1, <3>1
        <5> QED BY <3>1, <5>1, <5>2
      <4> QED BY <1>3, <4>1, <4>2
    <3> QED BY <3>1, <3>2
  <2>2. CASE k = Len(w) + 1
    <3>1. u[k] = m /\ e <= SaidExec(m, i)
      BY <1>1, <1>4, <2>2
    <3>2. \A l \in 1 .. Len(u) : ~(k < l)
      BY <1>1, <2>2
    <3> QED BY <3>1, <3>2
  <2> QED BY <1>3, <2>1, <2>2
<1>5. u \in Rises(i, e)
  BY <1>1, <1>4 DEF Rises
<1> QED
  BY <1>5 DEF u

LEMMA OutsideRises ==
  ASSUME HInv, Outside, NEW i \in Orders
  PROVE  Rising(i)'
<1> DEFINE e == orders[i].exec
           v == venue[i].exec
<1>0. /\ QInv /\ LInv /\ Alone(i) /\ orders' = orders /\ e \in Nat /\ v \in Nat /\ e <= v
      /\ wire \in Rises(i, e) /\ wire \in Seq(Within(i, v)) /\ wire \in Seq(Msgs)
      /\ shares \in Int /\ venue[i].qty \in Nat /\ venue[i].qty <= MaxQty
  <2>1. QInv /\ LInv /\ Alone(i) /\ Bounded(i) /\ Rising(i)
    BY DEF HInv, QInv, SInv, TInv, Truth
  <2>2. shares \in Int
    BY <2>1, LInvFacts DEF VenueTypeOK
  <2> QED BY <2>1, <2>2, Numbers, SaidNumbers, OutsideFacts DEF Bounded, Rising
<1> HIDE DEF e, v
<1>1. CASE Executes(i)
  <2> DEFINE f == FillEvent(venue[i].exec + 1, venue[i].qty - (venue[i].exec + 1))
             m == LifeMsg(i, f)
             p == PositionMsg(shares')
  <2>1. f \in Life /\ f.ev = "OrderFilled" /\ f.cum = v + 1
    <3>1. venue[i].exec \in Nat /\ venue[i].exec < venue[i].qty
      BY <1>0, <1>1 DEF Executes, v
    <3>2. \A a, b, c \in Nat : a < b /\ b <= c => a + 1 \in 0 .. c /\ b - (a + 1) \in 0 .. c
      OBVIOUS
    <3>3. venue[i].exec + 1 \in Qtys /\ venue[i].qty - (venue[i].exec + 1) \in Qtys
      <4>1. venue[i].qty \in Nat /\ venue[i].qty <= MaxQty /\ MaxQty \in Nat
        BY <1>0, QtyAssumption
      <4> HIDE <1>0
      <4> QED BY <3>1, <3>2, <4>1 DEF Qtys
    <3>4. f \in Life
      BY <3>3, LifeTypes
    <3>5. f.ev = "OrderFilled" /\ f.cum = venue[i].exec + 1
      BY EventParts
    <3> QED BY <3>4, <3>5 DEF v
  <2> HIDE DEF f
  <2>2. m \in Msgs /\ (SaysExec(m, i) => SaidExec(m, i) = v + 1)
    BY <2>1, FrameParts
  <2>3. p \in Msgs /\ ~SaysExec(p, i)
    <3>1. shares' \in Int
      BY <1>0, <1>1 DEF Executes, SideSign
    <3> QED BY <3>1, FrameSays
  <2>4. wire' = wire \/ wire' = Append(Append(wire, m), p)
    BY <1>1 DEF Executes, f
  <2> HIDE DEF m, p
  <2>5. Append(wire, m) \in Rises(i, e)
    <3>1. SaysExec(m, i) => SaidExec(m, i) \in Nat /\ e <= SaidExec(m, i) /\ v <= SaidExec(m, i)
      BY <1>0, <2>2
    <3> QED BY <1>0, <2>2, <3>1, RisesPut
  <2>6. Append(wire, m) \in Seq(Within(i, v + 1))
    <3>1. Within(i, v) \subseteq Within(i, v + 1)
      <4>1. \A n \in Msgs : SaidExec(n, i) \in Nat
        BY QtyAssumption DEF SaidExec, Msgs, Life, Row, Qtys
      <4> QED BY <1>0, <4>1 DEF Within
    <3>2. wire \in Seq(Within(i, v + 1))
      BY <1>0, <3>1, SeqRises
    <3>3. m \in Within(i, v + 1)
      BY <1>0, <2>2 DEF Within
    <3> QED BY <3>2, <3>3, AppendProperties
  <2>7. Append(Append(wire, m), p) \in Rises(i, e)
    <3>1. v + 1 \in Nat
      BY <1>0
    <3> QED BY <1>0, <2>3, <2>5, <2>6, <3>1, RisesPut
  <2>8. wire' \in Rises(i, e)
    BY <1>0, <2>4, <2>7
  <2> QED BY <1>0, <2>8 DEF Rising, e
<1>2. CASE ~Executes(i)
  <2> DEFINE W == Rises(i, e) \cap Seq(Within(i, v))
  <2>1. ASSUME NEW m, NEW w, Uttered(m), w \in W PROVE Append(w, m) \in W
    <3>1. m \in Msgs /\ (SaysExec(m, i) => SaidExec(m, i) = v)
      BY <1>0, <1>2, <2>1, UtteredSays DEF Uttered, v
    <3>2. m \in Within(i, v)
      BY <1>0, <3>1 DEF Within
    <3>3. Append(w, m) \in Seq(Within(i, v))
      BY <2>1, <3>2, AppendProperties
    <3>4. SaysExec(m, i) => SaidExec(m, i) \in Nat /\ e <= SaidExec(m, i) /\ v <= SaidExec(m, i)
      BY <1>0, <3>1
    <3>5. Append(w, m) \in Rises(i, e)
      BY <1>0, <2>1, <3>1, <3>4, RisesPut
    <3> QED BY <3>3, <3>5
  <2>2. wire \in W /\ \A m, w : Uttered(m) /\ w \in W => Append(w, m) \in W
    BY <1>0, <2>1
  <2> HIDE DEF W
  <2>3. wire' \in W
    BY <1>0, <2>2, OutsideGrows
  <2>4. wire' \in Rises(i, e)
    BY <2>3 DEF W
  <2> QED BY <1>0, <2>4 DEF Rising, e
<1> QED
  BY <1>1, <1>2

LEMMA OutsideEnds ==
  ASSUME HInv, Outside, NEW i \in Orders
  PROVE  EndsLate(i)'
<1> SUFFICES ASSUME i \in Sells PROVE EndsLate(i)'
  BY DEF EndsLate
<1>0. /\ QInv /\ Len(wire) \in Nat /\ EndsLate(i) /\ UNCHANGED <<orders, ready>> /\ Lengthens
      /\ wire' \in Seq(Msgs) /\ Len(wire') \in Nat /\ Len(wire) <= Len(wire')
      /\ \A l \in 1 .. Len(wire) : wire'[l] = wire[l]
      /\ \A k \in 0 .. Len(wire) : Trusted(ready, wire', k) <=> Trusted(ready, wire, k)
      /\ venue'[i].exec = venue[i].exec \/ Executes(i)
      /\ Truth /\ wire \in Seq(Msgs) /\ i \notin misread
  <2>1. EndsLate(i) /\ Lengthens /\ i \notin misread
    BY OutsideFacts DEF HInv, Clear
  <2>2. /\ wire' \in Seq(Msgs) /\ Len(wire) <= Len(wire')
        /\ \A l \in 1 .. Len(wire) : wire'[l] = wire[l]
    BY <2>1 DEF Lengthens, Extends
  <2>3. Len(wire') \in Nat
    BY <2>2
  <2> QED BY <2>1, <2>2, <2>3, OutsideFacts
<1>1. ASSUME NEW k \in 1 .. Len(wire), Trusted(ready, wire', k), Ending(wire'[k].lives[i])
      PROVE  Reaches(i, k, venue[i].exec)'
  <2>1. wire'[k] = wire[k] /\ Trusted(ready, wire, k) /\ \A l \in 1 .. k : wire'[l] = wire[l]
    BY <1>0, <1>1
  <2>2. ~Executes(i)
    <3>1. SUFFICES ASSUME Executes(i) PROVE FALSE
      OBVIOUS
    <3>2. wire \in Seq(Unending(i))
      BY <1>0, <3>1 DEF Executes, Truth, AtBroker, Afoot
    <3>3. wire[k] \in Unending(i)
      BY <3>2
    <3> QED BY <1>1, <2>1, <3>3 DEF Unending
  <2>3. Reaches(i, k, venue[i].exec)
    BY <1>0, <1>1, <2>1 DEF EndsLate, Ending
  <2> QED BY <1>0, <2>1, <2>2, <2>3 DEF Reaches, SaysExec, SaidExec, Filled, Listing, Lists
<1>2. ASSUME NEW k \in Len(wire) + 1 .. Len(wire'), Trusted(ready, wire', k), Ending(wire'[k].lives[i])
      PROVE  Reaches(i, k, venue[i].exec)'
  BY <1>0, <1>2 DEF Lengthens, NewWord
<1>3. \A k \in 1 .. Len(wire') : k \in 1 .. Len(wire) \/ k \in Len(wire) + 1 .. Len(wire')
  BY <1>0
<1>4. \A k \in 1 .. Len(wire') : Trusted(ready, wire', k) /\ Ending(wire'[k].lives[i])
        => Reaches(i, k, venue[i].exec)'
  BY <1>1, <1>2, <1>3
<1> QED
  BY <1>0, <1>4 DEF EndsLate, Trusted, Lists, Breaks, Ending

-----------------------------------------------------------------------------
(* Every step *)

\* The engine never stops, and nobody flattens.
Lasting == "crash" \notin Upsets /\ {"shutdown", "flatten"} \cap Commands = {}

LEMMA NoProcess ==
  ASSUME Lasting, up, Process
  PROVE  FALSE
BY DEF Lasting, Process, Crash, Upset, ShutdownEngine, Recover

LEMMA NextBacked ==
  ASSUME HInv, QInv', Clear', IsFiniteSet(Orders), Lasting, [Next]_vars
  PROVE  HInv'
<1>0. /\ QInv /\ LInv /\ NoLateWord /\ PosInv /\ Counted /\ Backing /\ up
      /\ "flatten" \notin Commands
      /\ \A i \in Orders : Rising(i) /\ EndsLate(i) /\ Bounded(i)'
  BY DEF HInv, QInv, SInv, TInv, Rest, Counted, Lasting
<1>1. CASE UNCHANGED vars
  <2>1. UNCHANGED <<wire, shares, closing, online, up, ready, position, flatJob, venue, orders>>
    BY <1>1 DEF vars, venueVars, brokerVars, adapterVars, coreVars, bookVars
  <2>2. PosInv'
    BY <1>0, <2>1, IdlePos
  <2>3. Counted'
    BY <1>0, <2>1 DEF Counted, Worths, Executions
  <2>4. \A i \in Orders : Rising(i)' /\ EndsLate(i)'
    BY <1>0, <2>1 DEF Rising, Rises, EndsLate, Trusted, Reaches
  <2>5. Backing'
    <3>1. ASSUME NEW k \in 0 .. Len(wire), Trusted(ready, wire, k), OnShares(k)
          PROVE  Backed(k, Worth(k))'
      <4>1. PICK x \in [Orders -> Nat] : Worth(k) <= Worths(x) /\ \A i \in Orders : Backs(i, k, x[i])
        BY <1>0, <3>1 DEF Backing, Backed
      <4>2. \A i \in Orders : Backs(i, k, x[i])'
        BY <2>1, <4>1 DEF Backs, Below, Closed, Hears, Reaches
      <4>3. Worth(k)' = Worth(k) /\ Worths(x)' = Worths(x)
        BY <2>1 DEF Worth, Worths
      <4> QED BY <4>1, <4>2, <4>3 DEF Backed
    <3>2. \A k \in 0 .. Len(wire) : (Trusted(ready, wire, k) /\ OnShares(k))' =>
                                     Trusted(ready, wire, k) /\ OnShares(k)
      BY <2>1 DEF OnShares
    <3> QED BY <2>1, <3>1, <3>2 DEF Backing
  <2> QED BY <2>2, <2>3, <2>4, <2>5 DEF HInv
<1>2. CASE OwnStep
  <2>1. Does
    BY <1>0, <1>2, OwnSteps
  <2>2. UNCHANGED <<wire, shares, closing, online, up, ready, position, flatJob, venue>>
    BY <2>1 DEF Does, Quietly
  <2>3. PosInv'
    BY <1>0, <2>2, IdlePos
  <2>4. Counted'
    BY <1>0, <2>2 DEF Counted, Worths, Executions
  <2> QED BY <2>1, <2>3, <2>4, OwnBacking DEF HInv
<1>3. CASE StreamEvent
  <2>1. PosInv'
    BY <1>0, <1>3, EventPos
  <2> QED BY <1>3, <2>1, TakeKeeps DEF HInv
<1>4. CASE Process
  BY <1>0, <1>4, NoProcess
<1>5. CASE Outside
  <2>1. PosInv'
    BY <1>0, <1>5, OutsidePos
  <2>2. Counted' /\ shares' \in Int
    BY <1>0, <1>5, OutsideCounted
  <2>3. Backing'
    BY <1>0, <1>5, <2>2, OutsideBacking
  <2>4. \A i \in Orders : Rising(i)' /\ EndsLate(i)'
    BY <1>5, OutsideRises, OutsideEnds
  <2> QED BY <2>1, <2>2, <2>3, <2>4 DEF HInv
<1> QED
  BY <1>0, <1>1, <1>2, <1>3, <1>4, <1>5, StepKinds

LEMMA InitBacked ==
  ASSUME Init, QInv, IsFiniteSet(Orders)
  PROVE  HInv
<1> Clear
  BY DEF Init, VenueInit, Clear
<1>0. /\ wire = <<>> /\ Len(wire) = 0 /\ venue = [i \in Orders |-> NoVenueOrder] /\ up
      /\ orders = [i \in Orders |-> NoOrder] /\ position = Opening /\ shares = Opening /\ ~closing
      /\ Opening \in Int
  <2>1. Len(<<>>) = 0
    OBVIOUS
  <2> QED BY <2>1, OpeningAssumption DEF Init, VenueInit
<1>1. PosInv
  BY InitPos
<1>2. \A i \in Orders : venue[i].exec = 0 /\ orders[i].exec = 0
  BY <1>0 DEF NoVenueOrder, NoOrder
<1>3. PICK x \in [Orders -> Nat] : Executions = x /\ \A i \in Orders : x[i] = 0
  <2> DEFINE x == [i \in Orders |-> 0]
  <2>1. x \in [Orders -> Nat] /\ Executions = x /\ \A i \in Orders : x[i] = 0
    BY <1>2 DEF Executions
  <2> QED BY <2>1
<1>4. Worths(x) = Opening
  <2> DEFINE f == [i \in Orders |-> SideSign(i) * x[i]]
  <2>1. \A i \in Orders : f[i] = 0
    <3>1. ASSUME NEW i \in Orders PROVE SideSign(i) * x[i] = 0
      <4>1. x[i] = 0 /\ x[i] \in Int
        BY <1>3
      <4>2. SideSign(i) * x[i] = 0 - x[i] \/ SideSign(i) * x[i] = x[i]
        BY <4>1, Signed
      <4> QED BY <4>1, <4>2
    <3> QED BY <3>1
  <2>2. Worths(x) = Opening + SumFunctionOnSet(f, Orders)
    BY DEF Worths
  <2> HIDE DEF f
  <2>3. SumFunctionOnSet(f, Orders) = SumFunctionOnSet(f, {})
    <3>1. \A i \in Orders : f[i] \in Int
      <4>1. 0 \in Int
        OBVIOUS
      <4> QED BY <2>1, <4>1, Zenon
    <3>2. {} \in SUBSET Orders /\ \A i \in Orders \ {} : f[i] = 0
      BY <2>1
    <3> QED BY <3>1, <3>2, SumOfPart
  <2>4. SumFunctionOnSet(f, {}) = 0
    BY SumEmpty
  <2> QED BY <1>0, <2>2, <2>3, <2>4
<1>5. Counted
  BY <1>0, <1>3, <1>4 DEF Counted
<1>6. \A i \in Orders : Rising(i) /\ EndsLate(i)
  <2>1. \A k \in 1 .. Len(wire) : FALSE
    BY <1>0
  <2>2. wire \in Seq(Msgs)
    BY <1>0
  <2> QED BY <2>1, <2>2 DEF Rising, Rises, EndsLate
<1>7. ASSUME NEW k \in 0 .. Len(wire) PROVE Backed(k, Worth(k))
  <2>1. k = 0 /\ Worth(k) = Opening
    BY <1>0, <1>7 DEF Worth
  <2>2. ASSUME NEW i \in Orders PROVE Backs(i, k, x[i])
    <3>1. (\A l \in 1 .. k : FALSE) /\ \A l \in 1 .. Len(wire) : FALSE
      BY <1>0, <2>1
    <3>2. Below(i, k, x[i]) /\ venue[i].exec <= x[i] /\ x[i] <= venue[i].exec
      BY <1>2, <1>3, <3>1 DEF Below
    <3>3. ~Hears(i, k)
      BY <3>1 DEF Hears
    <3> QED BY <3>2, <3>3 DEF Backs
  <2>3. Worth(k) <= Worths(x)
    BY <1>0, <1>4, <2>1
  <2> QED BY <2>2, <2>3 DEF Backed
<1> QED
  BY <1>1, <1>5, <1>6, <1>7 DEF HInv, Backing

-----------------------------------------------------------------------------
(* What an order may still sell *)

\* What sizes S leave to sell of an order that sold e.
Left(S, e) == IF S = {} THEN 0 ELSE Max(S) - e

LEMMA LeftParts ==
  ASSUME NEW S \in SUBSET Qtys, NEW e \in Nat
  PROVE  /\ S \subseteq Nat /\ Left(S, e) \in Int
         /\ \A q \in S : q - e <= Left(S, e)
         /\ S = {} => Left(S, e) = 0
         /\ S # {} => \E q \in S : Left(S, e) = q - e
<1>1. S \subseteq Nat
  BY QtyAssumption DEF Qtys
<1>2. CASE S = {}
  BY <1>2 DEF Left
<1>3. CASE S # {}
  <2>1. Max(S) \in S /\ (\A q \in S : q <= Max(S)) /\ Left(S, e) = Max(S) - e
    BY <1>3, MaxIsIn DEF Left
  <2>2. PICK m \in S : (\A q \in S : q <= m) /\ Left(S, e) = m - e
    BY <2>1
  <2>3. Left(S, e) \in Int /\ \A q \in S : q - e <= Left(S, e)
    BY <1>1, <2>2
  <2> QED BY <1>1, <1>3, <2>2, <2>3
<1> QED
  BY <1>1, <1>2, <1>3

\* The larger sizes, and the fewer sold, leave more.
LEMMA LeftFalls ==
  ASSUME NEW S \in SUBSET Qtys, NEW T \in SUBSET S, NEW e \in Nat, NEW f \in Nat,
         e <= f, S # {} => \E q \in S : e <= q
  PROVE  /\ Left(T, f) <= Left(S, e)
         /\ e < f /\ (\E q \in S : e < q) => Left(T, f) < Left(S, e)
<1>1. /\ S \subseteq Nat /\ Left(S, e) \in Int /\ \A q \in S : q - e <= Left(S, e)
      /\ S = {} => Left(S, e) = 0
  BY LeftParts
<1>2. /\ Left(T, f) \in Int /\ (T = {} => Left(T, f) = 0)
      /\ T # {} => \E q \in T : Left(T, f) = q - f
  BY LeftParts
<1>3. CASE T = {}
  <2>1. Left(T, f) = 0
    BY <1>2, <1>3
  <2>2. 0 <= Left(S, e)
    BY <1>1
  <2>3. (\E q \in S : e < q) => 0 < Left(S, e)
    BY <1>1
  <2> QED BY <2>1, <2>2, <2>3
<1>4. CASE T # {}
  <2>1. PICK q \in T : Left(T, f) = q - f
    BY <1>2, <1>4
  <2>2. q \in Nat /\ q - e <= Left(S, e)
    BY <1>1
  <2> QED BY <1>1, <2>1, <2>2
<1> QED
  BY <1>3, <1>4

LEMMA ExposureParts ==
  ASSUME QInv, NEW i \in Orders
  PROVE  /\ Sizes(i) \in SUBSET Qtys /\ venue[i].exec \in Nat
         /\ Exposure(i) = Left(Sizes(i), venue[i].exec) /\ Exposure(i) \in Int
         /\ Sizes(i) # {} <=> AtBroker(i)
         /\ Sizes(i) # {} => \E q \in Sizes(i) : venue[i].exec <= q
         /\ OpenAt(i) => venue[i].qty \in Sizes(i)
<1>0. /\ net \subseteq Requests /\ venue[i].qty \in Qtys /\ venue[i].exec \in Nat /\ Alone(i)
      /\ Qtys \subseteq Nat
  <2>1. LInv /\ Alone(i)
    BY DEF QInv, SInv, TInv, Truth
  <2> QED BY <2>1, LInvFacts, QtyAssumption DEF VenueTypeOK, VenueOrder, Qtys
<1>1. Sizes(i) \in SUBSET Qtys
  BY <1>0 DEF Sizes, Requests
<1>2. Exposure(i) = Left(Sizes(i), venue[i].exec) /\ Exposure(i) \in Int
  BY <1>0, <1>1, LeftParts DEF Exposure, Left
<1>3. OpenAt(i) => venue[i].qty \in Sizes(i) /\ venue[i].exec <= venue[i].qty
  <2>1. OpenAt(i) => venue[i].qty \in Sizes(i)
    BY DEF Sizes, AtBroker
  <2>2. OpenAt(i) => venue[i].exec < venue[i].qty \/ venue[i].exec = 0
    BY <1>0 DEF Alone
  <2>3. venue[i].qty \in Nat
    BY <1>0
  <2> QED BY <1>0, <2>1, <2>2, <2>3
<1>4. venue[i].st = "none" /\ SubmitInFlight(i) => \E q \in Sizes(i) : venue[i].exec <= q
  <2>1. SUFFICES ASSUME venue[i].st = "none", SubmitInFlight(i) PROVE \E q \in Sizes(i) : venue[i].exec <= q
    OBVIOUS
  <2>2. PICK r \in net : r.kind \in SubmitKinds /\ r.id = i
    BY <2>1 DEF SubmitInFlight
  <2>3. r.qty \in Sizes(i)
    BY <2>1, <2>2 DEF Sizes, AtBroker, SubmitKinds
  <2>4. venue[i].exec = 0 /\ r.qty \in Nat
    BY <1>0, <2>1 DEF Alone, Requests
  <2> QED BY <2>3, <2>4
<1>5. Sizes(i) # {} => AtBroker(i)
  BY DEF Sizes
<1> QED
  BY <1>0, <1>1, <1>2, <1>3, <1>4, <1>5 DEF AtBroker

\* A step that asks for cancels only leaves what may be sold.
LEMMA CancelsSame ==
  ASSUME UNCHANGED venue, NEW i \in Orders,
         net \subseteq net', \A r \in net' : r \in net \/ r.kind = "CANCEL" \/ r.id # i
  PROVE  Sizes(i)' = Sizes(i) /\ Exposure(i)' = Exposure(i)
<1>1. AtBroker(i)' <=> AtBroker(i)
  BY DEF AtBroker, SubmitInFlight, SubmitKinds, OpenAt
<1>2. {q \in net' : q.id = i /\ q.kind # "CANCEL"} = {q \in net : q.id = i /\ q.kind # "CANCEL"}
  OBVIOUS
<1>3. Sizes(i)' = Sizes(i)
  BY <1>1, <1>2 DEF Sizes, OpenAt
<1> QED
  BY <1>3 DEF Exposure

\* Outside the core nothing may come to sell more.
LEMMA OutsideSizes ==
  ASSUME QInv, Outside, NEW i \in Orders
  PROVE  /\ Sizes(i)' \in SUBSET Sizes(i) /\ venue[i].exec <= venue'[i].exec
         /\ venue'[i].exec \in Nat /\ Exposure(i)' = Left(Sizes(i)', venue'[i].exec)
         /\ Executes(i) => venue[i].exec < venue'[i].exec
<1>0. /\ LInv /\ Alone(i) /\ venue[i].exec \in Nat /\ net' \subseteq net
      /\ venue \in [Orders -> VenueOrder]
  <2>1. LInv /\ Alone(i)
    BY DEF QInv, SInv, TInv, Truth
  <2> QED BY <2>1, Numbers, LInvFacts, OutsideVenue DEF VenueTypeOK
<1>1. /\ venue[i].exec <= venue'[i].exec /\ venue'[i].exec \in Nat
  BY <1>0, OutsideVenue DEF Alone, Lands
<1>2. Executes(i) => venue[i].exec < venue'[i].exec
  <2>1. Executes(i) => venue'[i].exec = venue[i].exec + 1
    BY <1>0 DEF Executes, Executed, VenueOrder
  <2> QED BY <1>0, <2>1
<1>3. {r.qty : r \in {q \in net' : q.id = i /\ q.kind # "CANCEL"}}
        \subseteq {r.qty : r \in {q \in net : q.id = i /\ q.kind # "CANCEL"}}
  BY <1>0
<1>4. SubmitInFlight(i)' => SubmitInFlight(i)
  BY <1>0 DEF SubmitInFlight
<1>5. Sizes(i)' \subseteq Sizes(i)
  <2>1. CASE venue'[i] = venue[i]
    BY <1>3, <1>4, <2>1 DEF Sizes, AtBroker, OpenAt
  <2>2. CASE Executes(i) /\ venue'[i].qty = venue[i].qty
    BY <1>3, <1>4, <2>2 DEF Sizes, AtBroker, OpenAt, Executes
  <2>3. CASE venue'[i].st \in {"canceled", "expired"}
    BY <2>3 DEF Sizes, AtBroker, OpenAt
  <2>4. ASSUME NEW r \in net, Gets(i, r), venue'[i].qty = r.qty, venue'[i].st = "open"
        PROVE  Sizes(i)' \subseteq Sizes(i)
    BY <1>3, <2>4 DEF Sizes, AtBroker, OpenAt, Gets
  <2>5. ASSUME NEW r \in net, Lands(i, r), venue'[i].qty = r.qty, venue'[i].st = "open"
        PROVE  Sizes(i)' \subseteq Sizes(i)
    <3>1. AtBroker(i) /\ r.kind # "CANCEL" /\ r.id = i
      BY <2>5 DEF Lands, AtBroker, SubmitInFlight, SubmitKinds
    <3> QED BY <1>3, <2>5, <3>1 DEF Sizes
  <2> QED BY <1>0, <2>1, <2>2, <2>3, <2>4, <2>5, OutsideVenue
<1> QED
  BY <1>1, <1>2, <1>5 DEF Exposure, Left

\* An order trades no more than its size.
Room(i) == venue[i].exec <= venue[i].qty

LEMMA NextRoom ==
  ASSUME QInv, UNCHANGED venue \/ Outside, NEW i \in Orders, Room(i)
  PROVE  Room(i)'
<1>0. /\ LInv /\ venue[i].exec \in Nat /\ venue[i].qty \in Nat /\ net \subseteq Requests
      /\ \A r \in Requests : r.qty \in Nat
  <2>1. LInv
    BY DEF QInv, SInv, TInv
  <2> QED BY <2>1, Numbers, LInvFacts, QtyAssumption DEF VenueTypeOK, Requests, Qtys
<1>1. CASE UNCHANGED venue
  BY <1>1 DEF Room
<1>2. CASE Outside
  BY <1>0, <1>2, OutsideVenue DEF Room, Executes, Gets
<1> QED
  BY <1>1, <1>2

\* What an order may still sell is committed, or already counted as sold.
LEMMA ExposureBacked ==
  ASSUME QInv, NEW j \in Sells, Covers(j), Room(j), NEW x \in Nat, Backs(j, 0, x)
  PROVE  /\ Exposure(j) <= CommittedLeaves(orders[j]) + (x - venue[j].exec)
         /\ orders[j].exec <= x
<1>0. /\ LInv /\ j \in Orders /\ venue[j].exec \in Nat /\ venue[j].qty \in Nat /\ Alone(j)
      /\ CommittedLeaves(orders[j]) \in Nat /\ orders[j].exec \in Nat
      /\ Sizes(j) \subseteq Nat
  <2>1. LInv /\ j \in Orders /\ Alone(j)
    BY IdsAssumption DEF QInv, SInv, TInv, Truth
  <2> QED BY <2>1, Numbers, CommitsShares, ExposureParts, QtyAssumption DEF Qtys
<1>1. orders[j].exec <= x /\ (Closed(j, 0) => venue[j].exec <= x)
  BY DEF Backs, Below
<1>2. CASE AtBroker(j)
  <2>1. PICK q \in Sizes(j) : Exposure(j) = q - venue[j].exec
    BY <1>0, <1>2, ExposureParts, LeftParts
  <2>2. q \in Nat /\ q <= CommittedLeaves(orders[j]) + orders[j].exec
    BY <1>0, <1>2, <2>1 DEF Covers
  <2> QED BY <1>0, <1>1, <2>1, <2>2
<1>3. CASE ~AtBroker(j)
  <2>1. Exposure(j) = 0
    BY <1>3 DEF Exposure, Sizes
  <2>2. venue[j].exec <= CommittedLeaves(orders[j]) + x
    <3>1. CASE venue[j].st = "none"
      BY <1>0, <3>1 DEF Alone
    <3>2. CASE venue[j].st # "none" /\ Working(orders[j])
      <4>1. venue[j].qty <= CommittedLeaves(orders[j]) + orders[j].exec
        BY <3>2 DEF Covers, AtVenue
      <4>2. venue[j].exec <= venue[j].qty
        BY DEF Room
      <4> QED BY <1>0, <1>1, <4>1, <4>2
    <3>3. CASE ~Working(orders[j])
      BY <1>0, <1>1, <3>3 DEF Closed
    <3> QED BY <3>1, <3>2, <3>3
  <2> QED BY <1>0, <1>1, <2>1, <2>2
<1> QED
  BY <1>2, <1>3

\* What sellLeavesCheck lets order i sell, with what the others may still sell,
\* is held in the account.
Granting(i, q) ==
  [j \in Orders |-> IF j = i THEN q + (orders[i].exec - venue[i].exec) ELSE Exposure(j)]

LEMMA Grants ==
  ASSUME HInv, IsFiniteSet(Orders), NEW i \in Sells, NEW q \in Nat, LeavesOk(i, q),
         \A j \in Sells : Covers(j) /\ Room(j)
  PROVE  SumFunctionOnSet(Granting(i, q), Sells) <= shares
<1>0. /\ QInv /\ LInv /\ Sells \subseteq Orders /\ shares = Worths(Executions) /\ position \in Int
      /\ IsFiniteSet(Sells) /\ ready = TRUE
      /\ q + Committed(Sells \ {i}) <= position
  <2>1. QInv /\ LInv /\ shares = Worths(Executions) /\ position \in Int
    BY DEF HInv, Counted, QInv, SInv, TInv
  <2>2. Sells \subseteq Orders
    BY IdsAssumption
  <2>3. IsFiniteSet(Sells)
    BY <2>2, FS_Subset
  <2>4. SameSide(i) = Sells
    BY <2>2 DEF SameSide
  <2>5. ready \in BOOLEAN
    BY <2>1, LInvFacts DEF CoreTypeOK
  <2>6. ready = TRUE /\ q + Committed(Sells \ {i}) <= position
    BY <2>4, <2>5 DEF LeavesOk, Reducible
  <2> QED BY <2>1, <2>2, <2>3, <2>6
<1>1. PICK x \in [Orders -> Nat] : position <= Worths(x) /\ \A j \in Orders : Backs(j, 0, x[j])
  <2>1. Trusted(ready, wire, 0)
    BY <1>0, TrustedNow
  <2>2. OnShares(0) /\ Worth(0) = position
    BY DEF OnShares, Worth
  <2>3. 0 \in 0 .. Len(wire)
    <3>1. Len(wire) \in Nat
      BY <1>0, LInvFacts, SaidNumbers
    <3> QED BY <3>1
  <2> QED BY <2>1, <2>2, <2>3 DEF HInv, Backing, Backed
<1> DEFINE C == [j \in Orders |-> CommittedLeaves(orders[j])]
           K == [j \in Orders |-> IF j = i THEN q ELSE CommittedLeaves(orders[j])]
           D == [j \in Orders |-> IF j \in Sells THEN x[j] - venue[j].exec ELSE 0]
           H == [j \in Orders |-> K[j] + D[j]]
           G == Granting(i, q)
<1>2. \A j \in Orders : /\ venue[j].exec \in Nat /\ orders[j].exec \in Nat /\ x[j] \in Nat
                        /\ CommittedLeaves(orders[j]) \in Nat /\ Exposure(j) \in Int
  BY <1>0, <1>1, Numbers, CommitsShares, ExposureParts
<1>3. \A j \in Orders : /\ C[j] \in Int /\ K[j] \in Int /\ D[j] \in Int /\ H[j] \in Int
                        /\ H[j] = K[j] + D[j]
                        /\ j # i => K[j] = C[j]
                        /\ j \in Sells => D[j] = x[j] - venue[j].exec
                        /\ j \notin Sells => D[j] = 0
  <2>1. ASSUME NEW j \in Orders PROVE D[j] \in Int
    <3>1. x[j] - venue[j].exec \in Int /\ 0 \in Int
      BY <1>2
    <3> QED BY <3>1, Zenon
  <2>2. ASSUME NEW j \in Orders PROVE C[j] \in Int /\ K[j] \in Int
    BY <1>2
  <2>3. ASSUME NEW j \in Orders PROVE H[j] = K[j] + D[j] /\ K[j] + D[j] \in Int
    <3>1. \A a, b : a \in Int /\ b \in Int => a + b \in Int
      OBVIOUS
    <3>2. H[j] = K[j] + D[j]
      OBVIOUS
    <3> HIDE DEF K, D, H
    <3> QED BY <2>1, <2>2, <3>1, <3>2
  <2>4. ASSUME NEW j \in Orders
        PROVE  /\ j # i => K[j] = C[j]
               /\ j \in Sells => D[j] = x[j] - venue[j].exec
               /\ j \notin Sells => D[j] = 0
    OBVIOUS
  <2> HIDE DEF C, K, D, H
  <2> QED BY <2>1, <2>2, <2>3, <2>4
<1>4. K[i] = q /\ Committed(Sells \ {i}) = SumFunctionOnSet(C, Sells \ {i}) /\ i \in Orders
  BY <1>0 DEF Committed
<1>5. \A j \in Sells : G[j] \in Int /\ G[j] <= H[j]
  <2>1. ASSUME NEW j \in Sells PROVE G[j] \in Int /\ G[j] <= H[j]
    <3>1. j \in Orders /\ Backs(j, 0, x[j]) /\ x[j] \in Nat
      BY <1>0, <1>1
    <3>2. /\ Exposure(j) <= CommittedLeaves(orders[j]) + (x[j] - venue[j].exec)
          /\ orders[j].exec <= x[j]
      BY <1>0, <3>1, ExposureBacked
    <3>3. CASE j = i
      <4>1. G[j] = q + (orders[j].exec - venue[j].exec) /\ H[j] = q + (x[j] - venue[j].exec)
        BY <1>3, <1>4, <3>1, <3>3 DEF Granting
      <4> QED BY <1>2, <3>1, <3>2, <4>1
    <3>4. CASE j # i
      <4>1. G[j] = Exposure(j) /\ H[j] = CommittedLeaves(orders[j]) + (x[j] - venue[j].exec)
        BY <3>1, <3>4 DEF Granting
      <4> QED BY <1>2, <3>1, <3>2, <4>1
    <3> QED BY <3>3, <3>4
  <2> QED BY <2>1
<1> HIDE DEF C, K, D, H, G
<1>6. SumFunctionOnSet(G, Sells) <= SumFunctionOnSet(H, Sells)
  <2>1. \A j \in Sells : G[j] \in Int /\ H[j] \in Int /\ G[j] <= H[j]
    BY <1>0, <1>3, <1>5
  <2> QED BY <1>0, <2>1, SumRises
<1>7. SumFunctionOnSet(H, Sells) = SumFunctionOnSet(K, Sells) + SumFunctionOnSet(D, Sells)
  <2>1. \A j \in Sells : K[j] \in Int /\ D[j] \in Int /\ H[j] = K[j] + D[j]
    BY <1>0, <1>3
  <2> QED BY <1>0, <2>1, SumAdds
<1>8. SumFunctionOnSet(K, Sells) = q + Committed(Sells \ {i})
  <2>1. SumFunctionOnSet(K, Sells) = K[i] + SumFunctionOnSet(K, Sells \ {i})
    <3>1. \A j \in Sells : K[j] \in Int
      BY <1>0, <1>3
    <3> QED BY <1>0, <3>1, SumTakes
  <2>2. SumFunctionOnSet(K, Sells \ {i}) = SumFunctionOnSet(C, Sells \ {i})
    <3>1. IsFiniteSet(Sells \ {i})
      BY <1>0, FS_Subset
    <3>2. \A j \in Sells \ {i} : K[j] = C[j]
      BY <1>0, <1>3
    <3> QED BY <3>1, <3>2, SumSame
  <2> QED BY <1>4, <2>1, <2>2
<1>9. SumFunctionOnSet(D, Sells) = SumFunctionOnSet(D, Orders)
  <2>1. \A j \in Orders : D[j] \in Int
    BY <1>3
  <2>2. \A j \in Orders \ Sells : D[j] = 0
    BY <1>3
  <2> QED BY <1>0, <2>1, <2>2, SumOfPart
<1>10. /\ SumFunctionOnSet(K, Sells) \in Int /\ SumFunctionOnSet(D, Orders) \in Int
       /\ SumFunctionOnSet(G, Sells) \in Int /\ SumFunctionOnSet(H, Sells) \in Int
  <2>1. (\A j \in Sells : K[j] \in Int /\ H[j] \in Int /\ G[j] \in Int) /\ \A j \in Orders : D[j] \in Int
    BY <1>0, <1>3, <1>5
  <2> QED BY <1>0, <2>1, SumType
<1>11. Worths(x) \in Int /\ Worths(x) + SumFunctionOnSet(D, Orders) <= shares /\ shares \in Int
  <2> DEFINE f == [j \in Orders |-> SideSign(j) * x[j]]
             g == [j \in Orders |-> SideSign(j) * venue[j].exec]
             h == [j \in Orders |-> f[j] + D[j]]
  <2>1. \A j \in Orders : /\ f[j] \in Int /\ g[j] \in Int /\ h[j] \in Int
                           /\ h[j] = f[j] + D[j] /\ h[j] <= g[j]
    <3>1. ASSUME NEW j \in Orders
          PROVE  /\ f[j] \in Int /\ g[j] \in Int /\ h[j] \in Int
                 /\ h[j] = f[j] + D[j] /\ h[j] <= g[j]
      <4>1. /\ x[j] \in Int /\ venue[j].exec \in Int
            /\ D[j] \in Int /\ Backs(j, 0, x[j])
        BY <1>1, <1>2, <1>3
      <4>2. /\ SideSign(j) * x[j] \in Int /\ SideSign(j) * venue[j].exec \in Int
            /\ j \in Sells => /\ SideSign(j) * x[j] = 0 - x[j]
                              /\ SideSign(j) * venue[j].exec = 0 - venue[j].exec
            /\ j \notin Sells => /\ SideSign(j) * x[j] = x[j]
                                 /\ SideSign(j) * venue[j].exec = venue[j].exec
        BY <4>1, Signed
      <4>3. SideSign(j) * x[j] + D[j] <= SideSign(j) * venue[j].exec
        <5>1. CASE j \in Sells
          BY <1>3, <4>1, <4>2, <5>1
        <5>2. CASE j \notin Sells
          <6>1. x[j] <= venue[j].exec
            BY <4>1, <5>2 DEF Backs
          <6> QED BY <1>3, <4>1, <4>2, <5>2, <6>1
        <5> QED BY <5>1, <5>2
      <4> QED BY <4>1, <4>2, <4>3
    <3> QED BY <3>1
  <2>2. /\ Worths(x) = Opening + SumFunctionOnSet(f, Orders)
        /\ Worths(Executions) = Opening + SumFunctionOnSet(g, Orders)
    <3>1. [j \in Orders |-> SideSign(j) * Executions[j]] = g
      BY DEF Executions
    <3> QED BY <3>1 DEF Worths
  <2> HIDE DEF f, g, h
  <2>3. SumFunctionOnSet(h, Orders) = SumFunctionOnSet(f, Orders) + SumFunctionOnSet(D, Orders)
    <3>1. \A j \in Orders : f[j] \in Int /\ D[j] \in Int /\ h[j] = f[j] + D[j]
      BY <1>3, <2>1
    <3> QED BY <3>1, SumAdds
  <2>4. SumFunctionOnSet(h, Orders) <= SumFunctionOnSet(g, Orders)
    <3>1. \A j \in Orders : h[j] \in Int /\ g[j] \in Int /\ h[j] <= g[j]
      BY <2>1
    <3> QED BY <3>1, SumRises
  <2>5. /\ SumFunctionOnSet(f, Orders) \in Int /\ SumFunctionOnSet(g, Orders) \in Int
        /\ SumFunctionOnSet(h, Orders) \in Int
    <3>1. \A j \in Orders : f[j] \in Int /\ g[j] \in Int /\ h[j] \in Int
      BY <2>1
    <3> QED BY <3>1, SumType
  <2> QED BY <1>0, <1>10, <2>2, <2>3, <2>4, <2>5, OpeningAssumption
<1>12. Committed(Sells \ {i}) \in Int
  <2>1. IsFiniteSet(Sells \ {i}) /\ \A j \in Sells \ {i} : C[j] \in Int
    BY <1>0, <1>3, FS_Subset
  <2> QED BY <1>4, <2>1, SumType
<1>13. SumFunctionOnSet(G, Sells) <= shares
  BY <1>0, <1>1, <1>6, <1>7, <1>8, <1>9, <1>10, <1>11, <1>12
<1> QED
  BY <1>13 DEF G

-----------------------------------------------------------------------------
(* No more than is held may be sold *)

\* What all the SELLs may still sell is held.
Owned == SumFunctionOnSet([i \in Orders |-> Exposure(i)], Sells) <= shares

\* Cancels, and what is asked of other orders, leave what may be sold.
LEMMA IdleSells ==
  ASSUME UNCHANGED <<venue, shares>>, IsFiniteSet(Orders), net \subseteq net',
         \A r \in net' : r \in net \/ r.kind = "CANCEL" \/ r.id \notin Sells, Owned
  PROVE  Owned'
<1> DEFINE f == [i \in Orders |-> Exposure(i)]
           g == [i \in Orders |-> Exposure(i)']
<1>1. Sells \subseteq Orders /\ IsFiniteSet(Sells)
  BY IdsAssumption, FS_Subset
<1>2. ASSUME NEW i \in Sells PROVE f[i] = g[i]
  <2>1. i \in Orders /\ \A r \in net' : r \in net \/ r.kind = "CANCEL" \/ r.id # i
    BY <1>1
  <2>2. Exposure(i)' = Exposure(i)
    BY <2>1, CancelsSame
  <2> QED BY <2>1, <2>2
<1>3. (SumFunctionOnSet(f, Sells) <= shares) /\ (Owned' <=> SumFunctionOnSet(g, Sells) <= shares')
  BY DEF Owned
<1> HIDE DEF f, g
<1>4. SumFunctionOnSet(f, Sells) = SumFunctionOnSet(g, Sells)
  BY <1>1, <1>2, SumSame
<1> QED
  BY <1>3, <1>4

\* What happens outside the core sells what might be sold.
LEMMA OutsideExposes ==
  ASSUME QInv, Outside, NEW i \in Orders
  PROVE  /\ Exposure(i) \in Int /\ Exposure(i)' \in Int /\ Exposure(i)' <= Exposure(i)
         /\ Executes(i) => Exposure(i)' < Exposure(i)
<1> DEFINE S == Sizes(i)
           T == Sizes(i)'
           e == venue[i].exec
           f == venue'[i].exec
<1>1. /\ S \in SUBSET Qtys /\ e \in Nat /\ Exposure(i) = Left(S, e)
      /\ S # {} => \E q \in S : e <= q
  BY ExposureParts
<1>2. /\ T \in SUBSET S /\ e <= f /\ f \in Nat /\ Exposure(i)' = Left(T, f)
      /\ Executes(i) => e < f
  BY OutsideSizes
<1>3. Executes(i) => \E q \in S : e < q
  BY ExposureParts DEF Executes
<1> HIDE DEF S, T, e, f
<1>4. T \in SUBSET Qtys
  BY <1>1, <1>2
<1>5. Left(S, e) \in Int /\ Left(T, f) \in Int
  BY <1>1, <1>2, <1>4, LeftParts
<1>6. Left(T, f) <= Left(S, e) /\ (e < f /\ (\E q \in S : e < q) => Left(T, f) < Left(S, e))
  BY <1>1, <1>2, LeftFalls
<1> QED
  BY <1>1, <1>2, <1>3, <1>5, <1>6

LEMMA OutsideSells ==
  ASSUME QInv, Outside, IsFiniteSet(Orders), ~closing, Owned
  PROVE  Owned'
<1> DEFINE f == [i \in Orders |-> Exposure(i)]
           g == [i \in Orders |-> Exposure(i)']
<1>0. LInv /\ Sells \subseteq Orders /\ IsFiniteSet(Sells) /\ shares \in Int
  <2>1. LInv
    BY DEF QInv, SInv, TInv
  <2> QED BY <2>1, IdsAssumption, FS_Subset, LInvFacts DEF VenueTypeOK
<1>1. \A i \in Sells : /\ f[i] \in Int /\ g[i] \in Int /\ g[i] <= f[i]
                       /\ Executes(i) => g[i] < f[i]
  BY <1>0, OutsideExposes
<1>2. (SumFunctionOnSet(f, Sells) <= shares) /\ (Owned' <=> SumFunctionOnSet(g, Sells) <= shares')
  BY DEF Owned
<1> HIDE DEF f, g
<1>3. /\ SumFunctionOnSet(f, Sells) \in Int /\ SumFunctionOnSet(g, Sells) \in Int
      /\ SumFunctionOnSet(g, Sells) <= SumFunctionOnSet(f, Sells)
  <2>1. \A i \in Sells : f[i] \in Int /\ g[i] \in Int /\ g[i] <= f[i]
    BY <1>1
  <2> QED BY <1>0, <2>1, SumType, SumRises
<1>4. ASSUME NEW j \in Orders, Executes(j) PROVE Owned'
  <2>1. shares' = shares + SideSign(j)
    BY <1>4 DEF Executes
  <2>2. CASE j \in Sells
    <3>1. SumFunctionOnSet(g, Sells) < SumFunctionOnSet(f, Sells)
      <4>1. g[j] < f[j] /\ \A i \in Sells : g[i] \in Int /\ f[i] \in Int /\ g[i] <= f[i]
        BY <1>1, <1>4, <2>2
      <4> QED BY <1>0, <2>2, <4>1, SumExceeds
    <3>2. shares' = shares - 1
      BY <1>0, <2>1, <2>2 DEF SideSign
    <3> QED BY <1>0, <1>2, <1>3, <3>1, <3>2
  <2>3. CASE j \notin Sells
    <3>1. shares' = shares + 1
      BY <2>1, <2>3 DEF SideSign
    <3> QED BY <1>0, <1>2, <1>3, <3>1
  <2> QED BY <2>2, <2>3
<1>5. CASE shares' = shares
  BY <1>0, <1>2, <1>3, <1>5
<1>6. Hushed \/ Cuts \/ Returns => shares' = shares
  BY DEF Hushed, Cuts, Returns
<1>7. ASSUME NEW j \in Orders, Ends(j) \/ \E r \in net : Gets(j, r) \/ Lands(j, r) \/ Refuses(j, r)
      PROVE  shares' = shares
  BY <1>7 DEF Ends, Gets, Lands, Refuses
<1>8. ~ClosesAll
  BY DEF ClosesAll
<1> QED
  BY <1>0, <1>4, <1>5, <1>6, <1>7, <1>8, OutsideSteps

\* What an order that is sent may sell is what sellLeavesCheck was asked for.
LEMMA SubmitExposes ==
  ASSUME QInv, Does, NEW r \in Requests, net' = net \cup {r}, Submitted(r),
         r.id \in Sells, Covers(r.id)
  PROVE  Exposure(r.id)' = r.qty /\ orders[r.id].exec = 0 /\ venue[r.id].exec = 0
<1> DEFINE i == r.id
<1>0. /\ i \in Orders /\ r.qty \in Qtys /\ r.kind \in SubmitKinds /\ posts[i] = 0
      /\ net \subseteq Requests /\ UNCHANGED venue
      /\ LInv /\ orders[i].exec \in Nat /\ orders[i].exec <= venue[i].exec
      /\ orders[i].status = "NONE" \/ orders[i].held.phase \in Pretrigger
  <2>1. LInv /\ i \in Orders
    BY DEF QInv, SInv, TInv, Requests
  <2>2. orders[i].exec \in Nat /\ orders[i].exec <= venue[i].exec
    BY <2>1, SaidNumbers
  <2>3. r.qty \in Qtys /\ UNCHANGED venue /\ net \subseteq Requests
    BY <2>1, LInvFacts DEF Requests, Does, Quietly, VenueTypeOK
  <2> QED BY <2>1, <2>2, <2>3 DEF Submitted
<1>1. venue[i].st = "none" /\ venue[i].exec = 0 /\ ~AtVenue(i)
  BY <1>0, Numbers
<1>2. orders[i].exec = 0
  BY <1>0, <1>1
<1>3. Replaces(i) = {}
  <2>1. Waits(i)
    BY <1>0 DEF Waits, Early
  <2> QED BY <2>1 DEF Covers
<1>4. \A s \in net : s.id = i => s.kind = "CANCEL"
  <2>1. ASSUME NEW s \in net, s.id = i PROVE s.kind = "CANCEL"
    <3>1. s.kind \notin SubmitKinds
      BY <1>1, <2>1 DEF AtVenue, SubmitInFlight
    <3>2. s.kind # "REPLACE"
      BY <1>3, <2>1 DEF Replaces
    <3>3. s.kind \in RequestKinds
      BY <1>0 DEF Requests
    <3> QED BY <3>1, <3>2, <3>3 DEF RequestKinds
  <2> QED BY <2>1
<1>5. {q \in net' : q.id = i /\ q.kind # "CANCEL"} = {r}
  <2>1. r.kind # "CANCEL"
    BY <1>0 DEF SubmitKinds
  <2> QED BY <1>4, <2>1
<1>6. AtBroker(i)' /\ ~OpenAt(i)'
  BY <1>0, <1>1 DEF AtBroker, OpenAt, SubmitInFlight
<1>7. Sizes(i)' = {r.qty}
  BY <1>5, <1>6 DEF Sizes
<1>8. Left({r.qty}, 0) = r.qty
  <2>1. {r.qty} \in SUBSET Qtys /\ {r.qty} # {} /\ 0 \in Nat /\ r.qty \in Nat
    BY <1>0, QtyAssumption DEF Qtys
  <2>2. PICK q \in {r.qty} : Left({r.qty}, 0) = q - 0
    BY <2>1, LeftParts
  <2> QED BY <2>1, <2>2
<1>9. Exposure(i)' = Left(Sizes(i)', venue'[i].exec)
  BY DEF Exposure, Left
<1> QED
  BY <1>0, <1>1, <1>2, <1>7, <1>8, <1>9

\* So is what an order that is to get larger may sell.
LEMMA ReplaceExposes ==
  ASSUME QInv, Does, NEW i \in Sells, NEW q \in Qtys, Resizes(i, q), Covers(i)
  PROVE  /\ Exposure(i)' \in Int
         /\ \/ Exposure(i)' <= Exposure(i)
            \/ /\ LeavesOk(i, q - orders[i].exec) /\ q - orders[i].exec \in Nat
               /\ Exposure(i)' = (q - orders[i].exec) + (orders[i].exec - venue[i].exec)
<1> DEFINE r == Request("REPLACE", i, q)
<1>0. /\ i \in Orders /\ q \in Nat /\ net' = net \cup {r} /\ UNCHANGED venue
      /\ orders[i].exec \in Nat /\ orders[i].leaves \in Nat /\ venue[i].exec \in Nat
      /\ q > orders[i].exec /\ ~Pends(i)
      /\ q - orders[i].exec > orders[i].leaves => LeavesOk(i, q - orders[i].exec)
  <2>1. LInv /\ i \in Orders
    BY IdsAssumption DEF QInv, SInv, TInv
  <2>2. /\ orders[i].exec \in Nat /\ orders[i].leaves \in Nat /\ venue[i].exec \in Nat /\ q \in Nat
    BY <2>1, Numbers, QtyAssumption DEF Qtys
  <2>3. ~Pends(i)
    BY MayReplace
  <2>4. net' = net \cup {r} /\ ~ReplaceRefused(orders[i], q)
    BY DEF Resizes
  <2>5. UNCHANGED venue
    BY DEF Does, Quietly
  <2>6. q - orders[i].exec > orders[i].leaves => LeavesOk(i, q - orders[i].exec)
    BY DEF Resizes, Guarded
  <2>7. q > orders[i].exec
    BY <2>2, <2>4 DEF ReplaceRefused
  <2> QED BY <2>1, <2>2, <2>3, <2>4, <2>5, <2>6, <2>7
<1>1. r.kind = "REPLACE" /\ r.id = i /\ r.qty = q
  BY DEF Request
<1> HIDE DEF r
<1>2. AtBroker(i)' <=> AtBroker(i)
  BY <1>0, <1>1 DEF AtBroker, OpenAt, SubmitInFlight, SubmitKinds
<1>3. /\ Sizes(i) \in SUBSET Qtys /\ Exposure(i) = Left(Sizes(i), venue[i].exec)
      /\ Exposure(i) \in Int /\ (Sizes(i) # {} <=> AtBroker(i))
  BY <1>0, ExposureParts
<1>4. Exposure(i)' = Left(Sizes(i)', venue[i].exec)
  BY <1>0 DEF Exposure, Left
<1>5. CASE ~AtBroker(i)
  <2>1. Sizes(i)' = {} /\ Sizes(i) = {}
    BY <1>2, <1>5 DEF Sizes
  <2> QED BY <1>3, <1>4, <2>1
<1>6. CASE AtBroker(i)
  <2>1. Sizes(i)' = Sizes(i) \cup {q}
    <3>1. {s \in net' : s.id = i /\ s.kind # "CANCEL"}
            = {s \in net : s.id = i /\ s.kind # "CANCEL"} \cup {r}
      BY <1>0, <1>1
    <3> QED BY <1>0, <1>1, <1>2, <1>6, <3>1 DEF Sizes, OpenAt
  <2>2. Sizes(i)' \in SUBSET Qtys /\ Sizes(i)' # {}
    BY <1>3, <2>1
  <2>3. PICK s \in Sizes(i)' : Exposure(i)' = s - venue[i].exec
    BY <1>0, <1>4, <2>2, LeftParts
  <2>4. \A t \in Sizes(i) : t \in Nat /\ t - venue[i].exec <= Exposure(i)
    BY <1>0, <1>3, LeftParts, QtyAssumption DEF Qtys
  <2>5. CASE s \in Sizes(i)
    BY <1>0, <2>3, <2>4, <2>5
  <2>6. CASE s = q /\ q - orders[i].exec > orders[i].leaves
    BY <1>0, <2>3, <2>6
  <2>7. CASE s = q /\ ~(q - orders[i].exec > orders[i].leaves)
    <3>1. PICK t \in Sizes(i) : orders[i].exec + orders[i].leaves <= t
      BY <1>0, <1>6 DEF Covers
    <3>2. t \in Nat /\ t - venue[i].exec <= Exposure(i)
      BY <2>4, <3>1
    <3> QED BY <1>0, <1>3, <2>3, <2>7, <3>1, <3>2
  <2> QED BY <2>1, <2>3, <2>5, <2>6, <2>7
<1> QED
  BY <1>5, <1>6

\* A step of the core's own.
LEMMA OwnSells ==
  ASSUME HInv, Does, IsFiniteSet(Orders), \A j \in Sells : Covers(j) /\ Room(j), Owned
  PROVE  Owned'
<1>0. /\ QInv /\ UNCHANGED <<venue, shares>> /\ Sells \subseteq Orders /\ IsFiniteSet(Sells)
      /\ shares \in Int
  <2>1. QInv /\ LInv
    BY DEF HInv, QInv, SInv, TInv
  <2> QED BY <2>1, IdsAssumption, FS_Subset, LInvFacts DEF Does, Quietly, VenueTypeOK
<1>1. CASE OnlyCancels
  BY <1>0, <1>1, IdleSells DEF OnlyCancels
<1>2. ASSUME NEW r \in Requests, net' = net \cup {r}, Asked(r) PROVE Owned'
  <2> DEFINE i == r.id
             f == [j \in Orders |-> Exposure(j)]
             g == [j \in Orders |-> Exposure(j)']
  <2>1. CASE i \notin Sells
    BY <1>0, <1>2, <2>1, IdleSells
  <2>2. CASE i \in Sells
    <3>0. /\ Owned' <=> SumFunctionOnSet(g, Sells) <= shares'
          /\ SumFunctionOnSet(f, Sells) <= shares
      BY DEF Owned
    <3>1. ASSUME NEW j \in Sells, j # i PROVE g[j] = f[j]
      <4>1. j \in Orders /\ net \subseteq net' /\ \A s \in net' : s \in net \/ s.kind = "CANCEL" \/ s.id # j
        BY <1>0, <1>2, <3>1
      <4>2. Exposure(j)' = Exposure(j)
        BY <1>0, <4>1, CancelsSame
      <4> QED BY <4>1, <4>2
    <3>2. \A j \in Sells : f[j] \in Int /\ f[j] = Exposure(j) /\ g[j] = Exposure(j)'
      BY <1>0, ExposureParts
    <3> HIDE DEF f, g
    <3>3. ASSUME g[i] \in Int, g[i] <= f[i] PROVE Owned'
      <4>1. \A j \in Sells : f[j] \in Int /\ g[j] \in Int /\ g[j] <= f[j]
        <5>1. ASSUME NEW j \in Sells PROVE f[j] \in Int /\ g[j] \in Int /\ g[j] <= f[j]
          BY <3>1, <3>2, <3>3
        <5> QED BY <5>1
      <4>2. /\ SumFunctionOnSet(g, Sells) <= SumFunctionOnSet(f, Sells)
            /\ SumFunctionOnSet(g, Sells) \in Int /\ SumFunctionOnSet(f, Sells) \in Int
        BY <1>0, <4>1, SumRises, SumType
      <4> QED BY <1>0, <3>0, <4>2
    <3>4. ASSUME NEW q \in Nat, LeavesOk(i, q), g[i] = q + (orders[i].exec - venue[i].exec)
          PROVE  Owned'
      <4>1. SumFunctionOnSet(Granting(i, q), Sells) <= shares
        BY <2>2, <3>4, Grants
      <4>2. \A j \in Sells : g[j] = Granting(i, q)[j]
        BY <1>0, <2>2, <3>1, <3>2, <3>4 DEF Granting
      <4>3. SumFunctionOnSet(g, Sells) = SumFunctionOnSet(Granting(i, q), Sells)
        BY <1>0, <4>2, SumSame
      <4> QED BY <1>0, <3>0, <4>1, <4>3
    <3>5. CASE Submitted(r)
      <4>1. g[i] = r.qty /\ orders[i].exec = 0 /\ venue[i].exec = 0 /\ r.qty \in Nat
        BY <1>0, <1>2, <2>2, <3>2, <3>5, SubmitExposes, QtyAssumption DEF Requests, Qtys
      <4>2. LeavesOk(i, r.qty) /\ g[i] = r.qty + (orders[i].exec - venue[i].exec)
        BY <2>2, <3>5, <4>1 DEF Submitted, Guarded
      <4> QED BY <3>4, <4>1, <4>2
    <3>6. CASE Resizes(i, r.qty)
      <4>1. r.qty \in Qtys
        BY DEF Requests
      <4>2. /\ g[i] \in Int
            /\ \/ g[i] <= f[i]
               \/ /\ LeavesOk(i, r.qty - orders[i].exec) /\ r.qty - orders[i].exec \in Nat
                  /\ g[i] = (r.qty - orders[i].exec) + (orders[i].exec - venue[i].exec)
        BY <1>0, <2>2, <3>2, <3>6, <4>1, ReplaceExposes
      <4> QED BY <3>3, <3>4, <4>2
    <3> QED BY <1>2, <3>5, <3>6 DEF Asked
  <2> QED BY <2>1, <2>2
<1> QED
  BY <1>1, <1>2 DEF Does, Sent

BInv == HInv /\ (\A i \in Sells : Room(i)) /\ Owned

LEMMA NextSells ==
  ASSUME BInv, QInv', Clear', IsFiniteSet(Orders), Lasting, \A i \in Sells : Covers(i), [Next]_vars
  PROVE  BInv'
<1>0. /\ HInv /\ QInv /\ LInv /\ NoLateWord /\ up /\ ~closing /\ Owned
      /\ Sells \subseteq Orders /\ "flatten" \notin Commands
      /\ \A i \in Sells : Covers(i) /\ Room(i)
  BY IdsAssumption DEF BInv, HInv, Counted, QInv, SInv, TInv, Rest, Lasting
<1>1. HInv'
  BY <1>0, NextBacked
<1>2. (UNCHANGED venue \/ Outside) => \A i \in Sells : Room(i)'
  BY <1>0, NextRoom
<1>3. CASE UNCHANGED vars
  <2>1. UNCHANGED <<venue, shares, net>>
    BY <1>3 DEF vars, venueVars, brokerVars
  <2> QED BY <1>0, <1>1, <1>2, <2>1, IdleSells DEF BInv
<1>4. CASE OwnStep
  <2>1. Does
    BY <1>0, <1>4, OwnSteps
  <2>2. UNCHANGED venue
    BY <2>1 DEF Does, Quietly
  <2> QED BY <1>0, <1>1, <1>2, <2>1, <2>2, OwnSells DEF BInv
<1>5. CASE StreamEvent
  <2>1. UNCHANGED <<venue, shares>>
    BY <1>0, <1>5, TakeParts
  <2>2. net \subseteq net' /\ \A r \in net' : r \in net \/ r.kind = "CANCEL"
    <3>1. OnLives => OnlyCancels
      BY SentCancels DEF OnLives, FoldLives
    <3>2. StreamEvent /\ ~OnLives => UNCHANGED net
      BY DEF StreamEvent, OnPosition, OnPositions, OnOpenOrders, OnStreamBreak
    <3> QED BY <1>5, <3>1, <3>2 DEF OnlyCancels
  <2> QED BY <1>0, <1>1, <1>2, <2>1, <2>2, IdleSells DEF BInv
<1>6. CASE Process
  BY <1>0, <1>6, NoProcess
<1>7. CASE Outside
  BY <1>0, <1>1, <1>2, <1>7, OutsideSells DEF BInv
<1> QED
  BY <1>0, <1>3, <1>4, <1>5, <1>6, <1>7, StepKinds

LEMMA InitSells ==
  ASSUME Init, QInv, IsFiniteSet(Orders), Opening >= 0
  PROVE  BInv
<1>0. /\ HInv /\ net = {} /\ venue = [i \in Orders |-> NoVenueOrder] /\ shares = Opening
      /\ Sells \subseteq Orders /\ IsFiniteSet(Sells)
  <2>1. HInv
    BY InitBacked
  <2>2. net = {} /\ venue = [i \in Orders |-> NoVenueOrder] /\ shares = Opening
    BY DEF Init, VenueInit
  <2> QED BY <2>1, <2>2, IdsAssumption, FS_Subset
<1>1. \A i \in Orders : venue[i].exec = 0 /\ venue[i].qty = 0 /\ venue[i].st = "none"
  BY <1>0 DEF NoVenueOrder
<1>2. \A i \in Sells : Room(i)
  <2>1. ASSUME NEW i \in Sells PROVE venue[i].exec = 0 /\ venue[i].qty = 0
    BY <1>0, <1>1
  <2>2. 0 <= 0
    OBVIOUS
  <2> QED BY <2>1, <2>2 DEF Room
<1> DEFINE f == [i \in Orders |-> Exposure(i)]
<1>3. \A i \in Sells : f[i] = 0
  <2>1. ASSUME NEW i \in Sells PROVE Exposure(i) = 0
    <3>1. ~AtBroker(i)
      BY <1>0, <1>1 DEF AtBroker, OpenAt, SubmitInFlight
    <3> QED BY <3>1 DEF Exposure, Sizes
  <2> QED BY <1>0, <2>1
<1>4. Owned <=> SumFunctionOnSet(f, Sells) <= shares
  BY DEF Owned
<1> HIDE DEF f
<1>5. SumFunctionOnSet(f, Sells) = SumFunctionOnSet(f, {})
  <2>1. \A i \in Sells : f[i] \in Int
    <3>1. 0 \in Int
      OBVIOUS
    <3> QED BY <1>3, <3>1, Zenon
  <2>2. {} \in SUBSET Sells /\ \A i \in Sells \ {} : f[i] = 0
    BY <1>3
  <2> QED BY <1>0, <2>1, <2>2, SumOfPart
<1>6. Owned
  BY <1>0, <1>4, <1>5, SumEmpty
<1> QED
  BY <1>0, <1>2, <1>6 DEF BInv

\* The account never sells what it does not hold: sellLeavesCheck commits, before
\* it lets an order go, what every other order may still sell, and the position it
\* reads is never ahead of the broker's, whatever of the stream is lost, replayed
\* or read again.  Here no replace is asked for, nobody flattens and the engine
\* never stops.  The property speaks while no list showed an open SELL under a
\* status the core does not count as working.
THEOREM UnresizedNoOversell ==
  ASSUME IsFiniteSet(Orders), Opening >= 0, Lasting, "replace" \notin Commands
  PROVE  Spec => []NoOversell
<1>1. Spec => []FInv
  BY FixedInvariant DEF Lasting
<1>2. FInv => QInv /\ (Clear => \A i \in Sells : Covers(i))
  BY FixedCovers DEF FInv, Clear
<1>3. Init /\ QInv => BInv
  BY InitSells
<1>4. /\ Clear => BInv
      /\ QInv' /\ (Clear => \A i \in Sells : Covers(i)) /\ [Next]_vars
      => (Clear => BInv)'
  <2>1. [Next]_vars /\ Clear' => Clear
    BY MisreadGrows DEF Clear
  <2> QED BY <2>1, NextSells
<1>5. (Clear => BInv) => NoOversell
  BY DEF BInv, Clear, Owned, NoOversell
<1> QED
  BY <1>1, <1>2, <1>3, <1>4, <1>5, PTL DEF Spec

\* No SELL was over by the time its submit returned either.
Unwound == Clear /\ Sells \cap rewound = {}

\* The same where replaces are asked for and no cancel overwrites one: the check
\* of handleReplaceSingle covers the larger of both sizes until the broker says
\* which one it took.  It speaks while no SELL was over by the time SubmitOrder
\* returned: what a reconnect says of such an order may make it work in the core
\* again, at a size the broker no longer has.
THEOREM ResizedNoOversell ==
  ASSUME IsFiniteSet(Orders), Opening >= 0, Uneventful
  PROVE  Spec => [](Sells \cap rewound = {} => NoOversell)
<1>0. Lasting
  BY DEF Uneventful, Lasting
<1>1. Spec => []RInv
  BY SizedInvariant
<1>2. RInv => QInv /\ (Unwound => \A i \in Sells : Covers(i))
  <2>1. Unwound => \A i \in Sells : i \in Known
    BY IdsAssumption DEF Unwound, Clear, Known, Firm
  <2> QED BY <2>1, SizedCovers DEF RInv
<1>3. Init /\ QInv => BInv
  BY InitSells
<1>4. /\ Unwound => BInv
      /\ QInv' /\ (Unwound => \A i \in Sells : Covers(i)) /\ [Next]_vars
      => (Unwound => BInv)'
  <2>1. [Next]_vars /\ Unwound' => Unwound /\ Clear'
    BY MisreadGrows DEF Unwound, Clear
  <2> QED BY <1>0, <2>1, NextSells
<1>5. (Unwound => BInv) => (Sells \cap rewound = {} => NoOversell)
  BY DEF BInv, Unwound, Clear, Owned, NoOversell
<1> QED
  BY <1>1, <1>2, <1>3, <1>4, <1>5, PTL DEF Spec
=============================================================================
