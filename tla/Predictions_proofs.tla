-------------------------- MODULE Predictions_proofs --------------------------
(***************************************************************************)
(* Proofs about predictions: types, the records, the finality of an         *)
(* outcome, who is let in, and the notices, for any bets, readers and        *)
(* numbers of requests at once; and about the pages over them.              *)
(***************************************************************************)
EXTENDS Pages, FiniteSetTheorems, TLAPS

(* A row and its result: one is settled exactly when the other is there, and *)
(* a row that does not exist yet carries nothing.                          *)
RowsHold ==
  \A b \in Bets :
    /\ bets[b].status = "NONE" => bets[b] = NoBet
    /\ bets[b].status # "NONE" => bets[b].visibility \in Visibilities
    /\ results[b] = None => bets[b].status \in {"NONE", "PENDING"}
    /\ results[b] # None => bets[b].status = results[b].outcome /\ Published(b)
    /\ Published(b) => bets[b].publishedAt < Kickoff[b]

(* What each request has read still holds of the row it is about to write,   *)
(* or held when it was read and cannot be undone.                          *)
ReadHolds(q) ==
  /\ q.does # "nothing" => q.bet \in Bets
  /\ q.does = "nothing" => q = Idle
  /\ q.does = "post" => /\ bets[q.bet] = NoBet /\ q.says \in Visibilities
                        /\ q.at # None => q.at < Kickoff[q.bet]
  /\ q.does = "publish" => /\ bets[q.bet].status # "NONE"
                           /\ q.at \in Nat /\ q.at < Kickoff[q.bet]
  /\ q.does \in {"announce", "finish", "settle"} => Published(q.bet)
  /\ q.does = "finish" => q.says \in {"WON", "LOST"}
  /\ q.does = "settle" => q.says \in Outcomes
  /\ q.does = "tell" => results[q.bet] # None

(* No two requests are posting one bet: the second would need a row that is  *)
(* not there yet.                                                          *)
OnePost ==
  \A r, s \in Requests :
    request[r].does = "post" /\ request[s].does = "post" /\ request[r].bet = request[s].bet
      => r = s

IInv == /\ PredictionsTypeOK
        /\ RowsHold
        /\ \A r \in Requests : ReadHolds(request[r])
        /\ OnePost

LEMMA Shapes == NoBet \in Rows /\ Idle \in Reads
  BY DEF NoBet, Idle, Rows, Reads, Times

LEMMA InitIInv == Init => IInv
<1> SUFFICES ASSUME Init PROVE IInv
  OBVIOUS
<1> USE DEF Init
<1>1. PredictionsTypeOK
  <2>1. now \in 0..MaxTime
    BY PredictionsAssumption
  <2>2. bets \in [Bets -> Rows]
    BY Shapes
  <2>3. request \in [Requests -> Reads]
    BY Shapes
  <2>4. checkouts \subseteq Readers \X Bets
    OBVIOUS
  <2>5. results \in [Bets -> Results \union {None}]
    OBVIOUS
  <2>6. forSale \in BOOLEAN
    OBVIOUS
  <2>7. announced \in [Bets -> 0..2] /\ told \in [Bets -> 0..2]
        /\ subscription \in [Readers -> {"NONE", "PENDING", "ACTIVE", "LAPSED"}]
    OBVIOUS
  <2> QED
    BY <2>1, <2>2, <2>3, <2>4, <2>5, <2>6, <2>7 DEF PredictionsTypeOK
<1>2. RowsHold
  BY PredictionsAssumption DEF RowsHold, Published, NoBet
<1>3. \A r \in Requests : ReadHolds(request[r])
  BY DEF ReadHolds, Idle
<1>4. OnePost
  BY DEF OnePost, Idle
<1> QED
  BY <1>1, <1>2, <1>3, <1>4 DEF IInv
-----------------------------------------------------------------------------
(* A step that changes one request at most, and no row, keeps everything    *)
(* when what that request says now holds of the row it names.               *)
LEMMA OneRequestMoves ==
  ASSUME IInv, NEW r \in Requests, NEW q,
         request' = [request EXCEPT ![r] = q],
         UNCHANGED <<bets, results>>,
         PredictionsTypeOK', ReadHolds(q),
         q.does = "post" => ~Busy("post", q.bet)
  PROVE  IInv'
<1> USE DEF IInv
<1>1. RowsHold'
  BY DEF RowsHold, Published
<1>2. ASSUME NEW s \in Requests PROVE ReadHolds(request[s])'
  BY DEF PredictionsTypeOK, Reads, ReadHolds, Published
<1>3. OnePost'
  BY DEF OnePost, Busy, PredictionsTypeOK
<1> QED
  BY <1>1, <1>2, <1>3

LEMMA PostKeeps ==
  ASSUME IInv, NEW r \in Requests, NEW b \in Bets, NEW visibility \in Visibilities,
         NEW publishNow \in BOOLEAN, StartPost(r, b, visibility, publishNow)
  PROVE  IInv'
<1> DEFINE q == [does |-> "post", bet |-> b, at |-> IF publishNow THEN now ELSE None,
                 says |-> visibility]
<1> USE PredictionsAssumption DEF StartPost, Ask, marketVars
<1>1. request' = [request EXCEPT ![r] = q]
  OBVIOUS
<1>2. now \in Nat /\ now \in Times
  BY DEF IInv, PredictionsTypeOK, Times
<1>3. PredictionsTypeOK'
  <2>1. q \in Reads
    BY <1>2 DEF Reads, Times
  <2> QED
    BY <1>1, <2>1 DEF IInv, PredictionsTypeOK
<1>4. ReadHolds(q)
  BY <1>2 DEF ReadHolds, KickoffRefusal
<1>5. ~Busy("post", q.bet)
  OBVIOUS
<1> QED
  BY <1>1, <1>3, <1>4, <1>5, OneRequestMoves

LEMMA CreateKeeps == ASSUME IInv, NEW r \in Requests, CreateRow(r) PROVE IInv'
<1> DEFINE b == request[r].bet
           row == [status |-> "PENDING", publishedAt |-> request[r].at, finishedAt |-> None,
                   claim |-> None, visibility |-> request[r].says]
<1>0. /\ b \in Bets /\ bets[b] = NoBet /\ request[r].says \in Visibilities
      /\ request[r].at \in Times
      /\ request[r].at # None => request[r].at < Kickoff[b]
  BY DEF CreateRow, IInv, PredictionsTypeOK, Reads, ReadHolds
<1>1. bets' = [bets EXCEPT ![b] = row]
  BY DEF CreateRow
<1> USE DEF CreateRow, Ask, marketVars
<1>2. PredictionsTypeOK'
  <2>1. row \in Rows
    BY <1>0 DEF Rows, Times
  <2>2. [does |-> "announce", bet |-> b, at |-> None, says |-> None] \in Reads
    BY <1>0 DEF Reads, Times
  <2>3. bets' \in [Bets -> Rows]
    BY <1>1, <2>1 DEF IInv, PredictionsTypeOK
  <2>4. request' \in [Requests -> Reads]
    BY <2>2, Shapes DEF IInv, PredictionsTypeOK
  <2> QED
    BY <2>3, <2>4 DEF IInv, PredictionsTypeOK
<1>3. RowsHold'
  BY PredictionsAssumption, <1>0, <1>1 DEF IInv, PredictionsTypeOK, RowsHold, Published, NoBet
<1>4. ASSUME NEW s \in Requests PROVE ReadHolds(request[s])'
  <2>1. CASE s = r
    BY PredictionsAssumption, <1>0, <1>1, <2>1 DEF IInv, PredictionsTypeOK, ReadHolds, Published, Idle
  <2>2. CASE s # r
    <3>1. request'[s] = request[s] /\ ReadHolds(request[s])
      BY <2>2 DEF IInv, PredictionsTypeOK
    <3>2. request[s].does = "post" => request[s].bet # b
      BY <2>2 DEF IInv, OnePost
    <3> QED
      BY PredictionsAssumption, <1>0, <1>1, <3>1, <3>2
      DEF IInv, PredictionsTypeOK, ReadHolds, Published, NoBet, Idle
  <2> QED
    BY <2>1, <2>2
<1>5. OnePost'
  BY DEF IInv, PredictionsTypeOK, OnePost, Idle
<1> QED
  BY <1>2, <1>3, <1>4, <1>5 DEF IInv
LEMMA StartPublishKeeps ==
  ASSUME IInv, NEW r \in Requests, NEW b \in Bets, StartPublish(r, b) PROVE IInv'
<1> DEFINE q == [does |-> "publish", bet |-> b, at |-> now, says |-> None]
<1> USE DEF StartPublish, Ask, marketVars
<1>1. request' = [request EXCEPT ![r] = q]
  OBVIOUS
<1>2. now \in Nat /\ now \in Times /\ q \in Reads
  BY PredictionsAssumption DEF IInv, PredictionsTypeOK, Times, Reads
<1>3. PredictionsTypeOK'
  BY <1>1, <1>2 DEF IInv, PredictionsTypeOK
<1>4. ReadHolds(q)
  BY <1>2, PredictionsAssumption DEF ReadHolds, Publishable, KickoffRefusal
<1> QED
  BY <1>1, <1>3, <1>4, OneRequestMoves

LEMMA WritePublishedKeeps ==
  ASSUME IInv, NEW r \in Requests, WritePublished(r) PROVE IInv'
<1> DEFINE b == request[r].bet
           q == [does |-> "announce", bet |-> b, at |-> None, says |-> None]
<1>0. /\ b \in Bets /\ bets[b].status # "NONE"
      /\ request[r].at \in Nat /\ request[r].at \in Times
      /\ request[r].at < Kickoff[b]
  BY DEF WritePublished, IInv, PredictionsTypeOK, Reads, ReadHolds
<1> USE DEF WritePublished, Ask, marketVars
<1>1. PredictionsTypeOK'
  <2>1. q \in Reads
    BY <1>0 DEF Reads, Times
  <2>2. bets' \in [Bets -> Rows]
    BY <1>0 DEF IInv, PredictionsTypeOK, Rows
  <2> QED
    BY <2>1, <2>2 DEF IInv, PredictionsTypeOK
<1>2. RowsHold'
  BY <1>0, PredictionsAssumption DEF IInv, PredictionsTypeOK, Rows, RowsHold, Published, NoBet
<1>3. ASSUME NEW s \in Requests PROVE ReadHolds(request[s])'
  <2>1. CASE s = r
    BY <1>0, <2>1, PredictionsAssumption
    DEF IInv, PredictionsTypeOK, Rows, ReadHolds, Published
  <2>2. CASE s # r
    <3>1. request'[s] = request[s] /\ ReadHolds(request[s])
      BY <2>2 DEF IInv, PredictionsTypeOK
    <3>2. bets[b] # NoBet
      BY <1>0 DEF NoBet
    <3> QED
      BY <1>0, <3>1, <3>2, PredictionsAssumption
      DEF IInv, PredictionsTypeOK, Rows, ReadHolds, Published
  <2> QED
    BY <2>1, <2>2
<1>4. OnePost'
  BY DEF IInv, PredictionsTypeOK, OnePost
<1> QED
  BY <1>1, <1>2, <1>3, <1>4 DEF IInv

(* Giving a notice, and dying, let go of what was read.                     *)
LEMMA LettingGoKeeps ==
  ASSUME IInv, NEW r \in Requests, Announce(r) \/ TellSettled(r) \/ Die(r) PROVE IInv'
<1> USE DEF Announce, TellSettled, Die, marketVars
<1>1. request' = [request EXCEPT ![r] = Idle] /\ UNCHANGED <<bets, results>>
  OBVIOUS
<1>2. announced' \in [Bets -> 0..2] /\ told' \in [Bets -> 0..2]
  BY DEF IInv, PredictionsTypeOK, Once
<1>3. PredictionsTypeOK'
  BY <1>1, <1>2, Shapes DEF IInv, PredictionsTypeOK
<1>4. ReadHolds(Idle) /\ Idle.does # "post"
  BY DEF ReadHolds, Idle
<1> QED
  BY <1>1, <1>3, <1>4, OneRequestMoves

LEMMA StartFinishKeeps ==
  ASSUME IInv, NEW r \in Requests, NEW b \in Bets, NEW claim \in {"WON", "LOST"},
         StartFinish(r, b, claim)
  PROVE  IInv'
<1> DEFINE q == [does |-> "finish", bet |-> b, at |-> bets[b].finishedAt, says |-> claim]
<1> USE DEF StartFinish, Ask, marketVars
<1>1. request' = [request EXCEPT ![r] = q]
  OBVIOUS
<1>2. q \in Reads
  BY DEF IInv, PredictionsTypeOK, Rows, Reads, Settled
<1>3. PredictionsTypeOK'
  BY <1>1, <1>2 DEF IInv, PredictionsTypeOK
<1>4. ReadHolds(q)
  BY DEF ReadHolds, Open
<1> QED
  BY <1>1, <1>3, <1>4, OneRequestMoves

LEMMA StartSettleKeeps ==
  ASSUME IInv, NEW r \in Requests, NEW b \in Bets, NEW outcome \in Outcomes,
         StartSettle(r, b, outcome)
  PROVE  IInv'
<1> DEFINE q == [does |-> "settle", bet |-> b, at |-> None, says |-> outcome]
<1> USE DEF StartSettle, Ask, marketVars
<1>1. request' = [request EXCEPT ![r] = q]
  OBVIOUS
<1>2. q \in Reads
  BY PredictionsAssumption DEF Reads, Times
<1>3. PredictionsTypeOK'
  BY <1>1, <1>2 DEF IInv, PredictionsTypeOK
<1>4. ReadHolds(q)
  BY DEF ReadHolds, Open
<1> QED
  BY <1>1, <1>3, <1>4, OneRequestMoves

LEMMA WriteFinishedKeeps ==
  ASSUME IInv, NEW r \in Requests, WriteFinished(r) PROVE IInv'
<1> DEFINE b == request[r].bet
<1>0. /\ b \in Bets /\ Published(b) /\ request[r].says \in {"WON", "LOST"}
      /\ request[r].at \in Times /\ now \in Times
  BY PredictionsAssumption
  DEF WriteFinished, IInv, PredictionsTypeOK, Reads, ReadHolds, Times
<1> USE DEF WriteFinished, FinishedRow, marketVars
<1>1. PredictionsTypeOK'
  <2>1. bets[b] \in Rows
    BY <1>0 DEF IInv, PredictionsTypeOK
  <2>2. FinishedRow(bets[b], request[r]) \in Rows
    BY <1>0, <2>1 DEF Rows
  <2>3. bets' \in [Bets -> Rows]
    BY <1>0, <2>2 DEF IInv, PredictionsTypeOK
  <2> QED
    BY <2>3, Shapes DEF IInv, PredictionsTypeOK
<1>2. \A c \in Bets : /\ bets'[c].status = bets[c].status
                      /\ bets'[c].publishedAt = bets[c].publishedAt
                      /\ bets'[c].visibility = bets[c].visibility
                      /\ bets[c] = NoBet => bets'[c] = bets[c]
                      /\ bets[c].status = "NONE" => bets'[c] = bets[c]
  BY <1>0 DEF IInv, PredictionsTypeOK, Rows, RowsHold, Published, NoBet
<1>3. RowsHold'
  BY <1>2 DEF IInv, RowsHold, Published
<1>4. ASSUME NEW s \in Requests PROVE ReadHolds(request[s])'
  <2>1. CASE s = r
    BY <2>1 DEF IInv, PredictionsTypeOK, ReadHolds, Idle
  <2>2. CASE s # r
    <3>1. request'[s] = request[s] /\ ReadHolds(request[s])
      BY <2>2 DEF IInv, PredictionsTypeOK
    <3> QED
      BY <1>2, <3>1 DEF ReadHolds, Published
  <2> QED
    BY <2>1, <2>2
<1>5. OnePost'
  BY DEF IInv, PredictionsTypeOK, OnePost, Idle
<1> QED
  BY <1>1, <1>3, <1>4, <1>5 DEF IInv

(* What a settlement writes is a result.                                   *)
LEMMA ProfitIsResult ==
  ASSUME NEW outcome \in Outcomes, NEW b \in Bets
  PROVE  [outcome |-> outcome, profit |-> ComputeProfitUnitsCenti(outcome, Odds[b])] \in Results
<1>1. Odds[b] \in Int
  BY PredictionsAssumption
<1>2. Rounded(Stake * (Odds[b] - 1000), 1000) \in Int
  BY <1>1 DEF Rounded, Stake
<1>3. ComputeProfitUnitsCenti(outcome, Odds[b]) \in Int
  BY <1>2 DEF ComputeProfitUnitsCenti, Stake
<1> QED
  BY <1>3 DEF Results

LEMMA WriteSettledKeeps ==
  ASSUME IInv, NEW r \in Requests, WriteSettled(r) PROVE IInv'
<1> DEFINE b == request[r].bet
           outcome == request[r].says
           q == [does |-> "tell", bet |-> b, at |-> None, says |-> None]
           res == [outcome |-> outcome, profit |-> ComputeProfitUnitsCenti(outcome, Odds[b])]
<1>0. b \in Bets /\ Published(b) /\ outcome \in Outcomes /\ now \in Times
  BY PredictionsAssumption
  DEF WriteSettled, IInv, PredictionsTypeOK, Reads, ReadHolds, Times
<1>1. CASE ~MaySettle(b)
  <2>1. request' = [request EXCEPT ![r] = Idle] /\ UNCHANGED <<bets, results>>
    BY <1>1 DEF WriteSettled
  <2>2. PredictionsTypeOK'
    BY <2>1, Shapes DEF WriteSettled, marketVars, IInv, PredictionsTypeOK
  <2>3. ReadHolds(Idle) /\ Idle.does # "post"
    BY DEF ReadHolds, Idle
  <2> QED
    BY <2>1, <2>2, <2>3, OneRequestMoves
<1>2. CASE MaySettle(b)
  <2>1. /\ results[b] = None
        /\ results' = [results EXCEPT ![b] = res]
        /\ bets' = [bets EXCEPT ![b].status = outcome, ![b].finishedAt = now]
        /\ request' = [request EXCEPT ![r] = q]
        /\ UNCHANGED <<now, announced, told, doubled, marketVars>>
    BY <1>2 DEF WriteSettled, MaySettle, Ask
  <2>2. res \in Results /\ res # None
    <3>1. res \in Results
      BY <1>0, ProfitIsResult
    <3> QED
      BY <3>1, PredictionsAssumption DEF Results
  <2>3. /\ bets'[b].status = outcome /\ bets'[b].publishedAt = bets[b].publishedAt
        /\ bets'[b].visibility = bets[b].visibility
        /\ \A c \in Bets \ {b} : bets'[c] = bets[c]
    BY <1>0, <2>1 DEF IInv, PredictionsTypeOK, Rows
  <2>4. bets[b].status = "PENDING"
    BY <1>0, <2>1 DEF IInv, RowsHold, Published, NoBet
  <2>5. PredictionsTypeOK'
    <3>1. bets' \in [Bets -> Rows]
      <4>1. bets[b] \in Rows /\ bets \in [Bets -> Rows]
        BY <1>0 DEF IInv, PredictionsTypeOK
      <4>2. [bets[b] EXCEPT !.status = outcome, !.finishedAt = now] \in Rows
        BY <1>0, <4>1 DEF Rows
      <4>3. bets' = [bets EXCEPT ![b] = [bets[b] EXCEPT !.status = outcome, !.finishedAt = now]]
        BY <1>0, <2>1, <4>1
      <4> QED
        BY <4>1, <4>2, <4>3
    <3>2. q \in Reads
      BY <1>0 DEF Reads, Times
    <3>3. results' \in [Bets -> Results \union {None}]
      BY <2>1, <2>2 DEF IInv, PredictionsTypeOK
    <3> QED
      BY <2>1, <3>1, <3>2, <3>3 DEF marketVars, IInv, PredictionsTypeOK
  <2>6. RowsHold'
    <3>1. outcome \in Settled /\ outcome # "NONE" /\ outcome # "PENDING"
      BY <1>0, PredictionsAssumption DEF Settled
    <3>2. results'[b] = res /\ \A c \in Bets \ {b} : results'[c] = results[c]
      BY <1>0, <2>1 DEF IInv, PredictionsTypeOK
    <3> QED
      BY <1>0, <2>2, <2>3, <2>4, <3>1, <3>2 DEF IInv, RowsHold, Published
  <2>7. ASSUME NEW s \in Requests PROVE ReadHolds(request[s])'
    <3>1. CASE s = r
      BY <1>0, <2>1, <2>2, <3>1 DEF IInv, PredictionsTypeOK, ReadHolds
    <3>2. CASE s # r
      <4>1. request'[s] = request[s] /\ ReadHolds(request[s])
        BY <2>1, <3>2 DEF IInv, PredictionsTypeOK
      <4>2. bets[b] # NoBet
        BY <2>4 DEF NoBet
      <4>3. outcome # "NONE"
        BY <1>0, PredictionsAssumption DEF Settled
      <4>4. \A c \in Bets : results[c] # None => results'[c] # None
        BY <2>1, <2>2 DEF IInv, PredictionsTypeOK
      <4> QED
        BY <2>3, <4>1, <4>2, <4>3, <4>4 DEF ReadHolds, Published
    <3> QED
      BY <3>1, <3>2
  <2>8. OnePost'
    BY <2>1 DEF IInv, PredictionsTypeOK, OnePost
  <2> QED
    BY <2>5, <2>6, <2>7, <2>8 DEF IInv
<1> QED
  BY <1>1, <1>2

(* The market, the clock and the administrator leave rows and requests be.   *)
LEMMA ElsewhereKeeps ==
  ASSUME IInv, UNCHANGED <<bets, results, request, announced, told, doubled>>,
         now' \in 0..MaxTime, forSale' \in BOOLEAN,
         subscription' \in [Readers -> {"NONE", "PENDING", "ACTIVE", "LAPSED"}],
         standing' \in {"APPROVED", "SUSPENDED"},
         checkouts' \subseteq Readers \X Bets, bought' \subseteq Readers \X Bets
  PROVE  IInv'
<1>1. PredictionsTypeOK'
  BY DEF IInv, PredictionsTypeOK
<1>2. RowsHold' /\ OnePost'
  BY DEF IInv, RowsHold, Published, OnePost
<1>3. \A r \in Requests : ReadHolds(request[r])'
  BY DEF IInv, ReadHolds, Published
<1> QED
  BY <1>1, <1>2, <1>3 DEF IInv

(* The steps of Next, request by request and reader by reader.              *)
RequestStep(r) ==
  \/ \E b \in Bets :
       \/ \E visibility \in Visibilities, publishNow \in BOOLEAN :
            StartPost(r, b, visibility, publishNow)
       \/ StartPublish(r, b)
       \/ \E claim \in {"WON", "LOST"} : StartFinish(r, b, claim)
       \/ \E outcome \in Outcomes : StartSettle(r, b, outcome)
  \/ CreateRow(r) \/ WritePublished(r) \/ Announce(r) \/ WriteFinished(r)
  \/ WriteSettled(r) \/ TellSettled(r) \/ Die(r)

MarketStep ==
  \/ \E v \in Readers :
       \/ ChangeSubscription(v)
       \/ \E b \in Bets : StartTicketPurchase(v, b) \/ TicketPaid(v, b) \/ TicketRefunded(v, b)
  \/ SetPlanPrice \/ DecideAnalyst
  \/ Tick

LEMMA MarketLeaves ==
  MarketStep => UNCHANGED <<bets, results, request, announced, told, doubled>>
  BY DEF MarketStep, ChangeSubscription, StartTicketPurchase, TicketPaid, TicketRefunded,
         SetPlanPrice, DecideAnalyst, Tick

LEMMA MarketKeeps == IInv /\ MarketStep => IInv'
<1> SUFFICES ASSUME IInv, MarketStep PROVE IInv'
  OBVIOUS
<1>1. now' \in 0..MaxTime
  <2>1. now' = now \/ (now < MaxTime /\ now' = now + 1)
    BY DEF MarketStep, ChangeSubscription, StartTicketPurchase, TicketPaid, TicketRefunded,
           SetPlanPrice, DecideAnalyst, Tick, marketVars
  <2> QED
    BY <2>1, PredictionsAssumption DEF IInv, PredictionsTypeOK
<1>2. forSale' \in BOOLEAN
  <2>1. UNCHANGED forSale \/ forSale' = TRUE
    BY DEF MarketStep, ChangeSubscription, StartTicketPurchase, TicketPaid, TicketRefunded,
           SetPlanPrice, DecideAnalyst, Tick, marketVars
  <2> QED
    BY <2>1 DEF IInv, PredictionsTypeOK
<1>3. subscription' \in [Readers -> {"NONE", "PENDING", "ACTIVE", "LAPSED"}]
  <2>1. subscription' = subscription
        \/ \E v \in Readers, move \in SubscriptionMoves :
             subscription' = [subscription EXCEPT ![v] = move[2]]
    BY DEF MarketStep, ChangeSubscription, StartTicketPurchase, TicketPaid, TicketRefunded,
           SetPlanPrice, DecideAnalyst, Tick, marketVars
  <2>2. \A move \in SubscriptionMoves : move[2] \in {"NONE", "PENDING", "ACTIVE", "LAPSED"}
    BY DEF SubscriptionMoves
  <2> QED
    BY <2>1, <2>2 DEF IInv, PredictionsTypeOK
<1>4. standing' \in {"APPROVED", "SUSPENDED"}
  <2>1. standing' = standing \/ standing' \in {"APPROVED", "SUSPENDED"}
    BY DEF MarketStep, ChangeSubscription, StartTicketPurchase, TicketPaid, TicketRefunded,
           SetPlanPrice, DecideAnalyst, Tick, marketVars
  <2> QED
    BY <2>1 DEF IInv, PredictionsTypeOK
<1>5. checkouts' \subseteq Readers \X Bets /\ bought' \subseteq Readers \X Bets
  <2>1. \/ checkouts' = checkouts /\ bought' = bought
        \/ \E v \in Readers, b \in Bets :
             /\ checkouts' \subseteq checkouts \union {<<v, b>>}
             /\ bought' \subseteq bought \union {<<v, b>>}
    BY DEF MarketStep, ChangeSubscription, StartTicketPurchase, TicketPaid, TicketRefunded,
           SetPlanPrice, DecideAnalyst, Tick, marketVars
  <2> QED
    BY <2>1 DEF IInv, PredictionsTypeOK
<1> QED
  BY <1>1, <1>2, <1>3, <1>4, <1>5, MarketLeaves, ElsewhereKeeps

LEMMA RequestKeeps == ASSUME IInv, NEW r \in Requests, RequestStep(r) PROVE IInv'
  BY PostKeeps, CreateKeeps, StartPublishKeeps, WritePublishedKeeps, LettingGoKeeps,
     StartFinishKeeps, WriteFinishedKeeps, StartSettleKeeps, WriteSettledKeeps
  DEF RequestStep

LEMMA Steps == Next <=> (\E r \in Requests : RequestStep(r)) \/ MarketStep
  BY DEF Next, RequestStep, MarketStep

LEMMA NextIInv == IInv /\ [Next]_vars => IInv'
<1> SUFFICES ASSUME IInv, [Next]_vars PROVE IInv'
  OBVIOUS
<1>1. CASE \E r \in Requests : RequestStep(r)
  BY <1>1, RequestKeeps
<1>2. CASE MarketStep
  BY <1>2, MarketKeeps
<1>3. CASE UNCHANGED vars
  <2>1. UNCHANGED <<bets, results, request, announced, told, doubled>> /\ now' = now
        /\ UNCHANGED marketVars
    BY <1>3 DEF vars, marketVars
  <2> QED
    BY <2>1, ElsewhereKeeps DEF marketVars, IInv, PredictionsTypeOK
<1> QED
  BY <1>1, <1>2, <1>3, Steps

(* Types: no row, result or request ever holds a value the schema does not    *)
(* have, and a profit is a whole number (schema.prisma, settlement.ts).       *)
THEOREM PredictionsTyping == Spec => []PredictionsTypeOK
<1>1. IInv => PredictionsTypeOK
  BY DEF IInv
<1> QED
  BY <1>1, InitIInv, NextIInv, PTL DEF Spec

(* No bet is published after its match has begun, so the feed's record and    *)
(* the author's page count the same bets, for any number of bets and of       *)
(* requests that publish, settle and finish them at the same time             *)
(* (countsInRecord, queries/tickets.ts).                                   *)
THEOREM RecordsCountTheSame == Spec => []RecordsAgree
<1>1. IInv => RecordsAgree
  BY DEF IInv, RowsHold, RecordsAgree, CountsInRecord
<1> QED
  BY <1>1, InitIInv, NextIInv, PTL DEF Spec
-----------------------------------------------------------------------------
(* What a step may do to a row: create it, settle it while it has no result, *)
(* or leave its status, its visibility and its result alone.                *)
RowStep(b) ==
  \/ /\ bets'[b].status = bets[b].status /\ bets'[b].visibility = bets[b].visibility
     /\ results'[b] = results[b]
  \/ bets[b] = NoBet /\ results'[b] = results[b]
  \/ /\ bets[b].status = "PENDING" /\ results[b] = None
     /\ bets'[b].visibility = bets[b].visibility

LEMMA RowSteps == ASSUME IInv, [Next]_vars, NEW b \in Bets PROVE RowStep(b)
<1>1. CASE UNCHANGED <<bets, results>>
  BY <1>1 DEF RowStep
<1>2. ASSUME NEW r \in Requests, RequestStep(r), ~UNCHANGED <<bets, results>>
      PROVE  RowStep(b)
  <2>0. request[r] \in Reads /\ ReadHolds(request[r]) /\ bets \in [Bets -> Rows]
        /\ results \in [Bets -> Results \union {None}]
    BY DEF IInv, PredictionsTypeOK
  <2>1. CASE b # request[r].bet
    <3>1. bets'[b] = bets[b] /\ results'[b] = results[b]
      BY <1>2, <2>0, <2>1
      DEF RequestStep, StartPost, CreateRow, StartPublish, WritePublished, Announce, StartFinish,
          WriteFinished, StartSettle, WriteSettled, TellSettled, Die
    <3> QED
      BY <3>1 DEF RowStep
  <2>2. CASE CreateRow(r) /\ b = request[r].bet
    BY <2>0, <2>2 DEF CreateRow, ReadHolds, RowStep
  <2>3. CASE WritePublished(r) /\ b = request[r].bet
    BY <2>0, <2>3 DEF WritePublished, RowStep, Rows
  <2>4. CASE WriteFinished(r) /\ b = request[r].bet
    BY <2>0, <2>4 DEF WriteFinished, FinishedRow, RowStep, Rows
  <2>5. CASE WriteSettled(r) /\ b = request[r].bet
    <3>1. MaySettle(b)
      BY <1>2, <2>5 DEF WriteSettled
    <3>2. bets[b].status = "PENDING"
      BY <2>0, <2>5, <3>1
      DEF WriteSettled, MaySettle, ReadHolds, IInv, RowsHold, Published, NoBet
    <3>3. bets'[b].visibility = bets[b].visibility
      BY <2>0, <2>5, <3>1 DEF WriteSettled, Rows
    <3> QED
      BY <3>1, <3>2, <3>3 DEF MaySettle, RowStep
  <2> QED
    BY <1>2, <2>1, <2>2, <2>3, <2>4, <2>5
    DEF RequestStep, StartPost, StartPublish, Announce, StartFinish, StartSettle, TellSettled, Die
<1> QED
  BY <1>1, <1>2, Steps, MarketLeaves DEF vars

(* A settlement is final: whatever an author or an administrator had read    *)
(* while the bet was open, neither its result nor its status changes after   *)
(* (settlePrediction, markPredictionFinished, publishPrediction).            *)
THEOREM SettlementIsFinal == Spec => OutcomeFinal
<1> DEFINE Final == \A b \in Bets : results[b] # None =>
             results'[b] = results[b] /\ bets'[b].status = results[b].outcome
<1>1. ASSUME IInv, [Next]_vars PROVE [Final]_vars
  <2>1. ASSUME NEW b \in Bets, results[b] # None
        PROVE  results'[b] = results[b] /\ bets'[b].status = results[b].outcome
    <3>1. bets[b].status = results[b].outcome /\ bets[b] # NoBet
      BY <1>1, <2>1, PredictionsAssumption DEF IInv, RowsHold, Published, NoBet
    <3> QED
      BY <1>1, <2>1, <3>1, RowSteps DEF RowStep
  <2> QED
    BY <2>1
<1> QED
  BY <1>1, InitIInv, NextIInv, PTL DEF Spec, OutcomeFinal

(* A paid pick opens by its one key, and an image that was open to everybody *)
(* stays so, for any readers, bets and requests (entitlements.ts,             *)
(* uploads/[name]/route.ts).                                               *)
THEOREM AccessIsSold == Spec => AccessChangesBySale
<1> DEFINE Sold ==
             \A b \in Bets :
               /\ \A v \in Viewers :
                    bets[b].visibility \in {"PREMIUM", "VIP"} /\ IsTicketLocked(b, v)
                      => IsTicketLocked(b, v)' \/ OpensByItsKey(b, v)
               /\ bets[b] # NoBet /\ SlipAccess(b, "stranger") = "public"
                    => SlipAccess(b, "stranger")' = "public"
<1>1. ASSUME IInv, [Next]_vars PROVE [Sold]_vars
  <2>1. ASSUME NEW b \in Bets, NEW v \in Viewers,
               bets[b].visibility \in {"PREMIUM", "VIP"}, IsTicketLocked(b, v)
        PROVE  IsTicketLocked(b, v)' \/ OpensByItsKey(b, v)
    <3>1. bets'[b].visibility = bets[b].visibility
      BY <1>1, <2>1, RowSteps, PredictionsAssumption DEF RowStep, NoBet, Visibilities
    <3>2. CASE bets[b].visibility = "PREMIUM"
      BY <2>1, <3>1, <3>2
      DEF IsTicketLocked, Locks, OpensByItsKey, PurchasedTicketIds
    <3>3. CASE bets[b].visibility = "VIP"
      BY <2>1, <3>1, <3>3 DEF IsTicketLocked, Locks, OpensByItsKey
    <3> QED
      BY <2>1, <3>2, <3>3
  <2>2. ASSUME NEW b \in Bets, bets[b] # NoBet, SlipAccess(b, "stranger") = "public"
        PROVE  SlipAccess(b, "stranger")' = "public"
    <3>1. ~IsTicketLocked(b, "stranger") /\ bets[b].visibility \in Visibilities
          /\ bets[b].status # "NONE"
      BY <1>1, <2>2 DEF SlipAccess, IInv, RowsHold
    <3>2. "stranger" \notin Readers
      BY PredictionsAssumption
    <3>3. ~HoldsSubscription("stranger") /\ b \notin PurchasedTicketIds("stranger")
      BY <1>1, <3>2 DEF HoldsSubscription, PurchasedTicketIds, IInv, PredictionsTypeOK
    <3>4. bets[b].visibility = "PUBLIC" /\ bets[b].status # "PENDING"
      BY <3>1, <3>3 DEF IsTicketLocked, Locks, Visibilities
    <3>5. bets'[b].visibility = "PUBLIC" /\ bets'[b].status # "PENDING"
      BY <1>1, <2>2, <3>4, RowSteps DEF RowStep
    <3> QED
      BY <3>5 DEF SlipAccess, IsTicketLocked, Locks
  <2> QED
    BY <2>1, <2>2
<1> QED
  BY <1>1, InitIInv, NextIInv, PTL DEF Spec, AccessChangesBySale
-----------------------------------------------------------------------------
(* The notices.  A bet that no two requests were publishing at once has one   *)
(* request at most that is publishing or announcing it, and then it has not  *)
(* been announced; a result has one request at most that is to tell it, and  *)
(* then it has not been told.                                              *)
Announces(r, b) == request[r].does \in {"publish", "announce"} /\ request[r].bet = b
Tells(r, b) == request[r].does = "tell" /\ request[r].bet = b

NoticesOf(b) ==
  /\ ~Published(b) => announced[b] = 0
  /\ b \notin doubled =>
       /\ announced[b] <= 1
       /\ \A r \in Requests : Announces(r, b) => announced[b] = 0
       /\ \A r, s \in Requests : Announces(r, b) /\ Announces(s, b) => r = s
       /\ \A r \in Requests : Announces(r, b) /\ request[r].does = "publish" => ~Published(b)
  /\ results[b] = None => told[b] = 0
  /\ told[b] <= 1
  /\ \A r \in Requests : Tells(r, b) => told[b] = 0
  /\ \A r, s \in Requests : Tells(r, b) /\ Tells(s, b) => r = s

NoticesHold == \A b \in Bets : NoticesOf(b)

(* A step after which no request has a notice to give that it had not before *)
LEMMA QuietStep ==
  ASSUME NoticesHold, UNCHANGED <<announced, told, doubled>>,
         \A b \in Bets : Published(b)' = Published(b) /\ results'[b] = results[b],
         \A r \in Requests : \/ request'[r] = request[r]
                             \/ request'[r].does \notin {"publish", "announce", "tell"}
  PROVE  NoticesHold'
<1>1. \A r \in Requests, b \in Bets :
        /\ Announces(r, b)' => Announces(r, b) /\ request'[r] = request[r]
        /\ Tells(r, b)' => Tells(r, b)
  BY DEF Announces, Tells
<1> QED
  BY <1>1 DEF NoticesHold, NoticesOf

(* Requests other than the one that moves keep what they are doing.          *)
LEMMA OthersStay ==
  ASSUME IInv, NEW r \in Requests, NEW q, request' = [request EXCEPT ![r] = q]
  PROVE  /\ request'[r] = q
         /\ \A s \in Requests \ {r} : request'[s] = request[s]
  BY DEF IInv, PredictionsTypeOK

(* A step about one bet leaves the notices of the others alone.             *)
LEMMA OtherBets ==
  ASSUME NoticesHold, NEW b \in Bets,
         \A r \in Requests : \/ request'[r] = request[r]
                             \/ request'[r].bet # b,
         UNCHANGED <<bets[b], results[b], announced[b], told[b]>>,
         b \in doubled' <=> b \in doubled
  PROVE  NoticesOf(b)'
<1>1. \A r \in Requests :
        /\ Announces(r, b)' => Announces(r, b) /\ request'[r] = request[r]
        /\ Tells(r, b)' => Tells(r, b)
  BY DEF Announces, Tells
<1> QED
  BY <1>1 DEF NoticesHold, NoticesOf, Published

LEMMA RequestNotices ==
  ASSUME IInv, NoticesHold, NEW r \in Requests, RequestStep(r) PROVE NoticesHold'
<1> PICK c : c = request[r].bet
  OBVIOUS
<1>0. request \in [Requests -> Reads] /\ ReadHolds(request[r])
      /\ announced \in [Bets -> 0..2] /\ told \in [Bets -> 0..2]
      /\ bets \in [Bets -> Rows] /\ results \in [Bets -> Results \union {None}]
  BY DEF IInv, PredictionsTypeOK
<1>1. ASSUME NEW b \in Bets, NEW visibility \in Visibilities, NEW publishNow \in BOOLEAN,
             StartPost(r, b, visibility, publishNow)
      PROVE  NoticesHold'
  BY <1>0, <1>1, QuietStep DEF StartPost, Ask, Published
<1>2. ASSUME NEW b \in Bets, NEW claim \in {"WON", "LOST"}, StartFinish(r, b, claim)
      PROVE  NoticesHold'
  BY <1>0, <1>2, QuietStep DEF StartFinish, Ask, Published
<1>3. ASSUME NEW b \in Bets, NEW outcome \in Outcomes, StartSettle(r, b, outcome)
      PROVE  NoticesHold'
  BY <1>0, <1>3, QuietStep DEF StartSettle, Ask, Published
<1>4. CASE Die(r)
  BY <1>0, <1>4, QuietStep DEF Die, Idle, Published
<1>5. CASE WriteFinished(r)
  <2>1. \A b \in Bets : Published(b)' = Published(b)
    BY <1>0, <1>5 DEF WriteFinished, FinishedRow, Published, Rows
  <2> QED
    BY <1>0, <1>5, <2>1, QuietStep DEF WriteFinished, Idle
<1>6. CASE CreateRow(r)
  <2>1. c \in Bets /\ bets[c] = NoBet /\ request[r].does = "post"
    BY <1>0, <1>6 DEF CreateRow, ReadHolds
  <2>2. \A b \in Bets \ {c} : NoticesOf(b)'
    BY <1>0, <1>6, OtherBets, PredictionsAssumption DEF CreateRow, Ask, Idle
  <2>3. \A s \in Requests \ {r} : request'[s] = request[s] /\ ~Announces(s, c)
    BY <1>0, <1>6, <2>1 DEF CreateRow, Ask, Announces, IInv, ReadHolds, Published, NoBet
  <2>4. request'[r].does \in {"announce", "nothing"}
    BY <1>0, <1>6 DEF CreateRow, Ask, Idle
  <2>5. announced[c] = 0 /\ ~Published(c)
    BY <2>1 DEF NoticesHold, NoticesOf, Published, NoBet
  <2>6. request'[r].does = "announce" => Published(c)'
    BY <1>0, <1>6, <2>1 DEF CreateRow, Ask, Idle, Published
  <2>7. NoticesOf(c)'
    BY <1>6, <2>1, <2>3, <2>4, <2>5, <2>6
    DEF CreateRow, NoticesHold, NoticesOf, Announces, Tells
  <2> QED
    BY <2>2, <2>7 DEF NoticesHold
<1>7. ASSUME NEW b \in Bets, StartPublish(r, b) PROVE NoticesHold'
  <2> DEFINE q == [does |-> "publish", bet |-> b, at |-> now, says |-> None]
  <2>1. request' = [request EXCEPT ![r] = q] /\ request[r] = Idle
    BY <1>7 DEF StartPublish, Ask
  <2>2. \A a \in Bets \ {b} : NoticesOf(a)'
    BY <1>0, <1>7, <2>1, OtherBets DEF StartPublish
  <2>3. \A s \in Requests \ {r} : request'[s] = request[s]
    BY <2>1, OthersStay
  <2>4. request'[r] = q /\ ~Published(b) /\ ~Published(b)'
    BY <1>0, <1>7, <2>1 DEF StartPublish, Publishable, Published
  <2>5. b \notin doubled' => b \notin doubled /\ \A s \in Requests \ {r} : ~Announces(s, b)
    BY <1>7, <2>4 DEF StartPublish, Busy, Announces, IInv, ReadHolds
  <2>6. NoticesOf(b)'
    BY <1>7, <2>1, <2>3, <2>4, <2>5 DEF StartPublish, NoticesHold, NoticesOf, Announces, Tells
  <2> QED
    BY <2>2, <2>6 DEF NoticesHold
<1>8. CASE WritePublished(r)
  <2> DEFINE q == [does |-> "announce", bet |-> c, at |-> None, says |-> None]
  <2>1. c \in Bets /\ request' = [request EXCEPT ![r] = q] /\ request[r].does = "publish"
    BY <1>0, <1>8 DEF WritePublished, Ask, ReadHolds
  <2>2. \A a \in Bets \ {c} : NoticesOf(a)'
    BY <1>0, <1>8, <2>1, OtherBets DEF WritePublished
  <2>3. request'[r] = q /\ \A s \in Requests \ {r} : request'[s] = request[s]
    BY <2>1, OthersStay
  <2>4. Published(c)'
    BY <1>0, <1>8, <2>1, PredictionsAssumption DEF WritePublished, ReadHolds, Published, Rows
  <2>5. Announces(r, c) /\ NoticesOf(c)
    BY <2>1 DEF NoticesHold, Announces
  <2>6. NoticesOf(c)'
    BY <1>8, <2>1, <2>3, <2>4, <2>5 DEF WritePublished, NoticesOf, Announces, Tells
  <2> QED
    BY <2>2, <2>6 DEF NoticesHold
<1>9. CASE Announce(r)
  <2>1. /\ c \in Bets /\ request' = [request EXCEPT ![r] = Idle]
        /\ request[r].does = "announce" /\ Published(c)
    BY <1>0, <1>9 DEF Announce, ReadHolds
  <2>2. \A a \in Bets \ {c} : NoticesOf(a)'
    BY <1>0, <1>9, <2>1, OtherBets, PredictionsAssumption DEF Announce, Idle
  <2>3. request'[r].does = "nothing" /\ \A s \in Requests \ {r} : request'[s] = request[s]
    <3>1. request'[r] = Idle /\ \A s \in Requests \ {r} : request'[s] = request[s]
      BY <2>1, OthersStay
    <3> QED
      BY <3>1 DEF Idle
  <2>4. Announces(r, c) /\ NoticesOf(c)
    BY <2>1 DEF NoticesHold, Announces
  <2>5. announced[c] = 0 => announced'[c] = 1
    BY <1>0, <1>9, <2>1 DEF Announce, Once
  <2>6. NoticesOf(c)'
    BY <1>9, <2>1, <2>3, <2>4, <2>5 DEF Announce, NoticesOf, Announces, Tells, Published
  <2> QED
    BY <2>2, <2>6 DEF NoticesHold
<1>10. CASE WriteSettled(r)
  <2> DEFINE q == [does |-> "tell", bet |-> c, at |-> None, says |-> None]
  <2>1. c \in Bets /\ Published(c) /\ request[r].does = "settle"
    BY <1>0, <1>10 DEF WriteSettled, ReadHolds
  <2>2. CASE ~MaySettle(c)
    BY <1>0, <1>10, <2>2, QuietStep DEF WriteSettled, Idle, Published
  <2>3. CASE MaySettle(c)
    <3>1. request' = [request EXCEPT ![r] = q] /\ results[c] = None
      BY <1>10, <2>3 DEF WriteSettled, Ask, MaySettle
    <3>2. \A a \in Bets \ {c} : NoticesOf(a)'
      BY <1>0, <1>10, <2>3, <3>1, OtherBets DEF WriteSettled
    <3>3. request'[r] = q /\ \A s \in Requests \ {r} : request'[s] = request[s]
      BY <3>1, OthersStay
    <3>4. \A s \in Requests : ~Tells(s, c)
      BY <2>1, <3>1 DEF Tells, IInv, ReadHolds
    <3>5. told[c] = 0 /\ Published(c)' /\ NoticesOf(c)
      BY <1>0, <1>10, <2>1, <2>3, <3>1 DEF WriteSettled, NoticesHold, NoticesOf, Published, Rows
    <3>6. results'[c] # None
      BY <1>0, <1>10, <2>1, <2>3, ProfitIsResult, PredictionsAssumption
      DEF WriteSettled, ReadHolds, Results
    <3>7. NoticesOf(c)'
      BY <1>10, <2>1, <3>3, <3>4, <3>5, <3>6
      DEF WriteSettled, NoticesOf, Announces, Tells
    <3> QED
      BY <3>2, <3>7 DEF NoticesHold
  <2> QED
    BY <2>2, <2>3
<1>11. CASE TellSettled(r)
  <2>1. /\ c \in Bets /\ request' = [request EXCEPT ![r] = Idle]
        /\ request[r].does = "tell" /\ results[c] # None
    BY <1>0, <1>11 DEF TellSettled, ReadHolds
  <2>2. \A a \in Bets \ {c} : NoticesOf(a)'
    BY <1>0, <1>11, <2>1, OtherBets, PredictionsAssumption DEF TellSettled, Idle
  <2>3. request'[r].does = "nothing" /\ \A s \in Requests \ {r} : request'[s] = request[s]
    <3>1. request'[r] = Idle /\ \A s \in Requests \ {r} : request'[s] = request[s]
      BY <2>1, OthersStay
    <3> QED
      BY <3>1 DEF Idle
  <2>4. Tells(r, c) /\ NoticesOf(c)
    BY <2>1 DEF NoticesHold, Tells
  <2>5. told[c] = 0 /\ told'[c] = 1
    BY <1>0, <1>11, <2>1, <2>4 DEF TellSettled, Once, NoticesOf
  <2>6. NoticesOf(c)'
    BY <1>11, <2>1, <2>3, <2>4, <2>5 DEF TellSettled, NoticesOf, Announces, Tells, Published
  <2> QED
    BY <2>2, <2>6 DEF NoticesHold
<1> QED
  BY <1>1, <1>2, <1>3, <1>4, <1>5, <1>6, <1>7, <1>8, <1>9, <1>10, <1>11 DEF RequestStep

LEMMA InitNotices == Init => NoticesHold
  BY DEF Init, NoticesHold, NoticesOf, Announces, Tells, Idle

LEMMA NextNotices == IInv /\ NoticesHold /\ [Next]_vars => NoticesHold'
<1> SUFFICES ASSUME IInv, NoticesHold, [Next]_vars PROVE NoticesHold'
  OBVIOUS
<1>1. CASE UNCHANGED <<bets, results, request, announced, told, doubled>>
  BY <1>1, QuietStep DEF Published
<1> QED
  BY <1>1, RequestNotices, Steps, MarketLeaves DEF vars

(* The audience hears once that a bet is on, unless two requests were         *)
(* publishing it at the same time, and once how it ended, whatever requests    *)
(* run, die or overlap (notifyNewBet, settlePredictionAction).              *)
THEOREM NoticesGoOnce == Spec => []AnnouncedOnce
<1>1. IInv /\ NoticesHold => AnnouncedOnce
  BY DEF IInv, PredictionsTypeOK, NoticesHold, NoticesOf, AnnouncedOnce
<1> QED
  BY <1>1, InitIInv, NextIInv, InitNotices, NextNotices, PTL DEF Spec
-----------------------------------------------------------------------------
(* The pages: that they agree on who reads a pick, and lead to what the      *)
(* actions behind them accept, in every state any bets, readers and         *)
(* requests can reach.                                                     *)

(* What the pages rest on beside the rows themselves: only tickets with a    *)
(* price are sold, a subscription ticket has a plan behind it from the       *)
(* moment its form is accepted, and only what is published is handed over.  *)
MarketHolds ==
  /\ \A v \in Readers, b \in Bets :
       <<v, b>> \in checkouts \union bought => bets[b].visibility = "PREMIUM"
  /\ \A b \in Bets : bets[b].visibility = "VIP" => forSale
  /\ \A r \in Requests : request[r].does = "post" /\ request[r].says = "VIP" => forSale
  /\ \A b \in Bets : bets[b].finishedAt # None => Published(b)

LEMMA InitMarket == Init => MarketHolds
  BY PredictionsAssumption DEF Init, MarketHolds, NoBet, Idle, Visibilities

(* A bet on the site stays on the site, its kind is fixed with its row, and  *)
(* it is handed over only once it is there.                                *)
LEMMA RowsMove ==
  ASSUME IInv, MarketHolds, [Next]_vars, NEW b \in Bets
  PROVE  /\ bets'[b].finishedAt # None => Published(b)'
         /\ \/ bets'[b].visibility = bets[b].visibility
            \/ /\ bets[b] = NoBet
               /\ \E r \in Requests : request[r].does = "post" /\ request[r].bet = b
                                       /\ bets'[b].visibility = request[r].says
<1>0. bets \in [Bets -> Rows] /\ now \in 0..MaxTime /\ now # None
      /\ (bets[b].finishedAt # None => Published(b))
  BY PredictionsAssumption DEF IInv, PredictionsTypeOK, MarketHolds
<1>1. CASE UNCHANGED <<bets, results>>
  BY <1>0, <1>1 DEF Published
<1>2. ASSUME NEW r \in Requests, RequestStep(r), ~UNCHANGED <<bets, results>>
      PROVE  /\ bets'[b].finishedAt # None => Published(b)'
             /\ \/ bets'[b].visibility = bets[b].visibility
                \/ /\ bets[b] = NoBet /\ request[r].does = "post" /\ request[r].bet = b
                   /\ bets'[b].visibility = request[r].says
  <2>0. request[r] \in Reads /\ ReadHolds(request[r])
    BY DEF IInv, PredictionsTypeOK
  <2>1. CASE b # request[r].bet
    <3>1. bets'[b] = bets[b]
      BY <1>0, <1>2, <2>0, <2>1
      DEF RequestStep, StartPost, CreateRow, StartPublish, WritePublished, Announce, StartFinish,
          WriteFinished, StartSettle, WriteSettled, TellSettled, Die
    <3> QED BY <1>0, <3>1 DEF Published
  <2>2. CASE CreateRow(r) /\ b = request[r].bet
    BY <1>0, <2>0, <2>2 DEF CreateRow, ReadHolds
  <2>3. CASE WritePublished(r) /\ b = request[r].bet
    <3>1. bets'[b] = [bets[b] EXCEPT !.publishedAt = request[r].at]
      BY <1>0, <2>3 DEF WritePublished
    <3>2. request[r].at # None
      BY <2>0, <2>3, PredictionsAssumption DEF WritePublished, ReadHolds
    <3> QED BY <1>0, <3>1, <3>2 DEF Rows, Published
  <2>4. CASE WriteFinished(r) /\ b = request[r].bet
    <3>1. bets'[b] = FinishedRow(bets[b], request[r]) /\ Published(b)
      BY <1>0, <2>0, <2>4 DEF WriteFinished, ReadHolds
    <3> QED BY <1>0, <3>1 DEF FinishedRow, Rows, Published
  <2>5. CASE WriteSettled(r) /\ b = request[r].bet
    <3>1. MaySettle(b) /\ Published(b)
      BY <1>2, <2>0, <2>5 DEF WriteSettled, ReadHolds
    <3>2. bets' = [bets EXCEPT ![b].status = request[r].says, ![b].finishedAt = now]
      BY <2>5, <3>1 DEF WriteSettled
    <3>3. /\ bets'[b].publishedAt = bets[b].publishedAt
          /\ bets'[b].visibility = bets[b].visibility
      BY <1>0, <3>2 DEF Rows
    <3> QED BY <3>1, <3>3 DEF Published
  <2> QED
    BY <1>2, <2>1, <2>2, <2>3, <2>4, <2>5
    DEF RequestStep, StartPost, StartPublish, Announce, StartFinish, StartSettle, TellSettled, Die
<1> QED
  BY <1>1, <1>2, Steps, MarketLeaves DEF vars

LEMMA NextMarket ==
  ASSUME IInv, MarketHolds, [Next]_vars
  PROVE  MarketHolds'
<1>0. None \notin Visibilities /\ forSale \in BOOLEAN
  BY PredictionsAssumption DEF IInv, PredictionsTypeOK
<1>1. forSale => forSale'
  BY Steps DEF RequestStep, StartPost, CreateRow, StartPublish, WritePublished, Announce,
     StartFinish, WriteFinished, StartSettle, WriteSettled, TellSettled, Die, MarketStep,
     ChangeSubscription, StartTicketPurchase, TicketPaid, TicketRefunded, SetPlanPrice,
     DecideAnalyst, Tick, marketVars, vars
<1>2. ASSUME NEW v \in Readers, NEW b \in Bets, <<v, b>> \in checkouts' \union bought'
      PROVE  <<v, b>> \in checkouts \union bought \/ bets[b].visibility = "PREMIUM"
  <2>1. CASE UNCHANGED marketVars
    BY <1>2, <2>1 DEF marketVars
  <2>2. CASE MarketStep
    <3>1. CASE \E w \in Readers, c \in Bets : StartTicketPurchase(w, c)
      <4>1. PICK w \in Readers, c \in Bets : StartTicketPurchase(w, c)
        BY <3>1
      <4>2. /\ checkouts' = checkouts \union {<<w, c>>} /\ bought' = bought
            /\ bets[c].visibility = "PREMIUM"
        BY <4>1 DEF StartTicketPurchase, ForSaleTo
      <4>3. CASE <<v, b>> = <<w, c>>
        BY <4>2, <4>3
      <4> QED BY <1>2, <4>2, <4>3
    <3>2. CASE \E w \in Readers, c \in Bets : TicketPaid(w, c)
      BY <1>2, <3>2 DEF TicketPaid
    <3>3. CASE \E w \in Readers, c \in Bets : TicketRefunded(w, c)
      BY <1>2, <3>3 DEF TicketRefunded
    <3>4. CASE UNCHANGED <<checkouts, bought>>
      BY <1>2, <3>4
    <3> QED
      BY <2>2, <3>1, <3>2, <3>3, <3>4
      DEF MarketStep, ChangeSubscription, SetPlanPrice, DecideAnalyst, Tick, marketVars
  <2>3. ASSUME NEW r \in Requests, RequestStep(r) PROVE UNCHANGED marketVars
    BY <2>3 DEF RequestStep, StartPost, CreateRow, StartPublish, WritePublished, Announce,
       StartFinish, WriteFinished, StartSettle, WriteSettled, TellSettled, Die
  <2> QED BY <2>1, <2>2, <2>3, Steps DEF vars, marketVars
<1>3. ASSUME NEW v \in Readers, NEW b \in Bets, <<v, b>> \in checkouts' \union bought'
      PROVE  bets'[b].visibility = "PREMIUM"
  <2>1. bets[b].visibility = "PREMIUM"
    BY <1>2, <1>3 DEF MarketHolds
  <2>2. bets[b] # NoBet
    BY <1>0, <2>1 DEF NoBet, Visibilities
  <2> QED BY <2>1, <2>2, RowsMove
<1>4. ASSUME NEW b \in Bets, bets'[b].visibility = "VIP" PROVE forSale'
  BY <1>1, <1>4, RowsMove DEF MarketHolds
<1>5. ASSUME NEW r \in Requests, request'[r].does = "post", request'[r].says = "VIP"
      PROVE  forSale'
  <2>0. request \in [Requests -> Reads]
    BY DEF IInv, PredictionsTypeOK
  <2>1. CASE request'[r] = request[r]
    BY <1>1, <1>5, <2>1 DEF MarketHolds
  <2>2. ASSUME NEW q \in Requests, RequestStep(q), request'[r] # request[r]
        PROVE  forSale
    <3>1. q = r
      BY <2>0, <2>2
      DEF RequestStep, StartPost, CreateRow, StartPublish, WritePublished, Announce, StartFinish,
          WriteFinished, StartSettle, WriteSettled, TellSettled, Die, Ask
    <3>2. PICK b \in Bets, visibility \in Visibilities, publishNow \in BOOLEAN :
            StartPost(r, b, visibility, publishNow)
      BY <1>5, <2>0, <2>2, <3>1
      DEF RequestStep, CreateRow, StartPublish, WritePublished, Announce, StartFinish,
          WriteFinished, StartSettle, WriteSettled, TellSettled, Die, Ask, Idle
    <3>3. request'[r].says = visibility
      BY <2>0, <3>2 DEF StartPost, Ask
    <3> QED BY <1>5, <3>2, <3>3 DEF StartPost
  <2> QED BY <1>1, <2>1, <2>2, Steps, MarketLeaves DEF vars
<1>6. \A b \in Bets : bets'[b].finishedAt # None => Published(b)'
  BY RowsMove
<1> QED BY <1>3, <1>4, <1>5, <1>6 DEF MarketHolds
-----------------------------------------------------------------------------

(* Sales, plans and hand-overs are of bets that are there for them, always.  *)
THEOREM Marketed == Spec => [](IInv /\ MarketHolds)
<1>1. Init => IInv /\ MarketHolds
  BY InitIInv, InitMarket
<1>2. IInv /\ MarketHolds /\ [Next]_vars => (IInv /\ MarketHolds)'
  BY NextIInv, NextMarket
<1> QED
  BY <1>1, <1>2, PTL DEF Spec
-----------------------------------------------------------------------------
(* The facts about a bet that the pages' queries rest on.                   *)
LEMMA RowFacts ==
  ASSUME IInv, MarketHolds, NEW b \in Bets
  PROVE  /\ Published(b) => bets[b] # NoBet
         /\ bets[b] # NoBet => bets[b].visibility \in Visibilities
         /\ bets[b] # NoBet => bets[b].status # "NONE"
         /\ bets[b].status \in {"NONE", "PENDING"} \union Outcomes
         /\ bets[b].status \in Outcomes => Published(b)
         /\ bets[b].finishedAt # None => Published(b)
<1>1. bets[b] \in Rows /\ RowsHold /\ Outcomes \subseteq Settled
  BY PredictionsAssumption DEF IInv, PredictionsTypeOK
<1>2. /\ bets[b].status \in {"NONE", "PENDING"} \union Outcomes
      /\ bets[b].status \in Outcomes => bets[b].status \notin {"NONE", "PENDING"}
  BY <1>1 DEF Rows, Settled
<1>3. bets[b].status \in Outcomes => Published(b)
  BY <1>1, <1>2 DEF RowsHold
<1>4. bets[b] # NoBet => bets[b].status # "NONE" /\ bets[b].visibility \in Visibilities
  BY <1>1 DEF RowsHold
<1> QED
  BY <1>2, <1>3, <1>4 DEF MarketHolds, Published, NoBet

(* A viewer is locked out of a bet only behind one of the three gates.       *)
LEMMA Gate ==
  ASSUME NEW b, bets[b].visibility \in Visibilities
  PROVE  TicketGate(b) \notin {"pick", "masked"}
  BY DEF TicketGate, Visibilities

(* Whatever names a pick to a viewer is about a bet that is open to them.   *)
LEMMA NamedIsOpen ==
  ASSUME IInv, MarketHolds, NEW v \in Viewers, NEW b \in NamedTo(v)
  PROVE  /\ b \in Bets /\ bets[b].visibility \in Visibilities
         /\ ~IsTicketLocked(b, v)
<1>0. \A c \in Bets : Published(c) => bets[c].visibility \in Visibilities
  BY RowFacts
<1>1. CASE b \in AccountPurchases(v)
  <2>1. b \in Bets /\ <<v, b>> \in bought /\ v \in Readers
    BY <1>1 DEF AccountPurchases, PurchasedTicketIds, IInv, PredictionsTypeOK
  <2>2. bets[b].visibility = "PREMIUM"
    BY <2>1 DEF MarketHolds
  <2> QED BY <2>1, <2>2 DEF IsTicketLocked, Locks, PurchasedTicketIds, Visibilities
<1>2. CASE SignedIn(v) /\ b \in {c \in AnalystFeed : NoticeText(c) = "pick"}
  BY <1>2 DEF SignedIn, AnalystFeed, NoticeText, IsTicketLocked, Locks, Visibilities
<1>3. CASE b \in ListTicketFeed("FREE") /\ FreeTicketsPage(v)[b].says = "masked"
  <2>1. b \in Bets /\ bets[b].visibility = "PUBLIC"
    BY <1>3 DEF ListTicketFeed
  <2>2. FreeTicketsPage(v)[b] = TicketRow(b, Locks(b, v, FALSE, FALSE), FALSE, TRUE)
    BY <1>3 DEF FreeTicketsPage
  <2>3. bets[b].visibility \in Visibilities
    BY <2>1 DEF Visibilities
  <2>4. ~Locks(b, v, FALSE, FALSE)
    <3> SUFFICES ASSUME Locks(b, v, FALSE, FALSE) PROVE FALSE
      OBVIOUS
    <3>1. TicketRow(b, Locks(b, v, FALSE, FALSE), FALSE, TRUE).says
            = Unless(Locks(b, v, FALSE, FALSE), b)
      BY DEF TicketRow
    <3>2. Unless(Locks(b, v, FALSE, FALSE), b) = TicketGate(b)
      BY DEF Unless
    <3> QED BY <1>3, <2>2, <2>3, <3>1, <3>2, Gate
  <2> QED BY <2>1, <2>4 DEF IsTicketLocked, Locks, Visibilities
<1>4. CASE b \in ListTicketFeed("PAID") /\ PaidTicketsPage(v)[b].says = "pick"
  <2>1. b \in Bets /\ bets[b].visibility = "PREMIUM"
    BY <1>4 DEF ListTicketFeed
  <2>2. PaidTicketsPage(v)[b] = TicketRow(b, IsTicketLocked(b, v), TRUE, FALSE)
    BY <1>4 DEF PaidTicketsPage
  <2> QED BY <1>4, <2>1, <2>2, Gate DEF TicketRow, Unless, Visibilities
<1>5. CASE b \in ListTicketFeed("FREE") /\ FreeTicketsApi(v)[b] = "pick"
  <2>1. b \in Bets /\ bets[b].visibility = "PUBLIC"
    BY <1>5 DEF ListTicketFeed
  <2>2. FreeTicketsApi(v)[b] = Unless(Locks(b, v, FALSE, FALSE), b)
    BY <1>5 DEF FreeTicketsApi
  <2>3. bets[b].visibility \in Visibilities
    BY <2>1 DEF Visibilities
  <2>4. ~Locks(b, v, FALSE, FALSE)
    BY <1>5, <2>2, <2>3, Gate DEF Unless
  <2> QED BY <2>1, <2>4 DEF IsTicketLocked, Locks, Visibilities
<1>6. CASE b \in AnalystFeed /\ BetEntry(b, v) = "pick"
  BY <1>0, <1>6, Gate DEF AnalystFeed, BetEntry, Unless
<1>7. CASE b \in ListedActive(v) /\ AnalystProfilePage(v)[b] = "pick"
  <2>1. AnalystProfilePage(v)[b] = Unless(IsTicketLocked(b, v), b)
    BY <1>7 DEF AnalystProfilePage
  <2> QED BY <1>0, <1>7, <2>1, Gate DEF ListedActive, ListOpenTickets, Open, Unless
<1>8. CASE b \in AnalystFeed /\ AnalystApi[b] = "pick"
  <2>1. AnalystApi[b] = Unless(Locks(b, "stranger", FALSE, FALSE), b)
    BY <1>8 DEF AnalystApi
  <2>2. b \in Bets /\ bets[b].visibility \in Visibilities
    BY <1>0, <1>8 DEF AnalystFeed
  <2>3. ~Locks(b, "stranger", FALSE, FALSE)
    BY <1>8, <2>1, <2>2, Gate DEF Unless
  <2> QED BY <2>2, <2>3 DEF IsTicketLocked, Locks, Visibilities
<1>9. CASE b \in Posted /\ TicketMetadata(b) = "pick"
  BY <1>9 DEF Posted, TicketMetadata, IsTicketLocked, Locks, Visibilities
<1> DEFINE Listing == {FreeTicketsApi(v), FeedPage(v, TRUE), AnalystProfilePage(v), AnalystApi,
                       [c \in Posted |-> TicketMetadata(c)]}
           Listed == UNION {{c \in DOMAIN page : page[c] = "pick"} : page \in Listing}
<1>10. NamedTo(v) =
         Listed
         \union {c \in ListTicketFeed("PAID") : PaidTicketsPage(v)[c].says = "pick"}
         \union {c \in ListTicketFeed("FREE") : FreeTicketsPage(v)[c].says = "masked"}
         \union (IF SignedIn(v) THEN {c \in AnalystFeed : NoticeText(c) = "pick"} ELSE {})
         \union AccountPurchases(v)
  BY DEF NamedTo
<1>11. \/ b \in Listed
       \/ b \in ListTicketFeed("PAID") /\ PaidTicketsPage(v)[b].says = "pick"
       \/ b \in ListTicketFeed("FREE") /\ FreeTicketsPage(v)[b].says = "masked"
       \/ SignedIn(v) /\ b \in {c \in AnalystFeed : NoticeText(c) = "pick"}
       \/ b \in AccountPurchases(v)
  <2> HIDE DEF Listed
  <2> QED BY <1>10
<1>12. b \in Listed => \E page \in Listing : b \in DOMAIN page /\ page[b] = "pick"
  <2> HIDE DEF Listing
  <2> QED OBVIOUS
<1>13. /\ DOMAIN FreeTicketsApi(v) = ListTicketFeed("FREE")
       /\ DOMAIN AnalystProfilePage(v) = ListedActive(v)
       /\ DOMAIN AnalystApi = AnalystFeed
       /\ DOMAIN FeedPage(v, TRUE) \subseteq AnalystFeed
       /\ \A c \in DOMAIN FeedPage(v, TRUE) : FeedPage(v, TRUE)[c] = BetEntry(c, v)
  BY DEF FreeTicketsApi, AnalystProfilePage, AnalystApi, FeedPage, PersonalFeed
<1> QED
  BY <1>1, <1>2, <1>3, <1>4, <1>5, <1>6, <1>7, <1>8, <1>9, <1>11, <1>12, <1>13

(* Every page, message and answer agrees with the ticket's own page on who    *)
(* reads a pick, for any bets, readers and requests at once.                *)
THEOREM PagesAgreeAlways == Spec => []PagesAgree
<1>1. IInv /\ MarketHolds => PagesAgree
  <2> SUFFICES ASSUME IInv, MarketHolds, NEW v \in Viewers PROVE
        /\ \A b \in NamedTo(v) : TicketPage(b, v).says = "pick"
        /\ \A b \in ListTicketFeed("FREE") :
             (FreeTicketsPage(v)[b].says = "signin") = (TicketPage(b, v).says = "signin")
    BY DEF PagesAgree
  <2>1. ASSUME NEW b \in NamedTo(v) PROVE TicketPage(b, v).says = "pick"
    BY NamedIsOpen DEF TicketPage, Unless
  <2>2. ASSUME NEW b \in ListTicketFeed("FREE")
        PROVE  (FreeTicketsPage(v)[b].says = "signin") = (TicketPage(b, v).says = "signin")
    <3>1. bets[b].visibility = "PUBLIC"
      BY DEF ListTicketFeed
    <3>2. FreeTicketsPage(v)[b].says = IF Locks(b, v, FALSE, FALSE) THEN "signin" ELSE "masked"
      BY <3>1 DEF FreeTicketsPage, TicketRow, Unless, TicketGate
    <3>3. TicketPage(b, v).says = IF IsTicketLocked(b, v) THEN "signin" ELSE "pick"
      BY <3>1 DEF TicketPage, Unless, TicketGate
    <3>4. Locks(b, v, FALSE, FALSE) <=> IsTicketLocked(b, v)
      BY <3>1 DEF Locks, IsTicketLocked
    <3> QED BY <3>2, <3>3, <3>4
  <2> QED BY <2>1, <2>2
<1> QED
  BY <1>1, Marketed, PTL

-----------------------------------------------------------------------------
(* What a reader is shown leads to what the actions accept.                 *)
LEMMA ReadersAreLed ==
  ASSUME IInv, MarketHolds
  PROVE  OffersReaders
<1> SUFFICES ASSUME NEW v \in Readers, NEW b \in AnalystFeed PROVE
      /\ b \in ListTicketFeed("PAID") /\ PaidTicketsPage(v)[b].buy => ForSaleTo(v, b)
      /\ ForSaleTo(v, b) => TicketPage(b, v).wayIn = "buy"
      /\ TicketPage(b, v).wayIn = "buy" => ForSaleTo(v, b) \/ bets[b].status \in Settled
      /\ TicketPage(b, v).wayIn = "author" => SubscribeButton(v) # "not yet"
      /\ Open(b) /\ now < LastKickoff[b] /\ ~IsTicketLocked(b, v)
           /\ bets[b].visibility # "PUBLIC" => b \in ListedActive(v)
      /\ b \in Bell /\ now < Kickoff[b] => b \in ListedActive(v)
      /\ b \in ListTicketFeed("FREE") => b \in Sitemap
      /\ b \in ActiveBets /\ standing = "APPROVED" =>
           b \in ListedActive(v) /\ OnTheList /\ AnalystRow(v) # "profile"
  BY DEF OffersReaders
<1>1. /\ b \in Bets /\ Published(b) /\ bets[b].visibility \in Visibilities
      /\ bets[b].status \in {"PENDING"} \union Settled
      /\ v \notin {"stranger", "author", "admin"} /\ v \in Viewers
  <2>1. b \in Bets /\ Published(b)
    BY DEF AnalystFeed
  <2> QED
    BY <2>1, RowFacts, PredictionsAssumption DEF Viewers
<1>2. bets[b].visibility = "PREMIUM" => (IsTicketLocked(b, v) <=> <<v, b>> \notin bought)
  BY <1>1 DEF IsTicketLocked, Locks, PurchasedTicketIds
<1>3. TicketPage(b, v).wayIn = IF IsTicketLocked(b, v) THEN WayIn(b, v) ELSE "none"
  BY DEF TicketPage
<1>4. /\ WayIn(b, v) = "buy" <=> bets[b].visibility = "PREMIUM"
      /\ WayIn(b, v) = "author" <=> bets[b].visibility = "VIP"
  BY <1>1 DEF WayIn, SignedIn, Visibilities
<1>5. Kickoff[b] \in Nat /\ LastKickoff[b] \in Nat /\ Kickoff[b] <= LastKickoff[b] /\ now \in Nat
  BY <1>1, PredictionsAssumption DEF IInv, PredictionsTypeOK
<1>6. ASSUME b \in ListTicketFeed("PAID"), PaidTicketsPage(v)[b].buy PROVE ForSaleTo(v, b)
  <2>1. bets[b].visibility = "PREMIUM" /\ Open(b)
    BY <1>6 DEF ListTicketFeed
  <2>2. IsTicketLocked(b, v)
    BY <1>6 DEF PaidTicketsPage, TicketRow
  <2> QED BY <1>2, <2>1, <2>2 DEF ForSaleTo
<1>7. ForSaleTo(v, b) => TicketPage(b, v).wayIn = "buy"
  BY <1>2, <1>3, <1>4 DEF ForSaleTo
<1>8. TicketPage(b, v).wayIn = "buy" => ForSaleTo(v, b) \/ bets[b].status \in Settled
  BY <1>1, <1>2, <1>3, <1>4 DEF ForSaleTo, Open
<1>9. TicketPage(b, v).wayIn = "author" => SubscribeButton(v) # "not yet"
  <2>1. bets[b].visibility = "VIP" => forSale
    BY <1>1 DEF MarketHolds
  <2>2. forSale => SubscribeButton(v) # "not yet"
    BY <1>1 DEF SubscribeButton, PlanCard
  <2> QED BY <1>3, <1>4, <2>1, <2>2
<1>10. Open(b) /\ now < LastKickoff[b] /\ ~IsTicketLocked(b, v)
         /\ bets[b].visibility # "PUBLIC" => b \in ListedActive(v)
  BY <1>1 DEF ListedActive, ListOpenTickets, IsTicketStillActive
<1>11. b \in ListOpenTickets /\ now < Kickoff[b] => b \in ListedActive(v)
  BY <1>1, <1>5 DEF ListedActive, IsTicketStillActive
<1>12. b \in Bell => b \in ListOpenTickets
  BY DEF Bell
<1>13. b \in ListTicketFeed("FREE") => b \in Sitemap
  BY <1>1 DEF ListTicketFeed, Sitemap
<1>14. ASSUME b \in ActiveBets, standing = "APPROVED"
       PROVE  b \in ListedActive(v) /\ OnTheList /\ AnalystRow(v) # "profile"
  <2>1. b \in ListOpenTickets /\ now < Kickoff[b] /\ bets[b].visibility = "VIP"
    BY <1>14 DEF ActiveBets, IsTicketStillActive
  <2>2. forSale
    BY <1>1, <2>1 DEF MarketHolds
  <2> QED BY <1>1, <1>11, <1>14, <2>1, <2>2 DEF OnTheList, AnalystRow
<1> QED
  BY <1>6, <1>7, <1>8, <1>9, <1>10, <1>11, <1>12, <1>13, <1>14

(* The author's four lists split what was posted between them.              *)
LEMMA OneListEach ==
  ASSUME IInv, MarketHolds, NEW b \in Posted
  PROVE  Cardinality({list \in BetLists : b \in AnalystPage[list]}) = 1
<1>1. /\ b \in Bets /\ bets[b] # NoBet /\ (bets[b].finishedAt # None => Published(b))
      /\ (bets[b].status # "PENDING" => Published(b))
  <2>1. b \in Bets /\ bets[b] # NoBet
    BY DEF Posted
  <2> QED BY <2>1, RowFacts
<1>2. /\ b \in AnalystPage["live"]
           <=> Published(b) /\ bets[b].status = "PENDING" /\ bets[b].finishedAt = None
      /\ b \in AnalystPage["awaiting"]
           <=> bets[b].finishedAt # None /\ bets[b].status = "PENDING"
      /\ b \in AnalystPage["settled"] <=> bets[b].status # "PENDING"
      /\ b \in AnalystPage["drafts"] <=> ~Published(b)
  BY <1>1 DEF AnalystPage, Open
<1>3. PICK list \in BetLists : \A other \in BetLists : b \in AnalystPage[other] <=> other = list
  <2>1. CASE ~Published(b)
    BY <1>1, <1>2, <2>1 DEF BetLists
  <2>2. CASE Published(b) /\ bets[b].status # "PENDING"
    BY <1>1, <1>2, <2>2 DEF BetLists
  <2>3. CASE Published(b) /\ bets[b].status = "PENDING" /\ bets[b].finishedAt = None
    BY <1>1, <1>2, <2>3 DEF BetLists
  <2>4. CASE Published(b) /\ bets[b].status = "PENDING" /\ bets[b].finishedAt # None
    BY <1>1, <1>2, <2>4 DEF BetLists
  <2> QED BY <2>1, <2>2, <2>3, <2>4
<1>4. {other \in BetLists : b \in AnalystPage[other]} = {list}
  BY <1>3
<1> QED
  BY <1>4, FS_Singleton

(* The workspaces of the author and of the administrator offer what the      *)
(* actions accept.                                                         *)
LEMMA WorkspacesLead ==
  ASSUME IInv, MarketHolds
  PROVE  OffersWorkspace
<1>1. \A b \in Bets : /\ Published(b) => b \in Posted
                      /\ bets[b].finishedAt # None => Published(b)
                      /\ b \in Posted => bets[b].visibility \in Visibilities
                      /\ b \in Posted <=> bets[b].status # "NONE"
  BY RowFacts DEF Posted, NoBet
<1>2. Posted \subseteq Bets
  BY DEF Posted
<1>3. /\ AnalystPage.live = {b \in Posted : Open(b) /\ bets[b].finishedAt = None}
      /\ AnalystPage.awaiting = {b \in Posted : bets[b].finishedAt # None /\ bets[b].status = "PENDING"}
      /\ AnalystPage.drafts = {b \in Posted : ~Published(b)}
  BY DEF AnalystPage
<1>4. /\ PredictionsPage("awaiting") = AnalystPage.awaiting
      /\ PredictionsPage("active") = {b \in ListOpenTickets : bets[b].finishedAt = None}
      /\ PredictionsPage("all") = Posted
  BY <1>3 DEF PredictionsPage
<1>5. PublishButtons = {b \in Bets : Publishable(b)}
  BY <1>1, <1>2, <1>3 DEF PublishButtons, Publishable
<1>6. \A b \in FinishForms : Open(b)
  BY <1>3 DEF FinishForms
<1>7. \A b \in Posted : bets[b].visibility \in KindsToPost
  BY <1>1, <1>2 DEF KindsToPost, MarketHolds
<1>8. AdminQueue = AnalystPage.awaiting
  BY <1>1, <1>2, <1>3 DEF AdminQueue
<1>9. PredictionsPage("active") = AnalystPage.live
  BY <1>1, <1>2, <1>3, <1>4 DEF ListOpenTickets, Open
<1>10. SettleForms = {b \in Bets : Open(b)}
  BY <1>1, <1>2, <1>4 DEF SettleForms, Open
<1>11. QueueForms \subseteq SettleForms
  BY <1>1, <1>10 DEF QueueForms, AdminQueue, Open
<1> QED
  BY <1>4, <1>5, <1>6, <1>7, <1>8, <1>9, <1>10, <1>11, OneListEach DEF OffersWorkspace

(* Nobody is led into a refusal, and no way to something that may be done is  *)
(* lost, whatever has been posted, sold, handed over and settled.           *)
THEOREM OffersLeadAlways == Spec => []OffersLead
<1>1. IInv /\ MarketHolds => OffersLead
  BY ReadersAreLed, WorkspacesLead DEF OffersLead
<1> QED
  BY <1>1, Marketed, PTL
=============================================================================
