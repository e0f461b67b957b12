----------------------------- MODULE Predictions -----------------------------
(***************************************************************************)
(* A prediction (a bet, a ticket) from the author's form to its settlement, *)
(* and who may read, see and buy it on the way.  Each operation reads the   *)
(* row, checks it, and updates it by its id in the same transaction: reads  *)
(* are READ COMMITTED, so two operations may both read before either        *)
(* writes.  Only the result has a unique row per prediction.               *)
(***************************************************************************)
EXTENDS Integers, FiniteSets

CONSTANTS
  None,
  Bets,
  Kickoff,        \* Prediction.eventAt: the form and the service require it
  LastKickoff,    \* Prediction.eventEndAt: when the last of its matches starts
  Odds,           \* oddsMilli
  Outcomes,       \* what an administrator may settle
  Readers,        \* viewers who are neither the author nor administrators
  Requests,       \* requests under way at the same time
  MaxTime         \* bound

(* Other viewers: a stranger who is not signed in, the author and an        *)
(* administrator.                                                           *)
Viewers == Readers \union {"stranger", "author", "admin"}
Stake == 100
Visibilities == {"PUBLIC", "PREMIUM", "VIP"}
Settled == {"WON", "LOST", "VOID", "PUSH"}

ASSUME PredictionsAssumption ==
  /\ Kickoff \in [Bets -> Nat] /\ LastKickoff \in [Bets -> Nat]
  /\ \A b \in Bets : Kickoff[b] <= LastKickoff[b]
  /\ Odds \in [Bets -> Nat]
  /\ Outcomes \subseteq Settled
  /\ {"stranger", "author", "admin"} \intersect Readers = {}
  /\ MaxTime \in Nat
  /\ None \notin Nat \union Bets \union Visibilities \union Settled
  /\ None \notin [outcome : Settled, profit : Int]

VARIABLES
  now,
  bets,         \* Prediction
  results,      \* PredictionResult
  request,      \* what each request has read
  announced,    \* NEW_BET notices queued, by bet (0, 1, more)
  told,         \* SETTLEMENT notices queued, by bet (0, 1, more)
  forSale,      \* whether the author has a priced, active plan
  subscription, \* each reader's row to the author's plan
  standing,     \* AnalystProfile.status: APPROVED, or taken off the site
  checkouts,    \* ticket checkouts at the gateway
  bought,       \* PredictionPurchase rows that are not revoked
  doubled       \* history: bets two requests were publishing at once

vars == <<now, bets, results, request, announced, told, forSale, subscription,
          standing, checkouts, bought, doubled>>

NoBet == [status |-> "NONE", publishedAt |-> None, finishedAt |-> None, claim |-> None,
          visibility |-> None]
Idle == [does |-> "nothing", bet |-> None, at |-> None, says |-> None]

Times == 0..MaxTime \union {None}

Rows == [status : {"NONE", "PENDING"} \union Outcomes, publishedAt : Times, finishedAt : Times,
         claim : {None, "WON", "LOST"}, visibility : Visibilities \union {None}]
Results == [outcome : Outcomes, profit : Int]
Reads == [does : {"nothing", "post", "publish", "announce", "finish", "settle", "tell"},
          bet : Bets \union {None}, at : Times,
          says : Visibilities \union Settled \union {None}]

PredictionsTypeOK ==
  /\ now \in 0..MaxTime
  /\ bets \in [Bets -> Rows]
  /\ results \in [Bets -> Results \union {None}]
  /\ request \in [Requests -> Reads]
  /\ announced \in [Bets -> 0..2] /\ told \in [Bets -> 0..2]
  /\ forSale \in BOOLEAN
  /\ subscription \in [Readers -> {"NONE", "PENDING", "ACTIVE", "LAPSED"}]
  /\ standing \in {"APPROVED", "SUSPENDED"}
  /\ checkouts \subseteq Readers \X Bets /\ bought \subseteq Readers \X Bets
  /\ doubled \subseteq Bets

Init ==
  /\ now = 0
  /\ bets = [b \in Bets |-> NoBet]
  /\ results = [b \in Bets |-> None]
  /\ request = [r \in Requests |-> Idle]
  /\ announced = [b \in Bets |-> 0] /\ told = [b \in Bets |-> 0]
  /\ forSale = FALSE
  /\ subscription = [v \in Readers |-> "NONE"] /\ standing = "APPROVED"
  /\ checkouts = {} /\ bought = {} /\ doubled = {}

marketVars == <<forSale, subscription, standing, checkouts, bought>>

Published(b) == bets[b].publishedAt # None

Ask(r, does, b, at, says) ==
  request' = [request EXCEPT ![r] = [does |-> does, bet |-> b, at |-> at, says |-> says]]

Busy(does, b) == \E r \in Requests : request[r].does = does /\ request[r].bet = b
-----------------------------------------------------------------------------
(* createPrediction.                                                       *)

KickoffRefusal(b) == Kickoff[b] <= now

(* Published at once or kept as a draft, and held to the kickoff either     *)
(* way.  A subscription ticket needs a plan somebody can buy.              *)
StartPost(r, b, visibility, publishNow) ==
  /\ request[r] = Idle /\ standing = "APPROVED"
  /\ bets[b] = NoBet /\ ~Busy("post", b)
  /\ ~KickoffRefusal(b)
  /\ visibility = "VIP" => forSale
  /\ Ask(r, "post", b, IF publishNow THEN now ELSE None, visibility)
  /\ UNCHANGED <<now, bets, results, announced, told, doubled, marketVars>>

(* The row carries the time of the check.                                   *)
CreateRow(r) ==
  /\ request[r].does = "post"
  /\ bets' = [bets EXCEPT ![request[r].bet] =
                [status |-> "PENDING", publishedAt |-> request[r].at, finishedAt |-> None,
                 claim |-> None, visibility |-> request[r].says]]
  /\ IF request[r].at # None THEN Ask(r, "announce", request[r].bet, None, None)
                             ELSE request' = [request EXCEPT ![r] = Idle]
  /\ UNCHANGED <<now, results, announced, told, doubled, marketVars>>
-----------------------------------------------------------------------------
(* publishPrediction.                                                      *)

PublishableAnyTime(b) ==   \* faulty: only posting is held to the kickoff
  bets[b].status # "NONE" /\ ~Published(b)

PublishableAgain(b) ==   \* faulty: a published bet may be published once more
  bets[b].status # "NONE" /\ ~KickoffRefusal(b)

Publishable(b) == bets[b].status # "NONE" /\ ~Published(b) /\ ~KickoffRefusal(b)

StartPublish(r, b) ==
  /\ request[r] = Idle /\ standing = "APPROVED"
  /\ Publishable(b)
  /\ Ask(r, "publish", b, now, None)
  /\ doubled' = IF Busy("publish", b) THEN doubled \union {b} ELSE doubled
  /\ UNCHANGED <<now, bets, results, announced, told, marketVars>>

WritePublished(r) ==
  /\ request[r].does = "publish"
  /\ bets' = [bets EXCEPT ![request[r].bet].publishedAt = request[r].at]
  /\ Ask(r, "announce", request[r].bet, None, None)
  /\ UNCHANGED <<now, results, announced, told, doubled, marketVars>>

Once(n) == IF n < 2 THEN n + 1 ELSE n

(* notifyNewBet, once the bet is committed.                                *)
Announce(r) ==
  /\ request[r].does = "announce"
  /\ announced' = [announced EXCEPT ![request[r].bet] = Once(@)]
  /\ request' = [request EXCEPT ![r] = Idle]
  /\ UNCHANGED <<now, bets, results, told, doubled, marketVars>>
-----------------------------------------------------------------------------
(* markPredictionFinished.                                                 *)

Open(b) == Published(b) /\ bets[b].status = "PENDING"

StartFinish(r, b, claim) ==
  /\ request[r] = Idle /\ standing = "APPROVED"
  /\ Open(b)
  /\ Ask(r, "finish", b, bets[b].finishedAt, claim)
  /\ UNCHANGED <<now, bets, results, announced, told, doubled, marketVars>>

(* The first handing over counts, and the latest claim.                     *)
FinishedRow(bet, q) ==
  [bet EXCEPT !.finishedAt = IF q.at # None THEN q.at ELSE now, !.claim = q.says]

(* A settlement that came in between is not looked at again.               *)
WriteFinished(r) ==
  /\ request[r].does = "finish"
  /\ bets' = [bets EXCEPT ![request[r].bet] = FinishedRow(@, request[r])]
  /\ request' = [request EXCEPT ![r] = Idle]
  /\ UNCHANGED <<now, results, announced, told, doubled, marketVars>>
-----------------------------------------------------------------------------
(* settlePrediction.                                                       *)

Rounded(n, d) == (2 * n + d) \div (2 * d)

ComputeProfitUnitsCenti(outcome, odds) ==
  CASE outcome = "WON" -> Rounded(Stake * (odds - 1000), 1000)
    [] outcome = "LOST" -> -Stake
    [] OTHER -> 0

StartSettle(r, b, outcome) ==
  /\ request[r] = Idle
  /\ Open(b)
  /\ Ask(r, "settle", b, None, outcome)
  /\ UNCHANGED <<now, bets, results, announced, told, doubled, marketVars>>

MaySettleOver(b) == TRUE   \* faulty: a result is written over the one there is

(* The result's unique row keeps a second settlement out.                   *)
MaySettle(b) == results[b] = None

WriteSettled(r) ==
  LET b == request[r].bet  outcome == request[r].says IN
  /\ request[r].does = "settle"
  /\ IF MaySettle(b)
       THEN /\ results' = [results EXCEPT ![b] =
                 [outcome |-> outcome, profit |-> ComputeProfitUnitsCenti(outcome, Odds[b])]]
            /\ bets' = [bets EXCEPT ![b].status = outcome, ![b].finishedAt = now]
            /\ Ask(r, "tell", b, None, None)
       ELSE /\ request' = [request EXCEPT ![r] = Idle]
            /\ UNCHANGED <<bets, results>>
  /\ UNCHANGED <<now, announced, told, doubled, marketVars>>

TellSettled(r) ==
  /\ request[r].does = "tell"
  /\ told' = [told EXCEPT ![request[r].bet] = Once(@)]
  /\ request' = [request EXCEPT ![r] = Idle]
  /\ UNCHANGED <<now, bets, results, announced, doubled, marketVars>>

(* A request that dies, or an update that throws: its transaction leaves    *)
(* nothing, and a notice that failed is given up.                          *)
Die(r) ==
  /\ request[r] # Idle
  /\ request' = [request EXCEPT ![r] = Idle]
  /\ UNCHANGED <<now, bets, results, announced, told, doubled, marketVars>>
-----------------------------------------------------------------------------
(* Who may read a ticket (isTicketLocked).  A paid one has exactly one key, *)
(* and settling it opens nothing.                                          *)

(* activePlanGrants: a row that is ACTIVE and whose time is not over, to the *)
(* moment.  LAPSED stands for one that is over and not yet closed.         *)
HoldsSubscription(v) == v \in Readers /\ subscription[v] = "ACTIVE"

PurchasedTicketIds(v) == {b \in Bets : <<v, b>> \in bought}

LocksUntilSettled(b, v, subscribes, hasPurchased) ==   \* faulty: the record opens what was sold
  /\ bets[b].status = "PENDING"
  /\ v \notin {"author", "admin"}
  /\ CASE bets[b].visibility = "PUBLIC" -> v = "stranger"
       [] bets[b].visibility = "PREMIUM" -> ~hasPurchased
       [] OTHER -> ~subscribes

Locks(b, v, subscribes, hasPurchased) ==
  CASE bets[b].visibility = "PUBLIC" -> bets[b].status = "PENDING" /\ v = "stranger"
    [] v \in {"author", "admin"} -> FALSE
    [] bets[b].visibility = "PREMIUM" -> ~hasPurchased
    [] OTHER -> ~subscribes

(* Whether the bet is shut to the viewer, by what the viewer really holds.  *)
IsTicketLocked(b, v) == Locks(b, v, HoldsSubscription(v), b \in PurchasedTicketIds(v))

(* How the slip's image may be served (imageAccess over the route's two     *)
(* passes): "public" is cached anywhere for a year.                        *)
SlipAccess(b, v) ==
  IF bets[b] = NoBet \/ ~IsTicketLocked(b, "stranger") THEN "public"
  ELSE IF v # "stranger" /\ ~IsTicketLocked(b, v) THEN "private" ELSE "denied"

-----------------------------------------------------------------------------
(* Buying one.                                                             *)

(* startTicketPurchase sells what is published, priced and unsettled, to    *)
(* anybody but its author who does not hold it.  It does not look at the    *)
(* kickoff.                                                                *)
ForSaleTo(v, b) ==
  /\ Open(b)
  /\ bets[b].visibility = "PREMIUM"
  /\ <<v, b>> \notin bought

StartTicketPurchase(v, b) ==
  /\ ForSaleTo(v, b)
  /\ <<v, b>> \notin checkouts
  /\ checkouts' = checkouts \union {<<v, b>>}
  /\ UNCHANGED <<now, bets, results, request, announced, told, doubled, forSale,
                 subscription, standing, bought>>

(* The webhook hears of the payment, whatever has become of the bet, or the *)
(* checkout is given up.                                                   *)
TicketPaid(v, b) ==
  /\ <<v, b>> \in checkouts
  /\ checkouts' = checkouts \ {<<v, b>>}
  /\ bought' \in {bought, bought \union {<<v, b>>}}
  /\ UNCHANGED <<now, bets, results, request, announced, told, doubled, forSale,
                 subscription, standing>>

TicketRefunded(v, b) ==
  /\ <<v, b>> \in bought
  /\ bought' = bought \ {<<v, b>>}
  /\ UNCHANGED <<now, bets, results, request, announced, told, doubled, forSale,
                 subscription, standing, checkouts>>

SetPlanPrice ==
  /\ ~forSale /\ standing = "APPROVED"
  /\ forSale' = TRUE
  /\ UNCHANGED <<now, bets, results, request, announced, told, doubled,
                 subscription, standing, checkouts, bought>>

(* The subscription's row, as its payments, the clock and the daily cron     *)
(* move it (Subscriptions has how); one row per reader.                    *)
SubscriptionMoves ==
  {<<"NONE", "PENDING">>, <<"PENDING", "ACTIVE">>, <<"PENDING", "NONE">>,
   <<"ACTIVE", "LAPSED">>, <<"ACTIVE", "NONE">>, <<"LAPSED", "ACTIVE">>, <<"LAPSED", "NONE">>}

ChangeSubscription(v) ==
  \E move \in SubscriptionMoves :
    /\ forSale /\ subscription[v] = move[1]
    /\ subscription' = [subscription EXCEPT ![v] = move[2]]
    /\ UNCHANGED <<now, bets, results, request, announced, told, doubled, forSale,
                   standing, checkouts, bought>>

(* An administrator takes the author off the site, or back.  What is for     *)
(* sale, sold and subscribed to stays as it is.                            *)
DecideAnalyst ==
  /\ standing' \in {"APPROVED", "SUSPENDED"} \ {standing}
  /\ UNCHANGED <<now, bets, results, request, announced, told, doubled, forSale,
                 subscription, checkouts, bought>>

Tick ==
  /\ now < MaxTime
  /\ now' = now + 1
  /\ UNCHANGED <<bets, results, request, announced, told, doubled, marketVars>>

Next ==
  \/ \E r \in Requests :
       \/ \E b \in Bets :
            \/ \E visibility \in Visibilities, publishNow \in BOOLEAN :
                 StartPost(r, b, visibility, publishNow)
            \/ StartPublish(r, b)
            \/ \E claim \in {"WON", "LOST"} : StartFinish(r, b, claim)
            \/ \E outcome \in Outcomes : StartSettle(r, b, outcome)
       \/ CreateRow(r) \/ WritePublished(r) \/ Announce(r) \/ WriteFinished(r)
       \/ WriteSettled(r) \/ TellSettled(r) \/ Die(r)
  \/ \E v \in Readers :
       \/ ChangeSubscription(v)
       \/ \E b \in Bets : StartTicketPurchase(v, b) \/ TicketPaid(v, b) \/ TicketRefunded(v, b)
  \/ SetPlanPrice \/ DecideAnalyst
  \/ Tick

Spec == Init /\ [][Next]_vars
-----------------------------------------------------------------------------
(* The two records the site computes count the same bets: the feed takes    *)
(* every published one that was won or lost (queries/tickets.ts), the       *)
(* author's page only those published before their kickoff                  *)
(* (countsInRecord).  No bet gets published after its match has begun,      *)
(* however long it was a draft and whoever publishes it twice.             *)
CountsInRecord(b) == Published(b) /\ bets[b].publishedAt < Kickoff[b]

RecordsAgree ==
  \A b \in Bets : Published(b) /\ bets[b].status \in {"WON", "LOST"} => CountsInRecord(b)

(* A settlement is final: neither a second one, nor an author's handing     *)
(* over or a publication that had read the bet while it was open, changes   *)
(* the outcome or its profit, and the bet always says what its result says. *)
OutcomeFinal ==
  [][\A b \in Bets : results[b] # None =>
       results'[b] = results[b] /\ bets'[b].status = results[b].outcome]_vars

(* The audience hears once that a bet is on and once how it ended, unless   *)
(* two requests were publishing it at the same time.                       *)
AnnouncedOnce ==
  \A b \in Bets : /\ announced[b] > 1 => b \in doubled
                  /\ told[b] <= 1

(* Who is let in changes by a sale only.  A paid pick that was shut to       *)
(* somebody opens by the one key it has, their own purchase of it or their  *)
(* own subscription, never by being settled (entitlements.ts); and an image *)
(* served as open to everybody, to be cached for a year, stays one that     *)
(* everybody may see (uploads/[name]/route.ts).                            *)
OpensByItsKey(b, v) ==
  IF bets[b].visibility = "PREMIUM" THEN <<v, b>> \in bought' \ bought
                                    ELSE HoldsSubscription(v)' /\ ~HoldsSubscription(v)

AccessChangesBySale ==
  [][\A b \in Bets :
       /\ \A v \in Viewers :
            bets[b].visibility \in {"PREMIUM", "VIP"} /\ IsTicketLocked(b, v)
              => IsTicketLocked(b, v)' \/ OpensByItsKey(b, v)
       /\ bets[b] # NoBet /\ SlipAccess(b, "stranger") = "public"
            => SlipAccess(b, "stranger")' = "public"]_vars
=============================================================================
