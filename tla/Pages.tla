-------------------------------- MODULE Pages --------------------------------
(***************************************************************************)
(* What the site shows of a prediction, and offers to do with it, to whom.  *)
(* Every page reads the rows of Predictions by a query of its own and       *)
(* decides on the server what reaches the browser; here a page is what it   *)
(* shows to a viewer in the current state.  All bets are one author's.      *)
(***************************************************************************)
EXTENDS Predictions

SignedIn(v) == v # "stranger"

(* The status of the viewer's row to the author's plan: ACTIVE until it is  *)
(* closed, whether or not its time is over.                                *)
PlanStatus(v) ==
  IF v \notin Readers THEN "NONE"
  ELSE IF subscription[v] = "LAPSED" THEN "ACTIVE" ELSE subscription[v]

(* Only a ticket sold singly carries a price.                               *)
Priced(b) == bets[b].visibility = "PREMIUM"
-----------------------------------------------------------------------------
(* The queries.                                                            *)

(* A shop window: what can still be acted on, by an author who is still on  *)
(* the site.                                                               *)
ListTicketFeed(kind) ==
  {b \in Bets : /\ bets[b].visibility = (IF kind = "FREE" THEN "PUBLIC" ELSE "PREMIUM")
                /\ Open(b) /\ bets[b].finishedAt = None
                /\ Kickoff[b] > now /\ standing = "APPROVED"}

ListOpenTickets == {b \in Bets : Open(b)}

IsTicketStillActive(b, viewerHoldsIt) ==
  now < (IF viewerHoldsIt THEN LastKickoff[b] ELSE Kickoff[b])

(* What the author posted, newest first; by the authors a reader follows or *)
(* has an ACTIVE subscription to.                                          *)
AnalystFeed == {b \in Bets : Published(b)}
PersonalFeed(v, follows) ==
  IF follows \/ PlanStatus(v) = "ACTIVE" THEN AnalystFeed ELSE {}

(* The home page's list: who has ever published a subscription ticket.      *)
OnTheList ==
  standing = "APPROVED" /\ \E b \in Bets : Published(b) /\ bets[b].visibility = "VIP"

ActiveBets ==
  {b \in ListOpenTickets : /\ bets[b].visibility = "VIP" /\ bets[b].finishedAt = None
                           /\ IsTicketStillActive(b, FALSE)}

(* The bell of a follower, before they open any of these.                   *)
Bell == IF standing = "APPROVED" THEN ListOpenTickets ELSE {}

(* sitemap.xml: free tickets, settled or not, whoever may read them.        *)
Sitemap == {b \in Bets : Published(b) /\ bets[b].visibility = "PUBLIC"}
-----------------------------------------------------------------------------
(* The pages.  What stands where the pick would be: the pick, the gate a    *)
(* reader is at, or, in the free list, a mask over everybody's.            *)

TicketGate(b) ==
  CASE bets[b].visibility = "PUBLIC" -> "signin"
    [] bets[b].visibility = "PREMIUM" -> "purchase"
    [] bets[b].visibility = "VIP" -> "subscription"

Unless(locked, b) == IF locked THEN TicketGate(b) ELSE "pick"

(* A card on a phone and a row of the table: the same tests twice.          *)
TicketRow(b, locked, showPrice, maskPicks) ==
  [says |-> IF maskPicks /\ ~locked THEN "masked" ELSE Unless(locked, b),
   buy |-> showPrice /\ locked /\ Priced(b)]

(* A free ticket needs no subscription and no purchase, so none are read.   *)
FreeTicketsPage(v) ==
  [b \in ListTicketFeed("FREE") |-> TicketRow(b, Locks(b, v, FALSE, FALSE), FALSE, TRUE)]

FreeTicketsApi(v) ==
  [b \in ListTicketFeed("FREE") |-> Unless(Locks(b, v, FALSE, FALSE), b)]

PaidTicketsPage(v) ==
  [b \in ListTicketFeed("PAID") |-> TicketRow(b, IsTicketLocked(b, v), TRUE, FALSE)]

(* A link preview, for whoever it is sent to.                               *)
MetadataOnceSettled(b) ==   \* faulty: a settled ticket is taken for public
  IF bets[b].status = "PENDING" THEN "masked" ELSE "pick"

TicketMetadata(b) ==
  IF bets[b].visibility # "PUBLIC" \/ bets[b].status = "PENDING" THEN "masked" ELSE "pick"

(* The way in that a locked ticket's page shows; the author's card is on    *)
(* every ticket's page.                                                    *)
WayIn(b, v) ==
  CASE bets[b].visibility = "PUBLIC" -> "login"
    [] bets[b].visibility = "PREMIUM" -> IF SignedIn(v) THEN "buy" ELSE "login"
    [] OTHER -> "author"

(* A published ticket's page: the slip and the analysis with the pick, the   *)
(* author's proof of the result for two only.                              *)
TicketPage(b, v) ==
  LET locked == IsTicketLocked(b, v) IN
  [says |-> Unless(locked, b), slip |-> ~locked, analysis |-> ~locked,
   wayIn |-> IF locked THEN WayIn(b, v) ELSE "none",
   proof |-> bets[b].status \in Settled /\ v \in {"author", "admin"}]

(* The plan in the profile's dialog.                                        *)
PlanCard(v) ==
  CASE PlanStatus(v) = "ACTIVE" -> "owned"
    [] PlanStatus(v) = "PENDING" -> "waiting"
    [] OTHER -> IF SignedIn(v) THEN "form" ELSE "login"

SubscribeButton(v) ==
  IF v = "author" THEN "none" ELSE IF forSale THEN PlanCard(v) ELSE "not yet"

ListedForFollowers(v) ==   \* faulty: a ticket leaves at its first kickoff for everybody
  {b \in ListOpenTickets : IsTicketStillActive(b, FALSE)}

(* A holder follows a ticket to its last kickoff; a free one has no holder. *)
ListedActive(v) ==
  {b \in ListOpenTickets :
     IsTicketStillActive(b, bets[b].visibility # "PUBLIC" /\ ~IsTicketLocked(b, v))}

(* The profile's list of active tickets, stripped before it is sent.        *)
AnalystProfilePage(v) == [b \in ListedActive(v) |-> Unless(IsTicketLocked(b, v), b)]

(* The public record answers everybody as a stranger.                       *)
AnalystApi == [b \in AnalystFeed |-> Unless(Locks(b, "stranger", FALSE, FALSE), b)]

BetEntry(b, v) == Unless(IsTicketLocked(b, v), b)
FeedPage(v, follows) ==
  [b \in IF SignedIn(v) THEN PersonalFeed(v, follows) ELSE {} |-> BetEntry(b, v)]

(* What a row of the home page sells.                                       *)
AnalystRow(v) ==
  IF PlanStatus(v) = "ACTIVE" THEN "subscribed"
  ELSE IF forSale THEN "subscribe" ELSE "profile"

(* The account's list of what its owner bought names every pick.            *)
AccountPurchases(v) == PurchasedTicketIds(v)

(* The message that a bet is on, and that it was settled, names the pick    *)
(* only when it is free.                                                   *)
NoticeText(b) == IF bets[b].visibility = "PUBLIC" THEN "pick" ELSE "masked"
-----------------------------------------------------------------------------
(* The author's workspace and the administrator's.                          *)

Posted == {b \in Bets : bets[b] # NoBet}

AnalystPage ==
  [live |-> {b \in Posted : Open(b) /\ bets[b].finishedAt = None},
   awaiting |-> {b \in Posted : bets[b].finishedAt # None /\ bets[b].status = "PENDING"},
   settled |-> {b \in Posted : bets[b].status # "PENDING"},
   drafts |-> {b \in Posted : ~Published(b)}]

BetLists == {"live", "awaiting", "settled", "drafts"}

StudioOpen == standing = "APPROVED"

FinishForms == AnalystPage.live
PublishButtons == {b \in AnalystPage.drafts : ~KickoffRefusal(b)}
KindsToPost == IF forSale THEN Visibilities ELSE Visibilities \ {"VIP"}

PredictionsPage(review) ==
  CASE review = "awaiting" -> {b \in Posted : bets[b].finishedAt # None /\ bets[b].status = "PENDING"}
    [] review = "active" -> {b \in ListOpenTickets : bets[b].finishedAt = None}
    [] review = "settled" -> {b \in Posted : bets[b].status # "PENDING"}
    [] OTHER -> Posted

SettleForms == {b \in PredictionsPage("all") : Open(b)}

(* The queue of an administrator's work; every row has its form open.       *)
AdminQueue == {b \in Bets : bets[b].finishedAt # None /\ bets[b].status = "PENDING"}
QueueForms == AdminQueue
-----------------------------------------------------------------------------
(* Every bet a page, an answer or a message names the pick of to the viewer. *)
NamedTo(v) ==
  (UNION {{b \in DOMAIN page : page[b] = "pick"} :
            page \in {FreeTicketsApi(v), FeedPage(v, TRUE), AnalystProfilePage(v), AnalystApi,
                      [b \in Posted |-> TicketMetadata(b)]}})
  \union {b \in ListTicketFeed("PAID") : PaidTicketsPage(v)[b].says = "pick"}
  \union {b \in ListTicketFeed("FREE") : FreeTicketsPage(v)[b].says = "masked"}
  \union (IF SignedIn(v) THEN {b \in AnalystFeed : NoticeText(b) = "pick"} ELSE {})
  \union AccountPurchases(v)

(* The pages agree on who reads a pick, though each decides by a query of    *)
(* its own: whatever a list, a feed, an answer of the API, a link preview, a *)
(* message or the account names or promises to a viewer is open to them on   *)
(* the ticket's own page, at every moment of its life; and a list that shows *)
(* a gate shows the one the ticket's page has.                             *)
PagesAgree ==
  \A v \in Viewers :
    /\ \A b \in NamedTo(v) : TicketPage(b, v).says = "pick"
    /\ \A b \in ListTicketFeed("FREE") :
         (FreeTicketsPage(v)[b].says = "signin") = (TicketPage(b, v).says = "signin")

(* A reader is led to what they can do, and to nothing they cannot: a Buy    *)
(* button is one the checkout honours (but for a settled ticket's page,      *)
(* whose button the checkout refuses), what is for sale to them has one, a   *)
(* subscription ticket that is shut to them has a plan behind it, and their  *)
(* own ticket stays on the author's page until its last match begins; a bet  *)
(* counted by the bell or the home page is found where that count leads.    *)
OffersReaders ==
  \A v \in Readers, b \in AnalystFeed :
    /\ b \in ListTicketFeed("PAID") /\ PaidTicketsPage(v)[b].buy => ForSaleTo(v, b)
    /\ ForSaleTo(v, b) => TicketPage(b, v).wayIn = "buy"
    /\ TicketPage(b, v).wayIn = "buy" => ForSaleTo(v, b) \/ bets[b].status \in Settled
    /\ TicketPage(b, v).wayIn = "author" => SubscribeButton(v) # "not yet"
    /\ Open(b) /\ now < LastKickoff[b] /\ ~IsTicketLocked(b, v)
         /\ bets[b].visibility # "PUBLIC" => b \in ListedActive(v)
    /\ b \in Bell /\ now < Kickoff[b] => b \in ListedActive(v)
    /\ b \in ListTicketFeed("FREE") => b \in Sitemap
    /\ b \in ActiveBets /\ standing = "APPROVED" =>
         b \in ListedActive(v) /\ OnTheList /\ AnalystRow(v) # "profile"

(* The author finds every bet in exactly one list, the administrator the     *)
(* same bets as active and as handed over; the forms that stand beside them  *)
(* are the ones the actions accept.                                        *)
OffersWorkspace ==
  /\ \A b \in Posted : Cardinality({list \in BetLists : b \in AnalystPage[list]}) = 1
  /\ StudioOpen => PublishButtons = {b \in Bets : Publishable(b)}
  /\ \A b \in FinishForms : Open(b)
  /\ \A b \in Posted : bets[b].visibility \in KindsToPost
  /\ AdminQueue = AnalystPage.awaiting /\ AdminQueue = PredictionsPage("awaiting")
  /\ PredictionsPage("active") = AnalystPage.live
  /\ QueueForms \subseteq SettleForms /\ SettleForms = {b \in Bets : Open(b)}

(* No page leads a reader, an author or an administrator into a refusal, or  *)
(* loses the way to something they may do.                                 *)
OffersLead == OffersReaders /\ OffersWorkspace
=============================================================================
