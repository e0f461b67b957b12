---------------------------- MODULE AccountPages ----------------------------
(***************************************************************************)
(* The doors of the site: which page a visitor ends at, what the menus lead *)
(* them to, the ways in the sign-in pages offer, and the forms an account,  *)
(* an applicant and an administrator are shown.  The tests stand in the      *)
(* proxy, in each layout, in each page, in each menu and again in the        *)
(* action behind the form; here a page is what it shows in the current state.*)
(***************************************************************************)
EXTENDS Accounts

(* Who asks: nobody, or somebody signed in to an account of a role, perhaps  *)
(* with a profile.                                                         *)
Nobody == [role |-> "NONE", profile |-> "NONE"]
Everybody == {Nobody} \union [role : {"USER", "ANALYST", "ADMIN"}, profile : Profiles]
Actor(a) == [role |-> accounts[a].role, profile |-> accounts[a].profile]

Known(v) == v # Nobody
Author(v) == v.profile = "APPROVED"

(* The role says who may ask, the profile who may publish.                  *)
RequireApprovedAnalyst(v) == v.role \in {"ANALYST", "ADMIN"} /\ Author(v)

AdminArea == {"/admin", "/admin/predictions", "/admin/reports", "/admin/analysts",
              "/admin/users", "/admin/payouts", "/admin/payments", "/admin/audit",
              "/admin/notifications", "/admin/payments/subscription-test"}
Workspace == {"/analyst", "/analyst/earnings"}
SignInPages == {"/login", "/register", "/auth/telegram", "/auth/google"}
LinkPages == {"/register/confirm", "/verify-email", "/reset-password", "/forgot-password"}
Public == {"/", "/free", "/paid", "own page"}
Site == AdminArea \union Workspace \union SignInPages \union LinkPages \union Public
          \union {"/account", "/apply", "/feed"}
-----------------------------------------------------------------------------
(* Where a request for a page ends.                                        *)

(* The www twin of the site's host, either way round, is sent to the host   *)
(* the cookie lives on; a host the rule does not cover is served as it is.  *)
CanonicalRedirect(host) == IF host = "twin" THEN "canonical" ELSE host

(* A cookie is looked for, not into.                                       *)
SignedInOnly == AdminArea \union Workspace \union {"/account", "/apply", "/feed"}
EarlyGate(page, cookie) == IF ~cookie /\ page \in SignedInOnly THEN "/login" ELSE page

AccountLayout(v) == IF Known(v) THEN "/account" ELSE "/login"

AdminLayout(page, v) ==
  IF v.role = "ADMIN" THEN page ELSE IF Known(v) THEN "/account" ELSE "/login"

AnalystLayout(page, v) == IF Known(v) THEN page ELSE "/login"

ApplyPage(v) ==
  IF ~Known(v) THEN "/login" ELSE IF Author(v) THEN "/analyst" ELSE "/apply"

FeedRoute(v) == IF Known(v) THEN "/feed" ELSE "/login"

SignInRoute(page, v) == IF Known(v) THEN "/account" ELSE page

(* Nor is there anything to confirm without what Google said of them.       *)
GoogleConfirmPage(v, sealed) ==
  IF Known(v) THEN "/account" ELSE IF sealed THEN "/auth/google" ELSE "/login"

(* An author's page is on the site while they are approved.                 *)
Answer(page, v, sealed) ==
  CASE page \in AdminArea -> AdminLayout(page, v)
    [] page \in Workspace -> AnalystLayout(page, v)
    [] page = "/account" -> AccountLayout(v)
    [] page = "/apply" -> ApplyPage(v)
    [] page = "/feed" -> FeedRoute(v)
    [] page = "/auth/google" -> GoogleConfirmPage(v, sealed)
    [] page \in SignInPages \ {"/auth/google"} -> SignInRoute(page, v)
    [] page = "own page" -> IF Author(v) THEN page ELSE "not found"
    [] OTHER -> page

(* One request; a visitor nobody knows may still send a cookie, of a        *)
(* session revoked or of an account suspended.                             *)
Proxy(page, v, cookie, sealed) ==
  LET gate == EarlyGate(page, cookie) IN
  IF gate = page THEN Answer(page, v, sealed) ELSE gate

Cookies(v) == IF Known(v) THEN {TRUE} ELSE BOOLEAN

(* For who has never applied; a refused application shows its status.       *)
AnalystApplyForm(v) == v.profile = "NONE"

(* What a page that is reached shows: itself, or why it has nothing to show. *)
Shows(page, v) ==
  CASE page \in Workspace -> IF Author(v) THEN page ELSE "no profile"
    [] page = "/apply" -> IF AnalystApplyForm(v) THEN "form" ELSE "status"
    [] OTHER -> page
-----------------------------------------------------------------------------
(* The menus.                                                              *)

(* The bar, with the author's ticket button; signed out, the two dialogs.   *)
SiteHeader(v) ==
  (IF Author(v) THEN Workspace ELSE {}) \union (IF v.role = "ADMIN" THEN {"/admin"} ELSE {})
AddTicketButton(v) == Author(v)
AuthButtons(v) == IF Known(v) THEN {} ELSE {"/login", "/register"}

(* The sheet behind the avatar; on a phone it carries the earnings too.      *)
AccountMenu(v) ==
  {"/account", "/feed"}
    \union (IF Author(v) THEN {"/analyst", "own page", "/analyst/earnings"} ELSE {"/apply"})
    \union (IF v.role = "ADMIN" THEN {"/admin"} ELSE {})

MobileNav == {"/free", "/paid", "/login", "/register"}

(* The sign-in pages show the same bar and know no workspace.               *)
BottomNav(v, workspace) ==
  {"/", "/free", "/paid"} \union
  {IF Author(v) /\ workspace THEN "/analyst" ELSE IF Known(v) THEN "/account" ELSE "/login"}

AuthLayout(v) == BottomNav(v, FALSE)

AdminNav(v) == IF v.role = "ADMIN" THEN AdminArea ELSE {}

Menus(v) ==
  SiteHeader(v) \union AuthButtons(v) \union AdminNav(v)
    \union BottomNav(v, TRUE) \union AuthLayout(v)
    \union (IF Known(v) THEN AccountMenu(v) ELSE MobileNav)
-----------------------------------------------------------------------------
(* The ways in.                                                            *)

LoginForm(a) == IF HasMail(a) /\ accounts[a].password = "chosen" THEN {"password"} ELSE {}
ForgotPasswordForm(a) == IF HasMail(a) THEN {"reset"} ELSE {}

(* By the identity at Google or Telegram, never by the address they give.   *)
SocialSignIn(a) ==
  {way \in {"google", "telegram"} :
     accounts[a][way] # None /\ Holders(way, accounts[a][way]) = {a}}

LoginPage(a) == LoginForm(a) \union ForgotPasswordForm(a) \union SocialSignIn(a)

(* The letters, by the pages they lead to.                                 *)
VerificationEmail == {"/verify-email"}
PasswordResetEmail == {"/reset-password"}
SignupConfirmEmail == {"/register/confirm"}
AccountExistsEmail == {"/login", "/forgot-password"}

(* Registering answers the same to everybody; the mailbox hears which it was. *)
RegisterForm(m) ==
  IF Holders("email", m) = {} THEN SignupConfirmEmail ELSE AccountExistsEmail

(* The way on from a page a letter led to.                                  *)
ConfirmSignupPage == {"/login", "/register"}
VerifyEmailPage == {"/account"}
ResetPasswordPage == {"/login"}
ForgotPasswordPage == {"/login"}
TelegramCallback == {"/login"}

(* What coming back from Google ends in: a session, the question for age and *)
(* terms, or the login page with one of two messages.                      *)
GoogleReturn(m) ==
  LET owners == Holders("google", m)  known == Holders("email", m)
      enter(as) == IF \E a \in as : accounts[a].status = "ACTIVE" THEN "session" ELSE "failed" IN
  IF owners # {} THEN enter(owners) ELSE
  CASE known = {} -> "/auth/google"
    [] \E a \in known : DecideGoogleLink(a) -> enter(known)
    [] \E a \in known : accounts[a].google # None -> "failed"
    [] OTHER -> "unverified"
-----------------------------------------------------------------------------
(* The account page and the forms on it.                                    *)

CanChangeOwnName(a) == accounts[a].profile \in {"NONE", "REJECTED"}

(* A pencil for the name on the document, and another for the byline.       *)
IdentityRow(a) == CanChangeOwnName(a)
AnalystIdentity(a) == accounts[a].profile = "APPROVED"

TelegramConnect(a) == IF accounts[a].chat = None THEN "connect" ELSE "unlink"

SignInMethods(a) ==
  (IF accounts[a].password # "none" THEN {"password"} ELSE {})
    \union (IF accounts[a].google # None THEN {"google"} ELSE {})
    \union (IF accounts[a].chat # None THEN {"telegram"} ELSE {})

(* The banner with the code form and the button for another letter.         *)
VerifyCodeForm(a) == ~accounts[a].verified

ReviewNotice(a) == accounts[a].profile = "PENDING"
-----------------------------------------------------------------------------
(* The administrator's desks.                                              *)

AdminAnalystsPage ==
  [pending |-> {a \in Rows : accounts[a].profile = "PENDING"},
   rest |-> {a \in Rows : accounts[a].profile \in {"APPROVED", "REJECTED", "SUSPENDED"}}]

Decisions(a) ==
  CASE accounts[a].profile = "PENDING" -> {"APPROVED", "REJECTED"}
    [] accounts[a].profile = "APPROVED" -> {"SUSPENDED"}
    [] OTHER -> {"APPROVED"}

ApplicationsQueue == {a \in Rows : accounts[a].profile = "PENDING"}

AdminUsersPage == {a \in Rows : accounts[a].status # "NONE"}
StatusButton(a) == IF accounts[a].status = "ACTIVE" THEN "SUSPENDED" ELSE "ACTIVE"
-----------------------------------------------------------------------------
(* Two redirects at most end at one page, the same with a dead cookie as     *)
(* with none; nobody unknown ends behind a door, nobody known at a sign-in   *)
(* page, and only an administrator in the administration.                  *)
Hop(page, v, cookie) == Proxy(page, v, cookie, FALSE)
End(page, v, cookie) == Hop(Hop(page, v, cookie), v, cookie)

PagesEnd ==
  /\ \A v \in Everybody, page \in Site : \A cookie \in Cookies(v) :
       LET end == End(page, v, cookie) IN
       /\ Hop(end, v, cookie) = end /\ end = End(page, v, TRUE)
       /\ end \in SignedInOnly => Known(v)
       /\ end \in SignInPages => ~Known(v)
       /\ end \in AdminArea => v.role = "ADMIN"
  /\ \A host \in {"canonical", "twin", "preview"} :
       CanonicalRedirect(CanonicalRedirect(host)) = CanonicalRedirect(host)

(* What a menu shows is there: no entry is redirected, missing, or answered  *)
(* with the notice that one has no profile.  A letter's pages are there for  *)
(* a reader who is signed out, and the way on from them ends at a sign-in    *)
(* page or at the account.                                                 *)
MenusLead ==
  \A v \in Everybody : \A page \in Menus(v), cookie \in Cookies(v) :
    Hop(page, v, cookie) = page /\ Shows(page, v) # "no profile"
LettersLead ==
  /\ \A page \in VerificationEmail \union PasswordResetEmail \union SignupConfirmEmail
                   \union AccountExistsEmail :
       \A cookie \in BOOLEAN : Hop(page, Nobody, cookie) = page
  /\ \A v \in Everybody :
       \A page \in ConfirmSignupPage \union VerifyEmailPage \union ResetPasswordPage
                       \union ForgotPasswordPage \union TelegramCallback, cookie \in Cookies(v) :
         End(page, v, cookie) \in IF Known(v) THEN {"/account"} ELSE SignInPages

(* The workspace, its menu entries and its ticket button, which ask for the  *)
(* profile, are shown to exactly those the actions accept, which ask for the *)
(* role too; the form for applying to exactly those who may apply; the form  *)
(* for the code to whom an unused code would be accepted from; and an        *)
(* identity listed as a way in opens this account and no other.            *)
FormsMatch(a) ==
  LET v == Actor(a)  author == RequireApprovedAnalyst(v) IN
  /\ \A page \in Workspace : (Shows(page, v) = page) = author
  /\ AddTicketButton(v) = author /\ AnalystIdentity(a) = author
  /\ (Hop("/apply", v, TRUE) = "/apply" /\ Shows("/apply", v) = "form") = MayApply(a)
  /\ ReviewNotice(a) => Hop("/apply", v, TRUE) = "/apply"
  /\ VerifyCodeForm(a) = MayResend(a)
  /\ HasMail(a) => \A l \in LinksOf(a, "CODE") : MayVerify(l) = VerifyCodeForm(a)
  /\ "google" \in SignInMethods(a) => "google" \in SocialSignIn(a)
  /\ IdentityRow(a) => ~author

(* Every profile is in one list, with decisions that change it, an applicant *)
(* in the queue as well; every account has the button that changes its       *)
(* status, and one that can be signed in to can be suspended.              *)
DesksMatch ==
  /\ AdminAnalystsPage.pending = ApplicationsQueue
  /\ \A a \in Rows :
       /\ Cardinality({list \in {"pending", "rest"} : a \in AdminAnalystsPage[list]})
            = IF accounts[a].profile = "NONE" THEN 0 ELSE 1
       /\ accounts[a].profile \notin Decisions(a)
       /\ SignedIn(a) => a \in AdminUsersPage /\ StatusButton(a) = "SUSPENDED"

(* Nobody is locked out: every active account that was never closed has a    *)
(* way in on the login page; an address the register form says is taken, and *)
(* one that Google is refused for as not verified, can be reset, and the     *)
(* code form awaits its owner.                                             *)
DoorsOpen ==
  /\ \A a \in Rows :
       accounts[a].status = "ACTIVE" /\ accounts[a].email # Closed => LoginPage(a) # {}
  /\ \A m \in Mailboxes :
       LET holders == Holders("email", m) IN
       /\ RegisterForm(m) = AccountExistsEmail => \E a \in holders : "reset" \in LoginPage(a)
       /\ GoogleReturn(m) = "/auth/google" => RegisterForm(m) = SignupConfirmEmail
       /\ GoogleReturn(m) = "unverified" =>
            \E a \in holders : "reset" \in LoginPage(a) /\ VerifyCodeForm(a)

(* The doors of the site agree with each other and with the actions behind   *)
(* them, though each asks anew: no redirect goes round, no menu leads to a   *)
(* refusal, no form is shown that its action refuses or hidden from one it   *)
(* would accept, no applicant is lost between the lists and nobody is        *)
(* locked out.                                                             *)
WaysLead ==
  /\ PagesEnd /\ MenusLead /\ LettersLead
  /\ \A a \in Rows : SignedIn(a) => FormsMatch(a)
  /\ DesksMatch /\ DoorsOpen
=============================================================================
