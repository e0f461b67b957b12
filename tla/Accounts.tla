------------------------------ MODULE Accounts ------------------------------
(***************************************************************************)
(* Accounts, their ways in (password, Google, Telegram), the sessions and   *)
(* one-use links, moderation and the approval of analysts.                 *)
(*                                                                         *)
(* Every request reads first and writes later, and what it read may have    *)
(* changed by then: a link is read outside the transaction that uses it, a  *)
(* password is checked before the session is opened, and sessions are       *)
(* revoked after the change that makes them worthless has committed.  Only  *)
(* the unique columns of User are checked by the write itself.             *)
(***************************************************************************)
EXTENDS Integers, FiniteSets

CONSTANTS
  None,
  Rows,        \* rows of User, used or not
  Mailboxes,   \* a mailbox is also the address of one Google subject
  Chats,       \* Telegram chats; a chat is also one person at Telegram
  InitAccounts,
  Requests,
  MaxLinks,    \* bound: unused links of one purpose and account
  MaxStarts,   \* bound: requests begun
  MaxCrashes   \* bound: requests that die

Closed == "closed"          \* closed-<id>@closed.invalid
Placeholder == "telegram"   \* telegramPlaceholderEmail, which receives nothing

Profiles == {"NONE", "PENDING", "APPROVED", "REJECTED", "SUSPENDED"}
Account ==
  [status : {"NONE", "ACTIVE", "SUSPENDED", "DELETED"},
   email : Mailboxes \union {None, Closed, Placeholder}, verified : BOOLEAN,
   password : {"none", "random", "chosen"},
   google : Mailboxes \union {None}, telegram : Chats \union {None},
   chat : Chats \union {None},
   role : {"USER", "ANALYST"}, profile : Profiles]

Purposes == {"VERIFY", "CODE", "RESET", "TELEGRAM"}
Link == [user : Rows, purpose : Purposes, no : 1..MaxLinks, issued : Nat]

(* What the process that serves a request holds between its steps.         *)
NoRequest == [at |-> "idle"]
Request ==
  {NoRequest}
  \union [at : {"open", "close", "notify"}, user : Rows]
  \union [at : {"revoke"}, user : Rows, then : {NoRequest} \union [at : {"open"}, user : Rows]]
  \union [at : {"link"}, user : Rows, google : Mailboxes, active : BOOLEAN]
  \union [at : {"verify"}, user : Rows, link : Link]
  \union [at : {"reset"}, user : Rows, link : Link, read : Nat]
  \union [at : {"bind"}, user : Rows, link : Link, chat : Chats]
  \union [at : {"decide"}, user : Rows, decision : Profiles \ {"NONE", "PENDING"}, was : Profiles]

(* A row that is not used holds nothing, one that is has an address, which   *)
(* stands for a person at Telegram when it receives nothing; and of the      *)
(* columns that tell accounts apart no two rows have the same.              *)
Unique(rows, field, x) ==
  \A a, b \in Rows : rows[a][field] = x /\ rows[b][field] = x => a = b

ASSUME AccountsAssumption ==
  /\ None \notin Rows \union Mailboxes \union Chats \union {Closed, Placeholder}
  /\ {Closed, Placeholder} \intersect Mailboxes = {}
  /\ InitAccounts \in [Rows -> Account]
  /\ \A a \in Rows :
       /\ InitAccounts[a].status = "NONE" =>
            /\ InitAccounts[a].email \notin Mailboxes /\ InitAccounts[a].google = None
            /\ InitAccounts[a].telegram = None /\ InitAccounts[a].chat = None
            /\ InitAccounts[a].profile = "NONE"
       /\ InitAccounts[a].status # "NONE" => InitAccounts[a].email # None
       /\ InitAccounts[a].email = Placeholder => InitAccounts[a].telegram # None
       /\ InitAccounts[a].profile = "APPROVED" => InitAccounts[a].role = "ANALYST"
  /\ \A m \in Mailboxes : Unique(InitAccounts, "email", m) /\ Unique(InitAccounts, "google", m)
  /\ \A c \in Chats : Unique(InitAccounts, "telegram", c) /\ Unique(InitAccounts, "chat", c)
  /\ IsFiniteSet(Requests)
  /\ MaxLinks \in Nat \ {0} /\ MaxStarts \in Nat /\ MaxCrashes \in Nat

VARIABLES
  accounts,   \* User, with its AnalystProfile
  sessions,   \* Session rows not revoked: the account, and the era it was opened in
  links,      \* AuthToken rows not consumed
  requests,   \* what each request holds between its reads and its writes
  starts, crashes,
  (* History.                                                              *)
  era,        \* changes to an account that must end its sessions
  resets,     \* password resets
  lost,       \* accounts a request died for before it revoked their sessions
  approvals,  \* times a profile became APPROVED
  notices,    \* "you are approved" notices queued
  outrun      \* profiles decided on a status read before another decision

vars == <<accounts, sessions, links, requests, starts, crashes,
          era, resets, lost, approvals, notices, outrun>>
history == <<era, resets, lost, approvals, notices, outrun>>

Pending(q, at) == requests[q].at = at
User(q) == requests[q].user

AccountsTypeOK ==
  /\ accounts \in [Rows -> Account]
  /\ \A a \in Rows : accounts[a].profile = "APPROVED" => accounts[a].role = "ANALYST"
  /\ sessions \subseteq [user : Rows, opened : Nat]
  /\ links \subseteq Link
  /\ requests \in [Requests -> Request]
  /\ starts \in 0..MaxStarts /\ crashes \in 0..MaxCrashes
  /\ era \in [Rows -> Nat] /\ resets \in [Rows -> Nat]
  /\ lost \subseteq Rows /\ outrun \subseteq Rows
  /\ approvals \in [Rows -> Nat] /\ notices \in [Rows -> Nat]

Init ==
  /\ accounts = InitAccounts
  /\ sessions = {[user |-> a, opened |-> 0] :
                   a \in {b \in Rows : accounts[b].status = "ACTIVE"}}
  /\ links = {}
  /\ requests = [q \in Requests |-> NoRequest]
  /\ starts = 0 /\ crashes = 0
  /\ era = [a \in Rows |-> 0] /\ resets = [a \in Rows |-> 0]
  /\ approvals = [a \in Rows |-> 0] /\ notices = [a \in Rows |-> 0]
  /\ lost = {} /\ outrun = {}
-----------------------------------------------------------------------------
(* Requests.                                                               *)

(* A free process takes a request, which goes on as next.                  *)
Begin(q, next) ==
  /\ requests[q] = NoRequest /\ starts < MaxStarts
  /\ starts' = starts + 1
  /\ requests' = [requests EXCEPT ![q] = next]

Goes(q, next) == requests' = [requests EXCEPT ![q] = next] /\ UNCHANGED starts
Ends(q) == Goes(q, NoRequest)

Opening(a) == [at |-> "open", user |-> a]
Revoking(a, then) == [at |-> "revoke", user |-> a, then |-> then]

Set(a, row) == accounts' = [accounts EXCEPT ![a] = row]
NewEra(a) == era' = [era EXCEPT ![a] = @ + 1]

(* readSession: a session counts while its account is active.              *)
SignedIn(a) == accounts[a].status = "ACTIVE" /\ \E s \in sessions : s.user = a

HasMail(a) == accounts[a].email \in Mailboxes
Holders(field, x) == {a \in Rows : accounts[a][field] = x}

(* The unique columns of User refuse a second holder, and the request       *)
(* fails.                                                                  *)
Free(field, x, a) == Holders(field, x) \subseteq {a}

(* A link not consumed, not expired, of the purpose it is used for.         *)
LinksOf(a, purpose) == {l \in links : l.user = a /\ l.purpose = purpose}
Held == {requests[q].link : q \in {r \in Requests : "link" \in DOMAIN requests[r]}}
Unused(a, purpose) ==
  {n \in 1..MaxLinks : \A l \in links \union Held :
                          l.user = a /\ l.purpose = purpose => l.no # n}
NewLink(a, purpose) ==
  [user |-> a, purpose |-> purpose, issued |-> resets[a],
   no |-> CHOOSE n \in Unused(a, purpose) : TRUE]
-----------------------------------------------------------------------------
(* Opening and ending a session.                                           *)

(* createSession: nothing is read again, whatever happened since the check. *)
CreateSession(q) ==
  /\ Pending(q, "open") /\ Ends(q)
  /\ sessions' = sessions \union {[user |-> User(q), opened |-> era[User(q)]]}
  /\ UNCHANGED <<accounts, links, crashes, history>>

WithoutSessions(a) == {s \in sessions : s.user # a}

RevokeAllSessionsForUser(q) ==
  /\ Pending(q, "revoke")
  /\ sessions' = WithoutSessions(User(q))
  /\ Goes(q, requests[q].then)
  /\ UNCHANGED <<accounts, links, crashes, history>>

(* loginAction: the password and the status are checked once.              *)
Login(q, a) ==
  /\ HasMail(a) /\ accounts[a].password = "chosen" /\ accounts[a].status = "ACTIVE"
  /\ Begin(q, Opening(a))
  /\ UNCHANGED <<accounts, sessions, links, crashes, history>>

Logout(q, s) ==
  /\ SignedIn(s.user) /\ s \in sessions
  /\ sessions' = sessions \ {s}
  /\ Begin(q, NoRequest)
  /\ UNCHANGED <<accounts, links, crashes, history>>
-----------------------------------------------------------------------------
(* Signing up.  A sign-up link is sealed, not stored, and opened any number *)
(* of times; the unique address is what lets it create one account.         *)

NewAccount(email, password, google, telegram) ==
  [status |-> "ACTIVE", email |-> email, verified |-> email \in Mailboxes,
   password |-> password, google |-> google, telegram |-> telegram, chat |-> None,
   role |-> "USER", profile |-> "NONE"]

SignUp(q, a, row) ==
  /\ accounts[a].status = "NONE"
  /\ Set(a, row)
  /\ Begin(q, Opening(a))
  /\ UNCHANGED <<sessions, links, crashes, history>>

CompleteSignup(q, a, m) ==
  /\ Free("email", m, a)
  /\ SignUp(q, a, NewAccount(m, "chosen", None, None))

CompleteGoogleSignup(q, a, m) ==
  /\ Free("email", m, a) /\ Free("google", m, a)
  /\ SignUp(q, a, NewAccount(m, "random", m, None))

(* telegramAuthAction: sign in by the person's id at Telegram, or sign up.   *)
TelegramAuth(q, t) ==
  \/ \E a \in Holders("telegram", t) :
       /\ accounts[a].status = "ACTIVE"
       /\ Begin(q, Opening(a))
       /\ UNCHANGED <<accounts, sessions, links, crashes, history>>
  \/ /\ Holders("telegram", t) = {}
     /\ \E a \in Rows : SignUp(q, a, NewAccount(Placeholder, "random", None, t))
-----------------------------------------------------------------------------
(* Google's callback.                                                      *)

(* decideGoogleLink: LINK, and neither TAKEN nor UNVERIFIED.               *)
DecideGoogleLink(a) == accounts[a].google = None /\ accounts[a].verified

GoogleCallback(q, m) ==
  /\ \/ \E a \in Holders("google", m) :
          accounts[a].status = "ACTIVE" /\ Begin(q, Opening(a))
     \/ /\ Holders("google", m) = {}
        /\ \E a \in Holders("email", m) :
             /\ DecideGoogleLink(a)
             /\ Begin(q, [at |-> "link", user |-> a, google |-> m,
                          active |-> accounts[a].status = "ACTIVE"])
  /\ UNCHANGED <<accounts, sessions, links, crashes, history>>

(* The account read above is linked, whatever became of it; its sessions    *)
(* are revoked, and a new one opened for an account that was active.        *)
LinkGoogle(q) ==
  /\ Pending(q, "link") /\ UNCHANGED <<sessions, links, crashes, resets, lost,
                                       approvals, notices, outrun>>
  /\ LET a == User(q)  m == requests[q].google  IN
     \/ /\ Free("google", m, a)
        /\ Set(a, [accounts[a] EXCEPT !.google = m])
        /\ NewEra(a)
        /\ Goes(q, Revoking(a, IF requests[q].active THEN Opening(a) ELSE NoRequest))
     \/ ~Free("google", m, a) /\ Ends(q) /\ UNCHANGED <<accounts, era>>
-----------------------------------------------------------------------------
(* Proving the mailbox.                                                    *)

MayResend(a) == SignedIn(a) /\ ~accounts[a].verified

(* Links pile up and expire; of the codes only the newest counts.           *)
ResendVerification(q, a) ==
  /\ MayResend(a)
  /\ Unused(a, "VERIFY") # {} /\ Unused(a, "CODE") # {}
  /\ links' = (links \ LinksOf(a, "CODE"))
                \union {NewLink(a, "VERIFY"), NewLink(a, "CODE")}
  /\ Begin(q, NoRequest)
  /\ UNCHANGED <<accounts, sessions, crashes, history>>

(* The letter has to arrive, and a code is typed by whom it was sent to.    *)
MayVerify(l) ==
  /\ accounts[l.user].email # Placeholder
  /\ \/ l.purpose = "VERIFY"
     \/ l.purpose = "CODE" /\ MayResend(l.user)

ReadVerification(q, l) ==
  /\ l \in links /\ MayVerify(l)
  /\ Begin(q, [at |-> "verify", user |-> l.user, link |-> l])
  /\ UNCHANGED <<accounts, sessions, links, crashes, history>>

VerifyEmail(q) ==
  /\ Pending(q, "verify")
  /\ Set(User(q), [accounts[User(q)] EXCEPT !.verified = TRUE])
  /\ links' = links \ {requests[q].link}
  /\ Ends(q)
  /\ UNCHANGED <<sessions, crashes, history>>
-----------------------------------------------------------------------------
(* Resetting the password.                                                 *)

ForgotPassword(q, a) ==
  /\ HasMail(a) /\ Unused(a, "RESET") # {}
  /\ links' = links \union {NewLink(a, "RESET")}
  /\ Begin(q, NoRequest)
  /\ UNCHANGED <<accounts, sessions, crashes, history>>

(* "read" is history: the resets there had been when the link was tested.    *)
ReadReset(q, l) ==
  /\ l \in links /\ l.purpose = "RESET"
  /\ Begin(q, [at |-> "reset", user |-> l.user, link |-> l, read |-> resets[l.user]])
  /\ UNCHANGED <<accounts, sessions, links, crashes, history>>

ConsumedOwnOnly(q) == {requests[q].link}   \* faulty: the other links live on

(* Every other reset link of the account dies with the one used.  The       *)
(* password is set whether or not the request's own link still lives.      *)
Consumed(q) == {requests[q].link} \union LinksOf(User(q), "RESET")

ResetKeepsSessions(q) ==   \* faulty: whoever is signed in stays so
  /\ Pending(q, "reset")
  /\ Set(User(q), [accounts[User(q)] EXCEPT !.password = "chosen"])
  /\ links' = links \ Consumed(q)
  /\ resets' = [resets EXCEPT ![User(q)] = @ + 1]
  /\ NewEra(User(q)) /\ Ends(q)
  /\ UNCHANGED <<sessions, crashes, lost, approvals, notices, outrun>>

ResetPassword(q) ==
  /\ Pending(q, "reset")
  /\ Set(User(q), [accounts[User(q)] EXCEPT !.password = "chosen"])
  /\ links' = links \ Consumed(q)
  /\ resets' = [resets EXCEPT ![User(q)] = @ + 1]
  /\ NewEra(User(q)) /\ Goes(q, Revoking(User(q), NoRequest))
  /\ UNCHANGED <<sessions, crashes, lost, approvals, notices, outrun>>
-----------------------------------------------------------------------------
(* The chat at Telegram.                                                   *)

(* An earlier unused link is consumed first.                               *)
CreateTelegramLink(q, a) ==
  /\ SignedIn(a) /\ Unused(a, "TELEGRAM") # {}
  /\ links' = (links \ LinksOf(a, "TELEGRAM")) \union {NewLink(a, "TELEGRAM")}
  /\ Begin(q, NoRequest)
  /\ UNCHANGED <<accounts, sessions, crashes, history>>

(* The link and the chat's owner are read; the status of the account is not. *)
ReadTelegramLink(q, l, c) ==
  /\ l \in links /\ l.purpose = "TELEGRAM" /\ Free("chat", c, l.user)
  /\ Begin(q, [at |-> "bind", user |-> l.user, link |-> l, chat |-> c])
  /\ UNCHANGED <<accounts, sessions, links, crashes, history>>

RedeemByOwnerRead(q) ==   \* faulty: no unique column behind the owner read
  /\ Pending(q, "bind") /\ Ends(q)
  /\ links' = links \ {requests[q].link}
  /\ Set(User(q), [accounts[User(q)] EXCEPT !.chat = requests[q].chat])
  /\ UNCHANGED <<sessions, crashes, history>>

RedeemTelegramLink(q) ==
  /\ Pending(q, "bind") /\ Ends(q)
  /\ \/ /\ Free("chat", requests[q].chat, User(q))
        /\ links' = links \ {requests[q].link}
        /\ Set(User(q), [accounts[User(q)] EXCEPT !.chat = requests[q].chat])
     \/ /\ ~Free("chat", requests[q].chat, User(q))
        /\ UNCHANGED <<links, accounts>>
  /\ UNCHANGED <<sessions, crashes, history>>

(* From the settings, or /stop in the chat itself.                          *)
UnlinkTelegram(q, a) ==
  /\ accounts[a].chat # None
  /\ Set(a, [accounts[a] EXCEPT !.chat = None])
  /\ Begin(q, NoRequest)
  /\ UNCHANGED <<sessions, links, crashes, history>>
-----------------------------------------------------------------------------
(* Suspending, reinstating and closing an account.                         *)

(* An administrator sets either status on any account, a closed one too.    *)
SetUserStatus(q, a, status) ==
  /\ accounts[a].status # "NONE"
  /\ Set(a, [accounts[a] EXCEPT !.status = status])
  /\ \/ status = "SUSPENDED" /\ NewEra(a) /\ Begin(q, Revoking(a, NoRequest))
     \/ status = "ACTIVE" /\ UNCHANGED era /\ Begin(q, NoRequest)
  /\ UNCHANGED <<sessions, links, crashes, resets, lost, approvals, notices, outrun>>

(* The subscriptions are cancelled between this and the closing.           *)
ReadForClosing(q, a) ==
  /\ SignedIn(a)
  /\ Begin(q, [at |-> "close", user |-> a])
  /\ UNCHANGED <<accounts, sessions, links, crashes, history>>

CloseAccount(q) ==
  /\ Pending(q, "close")
  /\ Set(User(q), [accounts[User(q)] EXCEPT !.status = "DELETED", !.email = Closed,
                     !.verified = FALSE, !.google = None, !.telegram = None, !.chat = None])
  /\ NewEra(User(q)) /\ Goes(q, Revoking(User(q), NoRequest))
  /\ UNCHANGED <<sessions, links, crashes, resets, lost, approvals, notices, outrun>>
-----------------------------------------------------------------------------
(* Becoming an analyst.                                                    *)

(* One application an account: a refused one is not repeated.               *)
MayApply(a) == SignedIn(a) /\ accounts[a].profile = "NONE"

ApplyAsAnalyst(q, a) ==
  /\ MayApply(a)
  /\ Set(a, [accounts[a] EXCEPT !.profile = "PENDING"])
  /\ Begin(q, NoRequest)
  /\ UNCHANGED <<sessions, links, crashes, history>>

ReadProfile(q, a, decision) ==
  /\ accounts[a].profile # "NONE"
  /\ Begin(q, [at |-> "decide", user |-> a, decision |-> decision,
               was |-> accounts[a].profile])
  /\ UNCHANGED <<accounts, sessions, links, crashes, history>>

NewsWhenApproving(q) == requests[q].decision = "APPROVED"   \* faulty: again and again

(* Only on the change.                                                     *)
News(q) == requests[q].decision = "APPROVED" /\ requests[q].was # "APPROVED"

GrantsNoRole(a, decision) == accounts[a].role   \* faulty: approved, and shut out

(* Approval grants the role publishing asks for; nothing takes it back.     *)
RoleAfter(a, decision) == IF decision = "APPROVED" THEN "ANALYST" ELSE accounts[a].role

DecideAnalyst(q) ==
  /\ Pending(q, "decide")
  /\ LET a == User(q)  r == requests[q]  approved == r.decision = "APPROVED"  IN
       /\ Set(a, [accounts[a] EXCEPT !.profile = r.decision,
                    !.role = RoleAfter(a, r.decision)])
       /\ approvals' = [approvals EXCEPT ![a] =
            @ + IF approved /\ accounts[a].profile # "APPROVED" THEN 1 ELSE 0]
       /\ outrun' = outrun \union IF r.was = accounts[a].profile THEN {} ELSE {a}
       /\ Goes(q, IF News(q) THEN [at |-> "notify", user |-> a] ELSE NoRequest)
  /\ UNCHANGED <<sessions, links, crashes, era, resets, lost, notices>>

NotifyAnalystApproved(q) ==
  /\ Pending(q, "notify") /\ Ends(q)
  /\ notices' = IF accounts[User(q)].status = "ACTIVE"
                THEN [notices EXCEPT ![User(q)] = @ + 1] ELSE notices
  /\ UNCHANGED <<accounts, sessions, links, crashes, era, resets, lost, approvals, outrun>>
-----------------------------------------------------------------------------
(* A process dies, or the database refuses it, between its steps.           *)
Die(q) ==
  /\ requests[q] # NoRequest /\ crashes < MaxCrashes
  /\ crashes' = crashes + 1
  /\ lost' = lost \union IF Pending(q, "revoke") THEN {User(q)} ELSE {}
  /\ Ends(q)
  /\ UNCHANGED <<accounts, sessions, links, era, resets, approvals, notices, outrun>>

Next ==
  \E q \in Requests :
    \/ CreateSession(q) \/ RevokeAllSessionsForUser(q)
    \/ LinkGoogle(q) \/ VerifyEmail(q) \/ ResetPassword(q) \/ RedeemTelegramLink(q)
    \/ CloseAccount(q) \/ DecideAnalyst(q) \/ NotifyAnalystApproved(q) \/ Die(q)
    \/ \E a \in Rows :
         \/ Login(q, a) \/ ResendVerification(q, a) \/ ForgotPassword(q, a)
         \/ CreateTelegramLink(q, a) \/ UnlinkTelegram(q, a)
         \/ ReadForClosing(q, a) \/ ApplyAsAnalyst(q, a)
         \/ \E m \in Mailboxes : CompleteSignup(q, a, m) \/ CompleteGoogleSignup(q, a, m)
         \/ \E status \in {"ACTIVE", "SUSPENDED"} : SetUserStatus(q, a, status)
         \/ \E d \in {"APPROVED", "REJECTED", "SUSPENDED"} : ReadProfile(q, a, d)
    \/ \E s \in sessions : Logout(q, s)
    \/ \E m \in Mailboxes : GoogleCallback(q, m)
    \/ \E c \in Chats : TelegramAuth(q, c)
    \/ \E l \in links :
         \/ ReadVerification(q, l) \/ ReadReset(q, l)
         \/ \E c \in Chats : ReadTelegramLink(q, l, c)

Spec == Init /\ [][Next]_vars
-----------------------------------------------------------------------------
(* A reset, a first sign-in with Google, a suspension and a closing end     *)
(* every session open at that moment, unless the process dies before it     *)
(* revokes them (revokeAllSessionsForUser, called after each commit).       *)
SessionsDie ==
  \A s \in sessions :
    \/ s.opened = era[s.user]
    \/ s.user \in lost
    \/ \E q \in Requests : Pending(q, "revoke") /\ User(q) = s.user

(* A reset link sets the password only if it was asked for after the last   *)
(* reset, or in a request that had read it before that reset: whoever opens *)
(* it later finds it dead, and the guard that a request does not repeat     *)
(* costs no more than that (actions/auth.ts:620-669).                      *)
LinksDieUnlessRead ==
  /\ \A l \in links : l.purpose = "RESET" => l.issued = resets[l.user]
  /\ \A q \in Requests :
       Pending(q, "reset") => requests[q].link.issued = requests[q].read

(* "Every other reset link for this account dies with this one"             *)
(* (actions/auth.ts:648), and no request that has read one in time may use it *)
(* or its own a second time: no password is set by a link older than the    *)
(* reset before.                                                           *)
OtherLinksDie ==
  [][\A a \in Rows : resets'[a] # resets[a] =>
       \E q \in Requests : /\ Pending(q, "reset") /\ User(q) = a
                           /\ requests[q].link.issued = resets[a]]_vars

(* An address, a Google subject, a person at Telegram and a chat belong to  *)
(* one account each, in whatever order requests read and write             *)
(* (telegram-link.ts: a claim on another's chat is refused, never moved).   *)
OneHolder ==
  /\ \A m \in Mailboxes : Cardinality(Holders("email", m)) <= 1
                          /\ Cardinality(Holders("google", m)) <= 1
  /\ \A c \in Chats : Cardinality(Holders("telegram", c)) <= 1
                      /\ Cardinality(Holders("chat", c)) <= 1

(* An analyst hears of an approval once: as often as the profile became     *)
(* approved and no more, unless two administrators decided at once          *)
(* (actions/admin.ts, decideAnalyst).                                      *)
ApprovedOnce ==
  \A a \in Rows \ outrun :
    notices[a] + Cardinality({q \in Requests : Pending(q, "notify") /\ User(q) = a})
      <= approvals[a]

(* What account.ts says of a closed account, and its links do not keep:     *)
(* no channel out of it survives.                                          *)
ClosedKeepsNoChannel ==
  \A a \in Rows : accounts[a].status = "DELETED" => accounts[a].chat = None
=============================================================================
