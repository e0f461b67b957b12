--------------------------- MODULE Accounts_proofs ---------------------------
(***************************************************************************)
(* Proofs about accounts: types, sessions that die, links that are used      *)
(* once, columns with one holder and approvals announced once, for any        *)
(* accounts, mailboxes and chats, and any finite number of requests at once. *)
(***************************************************************************)
EXTENDS AccountPages, FiniteSetTheorems, TLAPS

Used(a) == accounts[a].status # "NONE"

(* The rows of User: one that is not used holds nothing a request looks for. *)
AccountsSound ==
  /\ accounts \in [Rows -> Account]
  /\ \A a \in Rows :
       /\ ~Used(a) => /\ accounts[a].email \notin Mailboxes
                      /\ accounts[a].google = None /\ accounts[a].telegram = None
                      /\ accounts[a].chat = None /\ accounts[a].profile = "NONE"
       /\ accounts[a].profile = "APPROVED" => accounts[a].role = "ANALYST"

(* Links and requests are about accounts that exist, and the session opened  *)
(* after a revocation is for the account whose sessions were revoked.        *)
LinksSound == links \subseteq Link /\ \A l \in links : Used(l.user)

About(next) ==
  next # NoRequest =>
    /\ Used(next.user)
    /\ next.at = "revoke" => next.then = NoRequest \/ next.then.user = next.user
    /\ next.at = "reset" => next.link.issued = next.read

(* A reset link that nobody has used was asked for after the last reset.     *)
LinksNew == \A l \in links : l.purpose = "RESET" => l.issued = resets[l.user]

RequestsSound ==
  requests \in [Requests -> Request] /\ \A q \in Requests : About(requests[q])

SessionsSound == sessions \subseteq [user : Rows, opened : Nat]

HistorySound ==
  /\ starts \in 0..MaxStarts /\ crashes \in 0..MaxCrashes
  /\ era \in [Rows -> Nat] /\ resets \in [Rows -> Nat]
  /\ lost \subseteq Rows /\ outrun \subseteq Rows
  /\ approvals \in [Rows -> Nat] /\ notices \in [Rows -> Nat]

IInv ==
  /\ AccountsSound /\ LinksSound /\ RequestsSound /\ SessionsSound /\ HistorySound
  /\ SessionsDie /\ LinksNew
-----------------------------------------------------------------------------
(* What a request of each kind holds.                                      *)
LEMMA RequestHolds ==
  ASSUME NEW r \in Request
  PROVE  /\ r.at \in {"idle", "open", "close", "notify", "revoke", "link", "verify", "reset",
                     "bind", "decide"}
         /\ (r.at = "idle") = (r = NoRequest)
         /\ r.at # "idle" => r.user \in Rows
         /\ r.at = "revoke" => r.then \in {NoRequest} \union [at : {"open"}, user : Rows]
         /\ r.at = "link" => r.google \in Mailboxes
         /\ r.at \in {"verify", "reset", "bind"} => r.link \in Link
         /\ r.at = "bind" => r.chat \in Chats
         /\ r.at = "decide" => /\ r.decision \in Profiles \ {"NONE", "PENDING"}
                              /\ r.was \in Profiles
<1>1. CASE r = NoRequest
  BY <1>1 DEF NoRequest
<1>2. CASE r \in [at : {"open", "close", "notify"}, user : Rows]
  BY <1>2 DEF NoRequest
<1>3. CASE r \in [at : {"revoke"}, user : Rows,
                  then : {NoRequest} \union [at : {"open"}, user : Rows]]
  <2>1. r.then \in {NoRequest} \union [at : {"open"}, user : Rows]
    BY <1>3
  <2>2. r.at = "revoke" /\ r.user \in Rows
    BY <1>3
  <2>3. r # NoRequest
    BY <2>2 DEF NoRequest
  <2> QED
    BY <2>1, <2>2, <2>3
<1>4. CASE r \in [at : {"link"}, user : Rows, google : Mailboxes, active : BOOLEAN]
  BY <1>4 DEF NoRequest
<1>5. CASE \/ r \in [at : {"verify"}, user : Rows, link : Link]
           \/ r \in [at : {"reset"}, user : Rows, link : Link, read : Nat]
  BY <1>5 DEF NoRequest
<1>6. CASE r \in [at : {"bind"}, user : Rows, link : Link, chat : Chats]
  BY <1>6 DEF NoRequest
<1>7. CASE r \in [at : {"decide"}, user : Rows, decision : Profiles \ {"NONE", "PENDING"},
                  was : Profiles]
  BY <1>7 DEF NoRequest
<1> QED
  BY <1>1, <1>2, <1>3, <1>4, <1>5, <1>6, <1>7 DEF Request

(* The requests a handler begins or goes on with.                          *)
LEMMA RequestKinds ==
  ASSUME NEW a \in Rows
  PROVE  /\ NoRequest \in Request
         /\ Opening(a) \in Request
         /\ Revoking(a, NoRequest) \in Request /\ Revoking(a, Opening(a)) \in Request
         /\ [at |-> "close", user |-> a] \in Request /\ [at |-> "notify", user |-> a] \in Request
         /\ \A m \in Mailboxes, active \in BOOLEAN :
              [at |-> "link", user |-> a, google |-> m, active |-> active] \in Request
         /\ \A l \in Link : /\ [at |-> "verify", user |-> a, link |-> l] \in Request
                            /\ \A n \in Nat :
                                 [at |-> "reset", user |-> a, link |-> l, read |-> n] \in Request
         /\ \A l \in Link, c \in Chats :
              [at |-> "bind", user |-> a, link |-> l, chat |-> c] \in Request
         /\ \A d \in Profiles \ {"NONE", "PENDING"}, w \in Profiles :
              [at |-> "decide", user |-> a, decision |-> d, was |-> w] \in Request
<1>1. NoRequest \in Request /\ Opening(a) \in Request
  BY DEF Request, Opening
<1>2. Opening(a) \in [at : {"open"}, user : Rows]
  BY DEF Opening
<1>3. Revoking(a, NoRequest) \in Request /\ Revoking(a, Opening(a)) \in Request
  BY <1>2 DEF Request, Revoking
<1>4. /\ [at |-> "close", user |-> a] \in Request
      /\ [at |-> "notify", user |-> a] \in Request
  BY DEF Request
<1>5. \A m \in Mailboxes, active \in BOOLEAN :
        [at |-> "link", user |-> a, google |-> m, active |-> active] \in Request
  BY DEF Request
<1>6. \A l \in Link : /\ [at |-> "verify", user |-> a, link |-> l] \in Request
                     /\ \A n \in Nat :
                          [at |-> "reset", user |-> a, link |-> l, read |-> n] \in Request
  BY DEF Request
<1>7. \A l \in Link, c \in Chats :
        [at |-> "bind", user |-> a, link |-> l, chat |-> c] \in Request
  BY DEF Request
<1>8. \A d \in Profiles \ {"NONE", "PENDING"}, w \in Profiles :
        [at |-> "decide", user |-> a, decision |-> d, was |-> w] \in Request
  BY DEF Request
<1> QED
  BY <1>1, <1>3, <1>4, <1>5, <1>6, <1>7, <1>8
-----------------------------------------------------------------------------
(* A row that is written keeps the table sound, and no account disappears.   *)
LEMMA SetSound ==
  ASSUME AccountsSound, NEW a \in Rows, NEW row \in Account, Set(a, row),
         row.status # "NONE", row.profile = "APPROVED" => row.role = "ANALYST"
  PROVE  AccountsSound' /\ \A b \in Rows : Used(b) => Used(b)'
  BY DEF AccountsSound, Set, Used

LEMMA SameSound ==
  ASSUME AccountsSound, UNCHANGED accounts
  PROVE  AccountsSound' /\ \A b \in Rows : Used(b) => Used(b)'
  BY DEF AccountsSound, Used

LEMMA GoesSound ==
  ASSUME RequestsSound, NEW q \in Requests, NEW next \in Request,
         requests' = [requests EXCEPT ![q] = next],
         About(next)', \A b \in Rows : Used(b) => Used(b)'
  PROVE  RequestsSound'
<1>1. requests' \in [Requests -> Request]
  BY DEF RequestsSound
<1>2. ASSUME NEW r \in Requests PROVE About(requests[r])'
  <2>1. CASE r = q
    BY <2>1 DEF RequestsSound
  <2>2. CASE r # q
    <3>1. requests'[r] = requests[r] /\ About(requests[r]) /\ requests[r] \in Request
      BY <2>2 DEF RequestsSound
    <3>2. requests[r] # NoRequest => requests[r].user \in Rows
      BY <3>1, RequestHolds
    <3> QED
      BY <3>1, <3>2 DEF About, Used
  <2> QED
    BY <2>1, <2>2
<1> QED
  BY <1>1, <1>2 DEF RequestsSound

LEMMA FewerLinksSound ==
  ASSUME LinksSound, links' \subseteq links, \A b \in Rows : Used(b) => Used(b)'
  PROVE  LinksSound'
<1>1. \A l \in links' : l \in Link /\ l.user \in Rows /\ Used(l.user)
  BY DEF LinksSound, Link
<1> QED
  BY <1>1 DEF LinksSound, Used
-----------------------------------------------------------------------------
(* The sessions that have to die.                                          *)
LEMMA SessionsStay ==
  ASSUME IInv, NEW q \in Requests, NEW next, requests' = [requests EXCEPT ![q] = next],
         requests[q].at # "revoke", sessions' \subseteq sessions, UNCHANGED era,
         lost \subseteq lost'
  PROVE  SessionsDie'
<1>1. \A r \in Requests : Pending(r, "revoke") => requests'[r] = requests[r]
  BY DEF IInv, RequestsSound, Pending
<1> QED
  BY <1>1 DEF IInv, SessionsDie, Pending, User

LEMMA SessionsToRevoke ==
  ASSUME IInv, NEW q \in Requests, NEW next, requests' = [requests EXCEPT ![q] = next],
         requests[q].at # "revoke", NEW a \in Rows, next.at = "revoke", next.user = a,
         NewEra(a), UNCHANGED <<sessions, lost>>
  PROVE  SessionsDie'
<1>1. \A r \in Requests : Pending(r, "revoke") => requests'[r] = requests[r]
  BY DEF IInv, RequestsSound, Pending
<1>2. requests'[q] = next
  BY DEF IInv, RequestsSound
<1>3. \A b \in Rows \ {a} : era'[b] = era[b]
  BY DEF IInv, HistorySound, NewEra
<1>4. \A s \in sessions : s.user \in Rows
  BY DEF IInv, SessionsSound
<1> QED
  BY <1>1, <1>2, <1>3, <1>4 DEF IInv, SessionsDie, Pending, User

(* A link that is written names the resets there have been.                 *)
LEMMA LinksStayNew ==
  ASSUME IInv, NEW new, links' \subseteq links \union new, UNCHANGED resets,
         \A l \in new : l.purpose = "RESET" => l.issued = resets[l.user]
  PROVE  LinksNew'
  BY DEF IInv, LinksNew

LEMMA NewLinkIsLink ==
  ASSUME IInv, NEW a \in Rows, NEW purpose \in Purposes, Unused(a, purpose) # {}
  PROVE  /\ NewLink(a, purpose) \in Link
         /\ NewLink(a, purpose).user = a /\ NewLink(a, purpose).purpose = purpose
         /\ NewLink(a, purpose).issued = resets[a]
<1>1. (CHOOSE n \in Unused(a, purpose) : TRUE) \in 1..MaxLinks
  BY DEF Unused
<1>2. resets[a] \in Nat
  BY DEF IInv, HistorySound
<1> QED
  BY <1>1, <1>2 DEF NewLink, Link

(* Links are written for an account that exists.                            *)
LEMMA NewLinksSound ==
  ASSUME LinksSound, NEW a \in Rows, Used(a), NEW new, \A l \in new : l \in Link /\ l.user = a,
         links' \subseteq links \union new, UNCHANGED accounts
  PROVE  LinksSound'
  BY DEF LinksSound, Used
-----------------------------------------------------------------------------
(* Handlers that read, and go on with what they read.                       *)
LEMMA ReadsKeep ==
  ASSUME IInv, NEW q \in Requests, NEW next \in Request, Begin(q, next), About(next),
         UNCHANGED <<accounts, sessions, links, crashes, history>>
  PROVE  IInv'
<1>1. /\ requests' = [requests EXCEPT ![q] = next] /\ requests[q].at = "idle"
      /\ starts' \in 0..MaxStarts
  BY AccountsAssumption DEF Begin, NoRequest, IInv, HistorySound
<1>2. AccountsSound' /\ \A b \in Rows : Used(b) => Used(b)'
  BY SameSound DEF IInv
<1>3. About(next)'
  BY DEF About, Used
<1>4. RequestsSound'
  BY <1>1, <1>2, <1>3, GoesSound DEF IInv
<1>5. LinksSound'
  BY <1>2, FewerLinksSound DEF IInv
<1>6. SessionsDie'
  BY <1>1, SessionsStay DEF history
<1>7. LinksNew'
  BY DEF IInv, LinksNew, history
<1>8. SessionsSound' /\ HistorySound'
  BY <1>1 DEF IInv, SessionsSound, HistorySound, history
<1> QED
  BY <1>2, <1>4, <1>5, <1>6, <1>7, <1>8 DEF IInv

(* Handlers that write a row, and neither sessions nor links.               *)
LEMMA RowKeeps ==
  ASSUME IInv, NEW q \in Requests, NEW next \in Request, Begin(q, next),
         next.at \notin {"revoke", "reset"},
         NEW a \in Rows, NEW row \in Account, Set(a, row),
         row.status # "NONE", row.profile = "APPROVED" => row.role = "ANALYST",
         next # NoRequest => next.user = a,
         UNCHANGED <<sessions, links, crashes, history>>
  PROVE  IInv'
<1>1. /\ requests' = [requests EXCEPT ![q] = next] /\ requests[q].at = "idle"
      /\ starts' \in 0..MaxStarts
  BY AccountsAssumption DEF Begin, NoRequest, IInv, HistorySound
<1>2. AccountsSound' /\ \A b \in Rows : Used(b) => Used(b)'
  BY SetSound DEF IInv
<1>3. About(next)'
  BY DEF About, Used, Set, IInv, AccountsSound
<1>4. RequestsSound'
  BY <1>1, <1>2, <1>3, GoesSound DEF IInv
<1>5. LinksSound'
  BY <1>2, FewerLinksSound DEF IInv
<1>6. SessionsDie'
  BY <1>1, SessionsStay DEF history
<1>7. LinksNew'
  BY DEF IInv, LinksNew, history
<1>8. SessionsSound' /\ HistorySound'
  BY <1>1 DEF IInv, SessionsSound, HistorySound, history
<1> QED
  BY <1>2, <1>4, <1>5, <1>6, <1>7, <1>8 DEF IInv
-----------------------------------------------------------------------------
(* The handlers, one by one.                                               *)
LEMMA NoRequestIsRequest == NoRequest \in Request /\ NoRequest.at = "idle" /\ About(NoRequest)
  BY DEF Request, NoRequest, About

LEMMA SignedInUsed == ASSUME NEW a, SignedIn(a) PROVE Used(a)
  BY DEF SignedIn, Used

LEMMA LoginKeeps == ASSUME IInv, NEW q \in Requests, NEW a \in Rows, Login(q, a) PROVE IInv'
<1>1. Opening(a) \in Request /\ About(Opening(a))
  BY RequestKinds DEF Login, About, Opening, Used
<1> QED
  BY <1>1, ReadsKeep DEF Login

LEMMA ClosingReadKeeps ==
  ASSUME IInv, NEW q \in Requests, NEW a \in Rows, ReadForClosing(q, a) PROVE IInv'
<1> DEFINE next == [at |-> "close", user |-> a]
<1>1. next \in Request /\ About(next)
  BY RequestKinds, SignedInUsed DEF ReadForClosing, About
<1> QED
  BY <1>1, ReadsKeep DEF ReadForClosing

LEMMA ProfileReadKeeps ==
  ASSUME IInv, NEW q \in Requests, NEW a \in Rows,
         NEW d \in {"APPROVED", "REJECTED", "SUSPENDED"}, ReadProfile(q, a, d)
  PROVE  IInv'
<1> DEFINE next == [at |-> "decide", user |-> a, decision |-> d, was |-> accounts[a].profile]
<1>1. accounts[a].profile \in Profiles /\ d \in Profiles \ {"NONE", "PENDING"}
  BY DEF IInv, AccountsSound, Account, Profiles
<1>2. next \in Request
  BY <1>1, RequestKinds
<1>3. About(next)
  BY DEF ReadProfile, About, IInv, AccountsSound
<1> QED
  BY <1>2, <1>3, ReadsKeep DEF ReadProfile

LEMMA LinkReadKeeps ==
  ASSUME IInv, NEW q \in Requests, NEW l \in links,
         \/ ReadVerification(q, l) \/ ReadReset(q, l)
         \/ \E c \in Chats : ReadTelegramLink(q, l, c)
  PROVE  IInv'
<1>1. l \in Link /\ l.user \in Rows /\ Used(l.user)
  BY DEF IInv, LinksSound, Link
<1>2. CASE ReadVerification(q, l)
  <2> DEFINE next == [at |-> "verify", user |-> l.user, link |-> l]
  <2>1. next \in Request /\ About(next)
    BY <1>1, RequestKinds DEF About
  <2> QED
    BY <1>2, <2>1, ReadsKeep DEF ReadVerification
<1>3. CASE ReadReset(q, l)
  <2> DEFINE next == [at |-> "reset", user |-> l.user, link |-> l, read |-> resets[l.user]]
  <2>1. resets[l.user] \in Nat /\ l.issued = resets[l.user]
    BY <1>1, <1>3 DEF ReadReset, IInv, LinksNew, HistorySound
  <2>2. next \in Request /\ About(next)
    BY <1>1, <2>1, RequestKinds DEF About
  <2> QED
    BY <1>3, <2>2, ReadsKeep DEF ReadReset
<1>4. ASSUME NEW c \in Chats, ReadTelegramLink(q, l, c) PROVE IInv'
  <2> DEFINE next == [at |-> "bind", user |-> l.user, link |-> l, chat |-> c]
  <2>1. next \in Request /\ About(next)
    BY <1>1, RequestKinds DEF About
  <2> QED
    BY <1>4, <2>1, ReadsKeep DEF ReadTelegramLink
<1> QED
  BY <1>2, <1>3, <1>4

LEMMA GoogleReadKeeps ==
  ASSUME IInv, NEW q \in Requests, NEW m \in Mailboxes, GoogleCallback(q, m) PROVE IInv'
<1>1. ASSUME NEW a \in Holders("google", m), accounts[a].status = "ACTIVE", Begin(q, Opening(a))
      PROVE  IInv'
  <2>1. a \in Rows
    BY DEF Holders
  <2>2. Opening(a) \in Request /\ About(Opening(a))
    BY <1>1, <2>1, RequestKinds DEF About, Opening, Used
  <2> QED
    BY <1>1, <2>2, ReadsKeep DEF GoogleCallback
<1>2. ASSUME NEW a \in Holders("email", m),
             Begin(q, [at |-> "link", user |-> a, google |-> m,
                       active |-> accounts[a].status = "ACTIVE"])
      PROVE  IInv'
  <2> DEFINE next == [at |-> "link", user |-> a, google |-> m,
                      active |-> accounts[a].status = "ACTIVE"]
  <2>1. a \in Rows /\ Used(a)
    BY DEF Holders, IInv, AccountsSound
  <2>2. next \in Request
    BY <2>1, RequestKinds
  <2>3. About(next)
    BY <2>1 DEF About
  <2> QED
    BY <1>2, <2>2, <2>3, ReadsKeep DEF GoogleCallback
<1> QED
  BY <1>1, <1>2 DEF GoogleCallback

LEMMA SignUpKeeps ==
  ASSUME IInv, NEW q \in Requests, NEW a \in Rows, NEW password \in {"random", "chosen"},
         NEW email \in Mailboxes \union {Placeholder}, NEW google \in Mailboxes \union {None},
         NEW telegram \in Chats \union {None},
         SignUp(q, a, NewAccount(email, password, google, telegram))
  PROVE  IInv'
<1> DEFINE row == NewAccount(email, password, google, telegram)
<1>1. row \in Account
  <2>1. (email \in Mailboxes) \in BOOLEAN
    OBVIOUS
  <2> QED
    BY <2>1 DEF NewAccount, Account, Profiles
<1>2. row.status # "NONE" /\ row.profile # "APPROVED"
  BY DEF NewAccount
<1>3. Opening(a) \in Request /\ Opening(a).at = "open" /\ Opening(a).user = a
  BY RequestKinds DEF Opening
<1> QED
  BY <1>1, <1>2, <1>3, RowKeeps DEF SignUp

LEMMA SigningUpKeeps ==
  ASSUME IInv, NEW q \in Requests,
         \/ \E a \in Rows, m \in Mailboxes : CompleteSignup(q, a, m) \/ CompleteGoogleSignup(q, a, m)
         \/ \E c \in Chats : TelegramAuth(q, c)
  PROVE  IInv'
<1>1. ASSUME NEW a \in Rows, NEW m \in Mailboxes,
             CompleteSignup(q, a, m) \/ CompleteGoogleSignup(q, a, m)
      PROVE  IInv'
  BY <1>1, SignUpKeeps DEF CompleteSignup, CompleteGoogleSignup
<1>2. ASSUME NEW c \in Chats, TelegramAuth(q, c) PROVE IInv'
  <2>1. ASSUME NEW a \in Holders("telegram", c), accounts[a].status = "ACTIVE",
               Begin(q, Opening(a)),
               UNCHANGED <<accounts, sessions, links, crashes, history>>
        PROVE  IInv'
    <3>1. a \in Rows
      BY DEF Holders
    <3>2. Opening(a) \in Request /\ About(Opening(a))
      BY <2>1, <3>1, RequestKinds DEF About, Opening, Used
    <3> QED
      BY <2>1, <3>2, ReadsKeep
  <2>2. ASSUME NEW a \in Rows, SignUp(q, a, NewAccount(Placeholder, "random", None, c))
        PROVE  IInv'
    BY <2>2, SignUpKeeps
  <2> QED
    BY <1>2, <2>1, <2>2 DEF TelegramAuth
<1> QED
  BY <1>1, <1>2

LEMMA OwnRowKeeps ==
  ASSUME IInv, NEW q \in Requests, NEW a \in Rows,
         \/ UnlinkTelegram(q, a) \/ ApplyAsAnalyst(q, a)
         \/ SetUserStatus(q, a, "ACTIVE")
  PROVE  IInv'
<1>0. accounts[a] \in Account /\ (accounts[a].profile = "APPROVED" => accounts[a].role = "ANALYST")
  BY DEF IInv, AccountsSound
<1>1. CASE UnlinkTelegram(q, a)
  <2> DEFINE row == [accounts[a] EXCEPT !.chat = None]
  <2>1. row \in Account /\ row.status = accounts[a].status
        /\ row.profile = accounts[a].profile /\ row.role = accounts[a].role
    BY <1>0 DEF Account
  <2>2. accounts[a].status # "NONE"
    BY <1>1 DEF UnlinkTelegram, IInv, AccountsSound, Used
  <2> QED
    BY <1>0, <1>1, <2>1, <2>2, RowKeeps, NoRequestIsRequest DEF UnlinkTelegram
<1>2. CASE ApplyAsAnalyst(q, a)
  <2> DEFINE row == [accounts[a] EXCEPT !.profile = "PENDING"]
  <2>1. row \in Account /\ row.status = accounts[a].status /\ row.profile = "PENDING"
    BY <1>0 DEF Account, Profiles
  <2>2. accounts[a].status # "NONE"
    BY <1>2 DEF ApplyAsAnalyst, MayApply, SignedIn
  <2> QED
    BY <1>2, <2>1, <2>2, RowKeeps, NoRequestIsRequest DEF ApplyAsAnalyst
<1>3. CASE SetUserStatus(q, a, "ACTIVE")
  <2> DEFINE row == [accounts[a] EXCEPT !.status = "ACTIVE"]
  <2>1. row \in Account /\ row.status = "ACTIVE"
        /\ row.profile = accounts[a].profile /\ row.role = accounts[a].role
    BY <1>0 DEF Account
  <2> QED
    BY <1>0, <1>3, <2>1, RowKeeps, NoRequestIsRequest DEF SetUserStatus, history
<1> QED
  BY <1>1, <1>2, <1>3

(* Links are written.                                                      *)
LEMMA IssuesKeep ==
  ASSUME IInv, NEW q \in Requests, NEW a \in Rows, NEW new, Used(a), Begin(q, NoRequest),
         links' \subseteq links \union new,
         \A l \in new : l \in Link /\ l.user = a /\ l.issued = resets[a],
         UNCHANGED <<accounts, sessions, crashes, history>>
  PROVE  IInv'
<1>1. /\ requests' = [requests EXCEPT ![q] = NoRequest] /\ requests[q].at = "idle"
      /\ starts' \in 0..MaxStarts
  BY AccountsAssumption DEF Begin, NoRequest, IInv, HistorySound
<1>2. AccountsSound' /\ \A b \in Rows : Used(b) => Used(b)'
  BY SameSound DEF IInv
<1>3. RequestsSound'
  BY <1>1, <1>2, NoRequestIsRequest, GoesSound DEF IInv, About
<1>4. LinksSound'
  BY NewLinksSound DEF IInv
<1>5. SessionsDie'
  BY <1>1, SessionsStay DEF history
<1>6. LinksNew'
  BY LinksStayNew DEF history
<1>7. SessionsSound' /\ HistorySound'
  BY <1>1 DEF IInv, SessionsSound, HistorySound, history
<1> QED
  BY <1>2, <1>3, <1>4, <1>5, <1>6, <1>7 DEF IInv

LEMMA IssuingKeeps ==
  ASSUME IInv, NEW q \in Requests, NEW a \in Rows,
         ResendVerification(q, a) \/ ForgotPassword(q, a) \/ CreateTelegramLink(q, a)
  PROVE  IInv'
<1>1. CASE ResendVerification(q, a)
  <2> DEFINE new == {NewLink(a, "VERIFY"), NewLink(a, "CODE")}
  <2>1. \A l \in new : l \in Link /\ l.user = a /\ l.issued = resets[a]
    BY <1>1, NewLinkIsLink DEF ResendVerification, Purposes
  <2>2. links' \subseteq links \union new /\ Used(a)
    BY <1>1, SignedInUsed DEF ResendVerification, MayResend
  <2> HIDE DEF new
  <2> QED
    BY <1>1, <2>1, <2>2, IssuesKeep DEF ResendVerification
<1>2. CASE ForgotPassword(q, a)
  <2> DEFINE new == {NewLink(a, "RESET")}
  <2>1. \A l \in new : l \in Link /\ l.user = a /\ l.issued = resets[a]
    BY <1>2, NewLinkIsLink DEF ForgotPassword, Purposes
  <2>2. links' \subseteq links \union new /\ Used(a)
    BY <1>2 DEF ForgotPassword, HasMail, IInv, AccountsSound
  <2> HIDE DEF new
  <2> QED
    BY <1>2, <2>1, <2>2, IssuesKeep DEF ForgotPassword
<1>3. CASE CreateTelegramLink(q, a)
  <2> DEFINE new == {NewLink(a, "TELEGRAM")}
  <2>1. \A l \in new : l \in Link /\ l.user = a /\ l.issued = resets[a]
    BY <1>3, NewLinkIsLink DEF CreateTelegramLink, Purposes
  <2>2. links' \subseteq links \union new /\ Used(a)
    BY <1>3, SignedInUsed DEF CreateTelegramLink
  <2> HIDE DEF new
  <2> QED
    BY <1>3, <2>1, <2>2, IssuesKeep DEF CreateTelegramLink
<1> QED
  BY <1>1, <1>2, <1>3

(* Handlers that go on with a request: a row, a link or the sessions change, *)
(* and no request is begun.                                                *)
LEMMA OnKeep ==
  ASSUME IInv, NEW q \in Requests, requests[q].at # "idle",
         NEW next \in Request, Goes(q, next), About(next)',
         AccountsSound', \A b \in Rows : Used(b) => Used(b)',
         links' \subseteq links, sessions' \subseteq [user : Rows, opened : Nat],
         HistorySound', SessionsDie', LinksNew'
  PROVE  IInv'
<1>1. RequestsSound'
  BY GoesSound DEF Goes, IInv
<1>2. LinksSound'
  BY FewerLinksSound DEF IInv
<1> QED
  BY <1>1, <1>2 DEF IInv, SessionsSound

LEMMA VerifyKeeps == ASSUME IInv, NEW q \in Requests, VerifyEmail(q) PROVE IInv'
<1>0. PICK a : a = User(q)
  OBVIOUS
<1> DEFINE row == [accounts[a] EXCEPT !.verified = TRUE]
<1>1. requests[q] \in Request /\ requests[q].at = "verify" /\ About(requests[q])
  BY DEF VerifyEmail, Pending, IInv, RequestsSound
<1>2. a \in Rows /\ Used(a)
  BY <1>0, <1>1, RequestHolds DEF User, About
<1>3. row \in Account /\ row.status = accounts[a].status
      /\ row.profile = accounts[a].profile /\ row.role = accounts[a].role
  BY <1>2 DEF IInv, AccountsSound, Account
<1>4. Set(a, row)
  BY <1>0 DEF VerifyEmail
<1>5. AccountsSound' /\ \A b \in Rows : Used(b) => Used(b)'
  BY <1>2, <1>3, <1>4, SetSound DEF IInv, AccountsSound, Used
<1>6. SessionsDie'
  BY <1>1, SessionsStay DEF VerifyEmail, Ends, Goes, history
<1>7. HistorySound' /\ LinksNew'
  BY DEF VerifyEmail, Ends, Goes, history, IInv, HistorySound, LinksNew
<1>8. About(NoRequest)'
  BY DEF About
<1> QED
  BY <1>1, <1>5, <1>6, <1>7, <1>8, NoRequestIsRequest, OnKeep
  DEF VerifyEmail, Ends, IInv, SessionsSound

LEMMA RedeemKeeps == ASSUME IInv, NEW q \in Requests, RedeemTelegramLink(q) PROVE IInv'
<1>0. PICK a : a = User(q)
  OBVIOUS
<1>c. PICK c : c = requests[q].chat
  OBVIOUS
<1> DEFINE row == [accounts[a] EXCEPT !.chat = c]
<1>1. requests[q] \in Request /\ requests[q].at = "bind" /\ About(requests[q])
  BY DEF RedeemTelegramLink, Pending, IInv, RequestsSound
<1>2. a \in Rows /\ Used(a) /\ c \in Chats
  BY <1>0, <1>c, <1>1, RequestHolds DEF User, About
<1>3. row \in Account /\ row.status = accounts[a].status
      /\ row.profile = accounts[a].profile /\ row.role = accounts[a].role
  BY <1>2 DEF IInv, AccountsSound, Account
<1>4. Set(a, row) \/ UNCHANGED accounts
  BY <1>0, <1>c DEF RedeemTelegramLink
<1>5. AccountsSound' /\ \A b \in Rows : Used(b) => Used(b)'
  <2>1. CASE Set(a, row)
    BY <1>2, <1>3, <2>1, SetSound DEF IInv, AccountsSound, Used
  <2>2. CASE UNCHANGED accounts
    BY <2>2, SameSound DEF IInv
  <2> QED
    BY <1>4, <2>1, <2>2
<1>6. SessionsDie'
  BY <1>1, SessionsStay DEF RedeemTelegramLink, Ends, Goes, history
<1>7. HistorySound' /\ LinksNew'
  BY DEF RedeemTelegramLink, Ends, Goes, history, IInv, HistorySound, LinksNew
<1>8. About(NoRequest)'
  BY DEF About
<1> QED
  BY <1>1, <1>5, <1>6, <1>7, <1>8, NoRequestIsRequest, OnKeep
  DEF RedeemTelegramLink, Ends, IInv, SessionsSound

LEMMA OpenKeeps == ASSUME IInv, NEW q \in Requests, CreateSession(q) PROVE IInv'
<1>1. requests[q] \in Request /\ requests[q].at = "open" /\ User(q) \in Rows
  BY RequestHolds DEF CreateSession, Pending, User, IInv, RequestsSound
<1>2. AccountsSound' /\ \A b \in Rows : Used(b) => Used(b)'
  BY SameSound DEF IInv, CreateSession
<1>3. \A r \in Requests : Pending(r, "revoke") => requests'[r] = requests[r]
  BY <1>1 DEF IInv, RequestsSound, Pending, CreateSession, Ends, Goes
<1>4. SessionsDie'
  BY <1>3 DEF IInv, SessionsDie, Pending, User, CreateSession, history
<1>5. HistorySound' /\ LinksNew'
  BY DEF CreateSession, Ends, Goes, history, IInv, HistorySound, LinksNew
<1>6. sessions' \subseteq [user : Rows, opened : Nat]
  BY <1>1 DEF CreateSession, IInv, SessionsSound, HistorySound
<1>7. About(NoRequest)'
  BY DEF About
<1> QED
  BY <1>1, <1>2, <1>4, <1>5, <1>6, <1>7, NoRequestIsRequest, OnKeep DEF CreateSession, Ends

LEMMA RevokeKeeps ==
  ASSUME IInv, NEW q \in Requests, RevokeAllSessionsForUser(q) PROVE IInv'
<1>0. PICK next : next = requests[q].then
  OBVIOUS
<1>1. requests[q] \in Request /\ requests[q].at = "revoke" /\ requests[q] # NoRequest
      /\ User(q) \in Rows /\ About(requests[q])
      /\ next \in {NoRequest} \union [at : {"open"}, user : Rows]
  BY <1>0, RequestHolds
  DEF RevokeAllSessionsForUser, Pending, User, IInv, RequestsSound
<1>2. next \in Request
  BY <1>1 DEF Request
<1>3. AccountsSound' /\ \A b \in Rows : Used(b) => Used(b)'
  BY SameSound DEF IInv, RevokeAllSessionsForUser
<1>4. About(next)'
  BY <1>0, <1>1 DEF About, Used, RevokeAllSessionsForUser
<1>5. \A r \in Requests \ {q} : requests'[r] = requests[r]
  BY DEF RevokeAllSessionsForUser, Goes, IInv, RequestsSound
<1>6. SessionsDie'
  BY <1>5
  DEF IInv, SessionsDie, Pending, User, WithoutSessions, RevokeAllSessionsForUser, history
<1>7. HistorySound' /\ LinksNew'
  BY DEF RevokeAllSessionsForUser, Goes, history, IInv, HistorySound, LinksNew
<1> QED
  BY <1>0, <1>1, <1>2, <1>3, <1>4, <1>6, <1>7, OnKeep
  DEF RevokeAllSessionsForUser, WithoutSessions, IInv, SessionsSound

LEMMA LogoutKeeps ==
  ASSUME IInv, NEW q \in Requests, NEW s \in sessions, Logout(q, s) PROVE IInv'
<1>1. /\ requests' = [requests EXCEPT ![q] = NoRequest] /\ requests[q].at = "idle"
      /\ starts' \in 0..MaxStarts
  BY AccountsAssumption DEF Logout, Begin, NoRequest, IInv, HistorySound
<1>2. AccountsSound' /\ \A b \in Rows : Used(b) => Used(b)'
  BY SameSound DEF IInv, Logout
<1>3. About(NoRequest)'
  BY DEF About
<1>4. RequestsSound'
  BY <1>1, <1>2, <1>3, NoRequestIsRequest, GoesSound DEF IInv
<1>5. LinksSound'
  BY <1>2, FewerLinksSound DEF IInv, Logout
<1>6. SessionsDie'
  BY <1>1, SessionsStay DEF Logout, history
<1>7. LinksNew' /\ SessionsSound' /\ HistorySound'
  BY <1>1 DEF Logout, IInv, LinksNew, SessionsSound, HistorySound, history
<1> QED
  BY <1>2, <1>4, <1>5, <1>6, <1>7 DEF IInv

(* A change that must end the sessions of its account: they are revoked next. *)
LEMMA EraKeeps ==
  ASSUME IInv, NEW q \in Requests, requests[q].at # "revoke",
         NEW a \in Rows, NEW row \in Account, Set(a, row),
         row.status # "NONE", row.profile = "APPROVED" => row.role = "ANALYST",
         NEW then \in {NoRequest, Opening(a)},
         requests' = [requests EXCEPT ![q] = Revoking(a, then)],
         NewEra(a), links' \subseteq links,
         \A l \in links' : l.purpose = "RESET" => l.issued = resets'[l.user],
         starts' \in 0..MaxStarts, resets' \in [Rows -> Nat],
         UNCHANGED <<sessions, crashes, lost, approvals, notices, outrun>>
  PROVE  IInv'
<1> DEFINE next == Revoking(a, then)
<1>1. next \in Request /\ next.at = "revoke" /\ next.user = a /\ next.then = then
  <2>1. next \in Request
    BY RequestKinds
  <2> QED
    BY <2>1 DEF Revoking
<1>2. AccountsSound' /\ \A b \in Rows : Used(b) => Used(b)'
  BY SetSound DEF IInv
<1>3. About(next)'
  <2>1. Used(a)'
    BY DEF Used, Set, IInv, AccountsSound
  <2>2. then = NoRequest \/ then.user = a
    BY DEF Opening
  <2> QED
    BY <1>1, <2>1, <2>2 DEF About
<1> HIDE DEF next
<1>4. requests' = [requests EXCEPT ![q] = next]
  BY DEF next
<1>5. RequestsSound'
  BY <1>1, <1>2, <1>3, <1>4, GoesSound DEF IInv
<1>6. LinksSound'
  BY <1>2, FewerLinksSound DEF IInv
<1>7. SessionsDie'
  BY <1>1, <1>4, SessionsToRevoke
<1>8. HistorySound'
  <2>1. era' \in [Rows -> Nat]
    BY DEF IInv, HistorySound, NewEra
  <2> QED
    BY <2>1 DEF IInv, HistorySound
<1>9. LinksNew' /\ SessionsSound'
  BY DEF LinksNew, IInv, SessionsSound
<1> QED
  BY <1>2, <1>5, <1>6, <1>7, <1>8, <1>9 DEF IInv

LEMMA SuspendKeeps ==
  ASSUME IInv, NEW q \in Requests, NEW a \in Rows, SetUserStatus(q, a, "SUSPENDED") PROVE IInv'
<1> DEFINE row == [accounts[a] EXCEPT !.status = "SUSPENDED"]
<1>1. row \in Account /\ row.status = "SUSPENDED"
      /\ row.profile = accounts[a].profile /\ row.role = accounts[a].role
      /\ (accounts[a].profile = "APPROVED" => accounts[a].role = "ANALYST")
  BY DEF IInv, AccountsSound, Account
<1>2. /\ Set(a, row) /\ NewEra(a) /\ Begin(q, Revoking(a, NoRequest))
      /\ UNCHANGED <<sessions, links, crashes, resets, lost, approvals, notices, outrun>>
  BY DEF SetUserStatus
<1>3. /\ requests' = [requests EXCEPT ![q] = Revoking(a, NoRequest)] /\ requests[q].at = "idle"
      /\ starts' \in 0..MaxStarts /\ resets' \in [Rows -> Nat]
  BY <1>2, AccountsAssumption DEF Begin, NoRequest, IInv, HistorySound
<1>4. \A l \in links' : l.purpose = "RESET" => l.issued = resets'[l.user]
  BY <1>2 DEF IInv, LinksNew
<1> HIDE DEF row
<1> QED
  BY <1>1, <1>2, <1>3, <1>4, EraKeeps

LEMMA CloseKeeps == ASSUME IInv, NEW q \in Requests, CloseAccount(q) PROVE IInv'
<1>0. PICK a : a = User(q)
  OBVIOUS
<1> DEFINE row == [accounts[a] EXCEPT !.status = "DELETED", !.email = Closed, !.verified = FALSE,
                     !.google = None, !.telegram = None, !.chat = None]
<1>1. requests[q] \in Request /\ requests[q].at = "close" /\ a \in Rows
  BY <1>0, RequestHolds DEF CloseAccount, Pending, User, IInv, RequestsSound
<1>2. row \in Account /\ row.status = "DELETED"
      /\ row.profile = accounts[a].profile /\ row.role = accounts[a].role
      /\ (accounts[a].profile = "APPROVED" => accounts[a].role = "ANALYST")
  <2>1. accounts[a] \in Account
        /\ (accounts[a].profile = "APPROVED" => accounts[a].role = "ANALYST")
    BY <1>1 DEF IInv, AccountsSound
  <2>2. row \in Account
    BY <2>1 DEF Account
  <2> QED
    BY <2>1, <2>2 DEF Account
<1>3. /\ Set(a, row) /\ NewEra(a) /\ Goes(q, Revoking(a, NoRequest))
      /\ UNCHANGED <<sessions, links, crashes, resets, lost, approvals, notices, outrun>>
  BY <1>0 DEF CloseAccount
<1>4. /\ requests' = [requests EXCEPT ![q] = Revoking(a, NoRequest)]
      /\ starts' \in 0..MaxStarts /\ resets' \in [Rows -> Nat]
  BY <1>3 DEF Goes, IInv, HistorySound
<1>5. \A l \in links' : l.purpose = "RESET" => l.issued = resets'[l.user]
  BY <1>3 DEF IInv, LinksNew
<1> HIDE DEF row
<1> QED
  BY <1>1, <1>2, <1>3, <1>4, <1>5, EraKeeps

LEMMA ResetKeeps == ASSUME IInv, NEW q \in Requests, ResetPassword(q) PROVE IInv'
<1>0. PICK a : a = User(q)
  OBVIOUS
<1> DEFINE row == [accounts[a] EXCEPT !.password = "chosen"]
<1>1. requests[q] \in Request /\ requests[q].at = "reset" /\ a \in Rows
      /\ About(requests[q]) /\ Used(a)
  BY <1>0, RequestHolds DEF ResetPassword, Pending, User, IInv, RequestsSound, About
<1>2. row \in Account /\ row.status = accounts[a].status
      /\ row.profile = accounts[a].profile /\ row.role = accounts[a].role
      /\ (accounts[a].profile = "APPROVED" => accounts[a].role = "ANALYST")
  BY <1>1 DEF IInv, AccountsSound, Account
<1>3. /\ Set(a, row) /\ NewEra(a) /\ Goes(q, Revoking(a, NoRequest))
      /\ resets' = [resets EXCEPT ![a] = @ + 1] /\ links' = links \ Consumed(q)
      /\ UNCHANGED <<sessions, crashes, lost, approvals, notices, outrun>>
  BY <1>0 DEF ResetPassword
<1>4. /\ requests' = [requests EXCEPT ![q] = Revoking(a, NoRequest)]
      /\ starts' \in 0..MaxStarts /\ resets' \in [Rows -> Nat]
  BY <1>1, <1>3 DEF Goes, IInv, HistorySound
<1>5. \A l \in links' : l.purpose = "RESET" => l.issued = resets'[l.user]
  <2>1. \A l \in links' : l \in links /\ (l.purpose = "RESET" => l.user # a)
    BY <1>0, <1>3 DEF Consumed, LinksOf
  <2>2. \A l \in links : l.user \in Rows
    BY DEF IInv, LinksSound, Link
  <2> QED
    BY <1>1, <1>3, <2>1, <2>2 DEF IInv, LinksNew, HistorySound
<1>6. row.status # "NONE"
  BY <1>1, <1>2 DEF Used
<1> HIDE DEF row
<1> QED
  BY <1>1, <1>2, <1>3, <1>4, <1>5, <1>6, EraKeeps

LEMMA GoogleLinkKeeps == ASSUME IInv, NEW q \in Requests, LinkGoogle(q) PROVE IInv'
<1>0. PICK a, m : a = User(q) /\ m = requests[q].google
  OBVIOUS
<1> DEFINE row == [accounts[a] EXCEPT !.google = m]
<1>1. requests[q] \in Request /\ requests[q].at = "link" /\ a \in Rows /\ m \in Mailboxes
      /\ About(requests[q]) /\ Used(a)
  BY <1>0, RequestHolds DEF LinkGoogle, Pending, User, IInv, RequestsSound, About
<1>2. CASE Free("google", m, a)
  <2>1. row \in Account /\ row.status = accounts[a].status
        /\ row.profile = accounts[a].profile /\ row.role = accounts[a].role
        /\ (accounts[a].profile = "APPROVED" => accounts[a].role = "ANALYST")
    BY <1>1 DEF IInv, AccountsSound, Account
  <2>2. PICK then \in {NoRequest, Opening(a)} :
          /\ Set(a, row) /\ NewEra(a) /\ Goes(q, Revoking(a, then))
          /\ UNCHANGED <<sessions, links, crashes, resets, lost, approvals, notices, outrun>>
    BY <1>0, <1>2 DEF LinkGoogle, Goes
  <2>3. /\ requests' = [requests EXCEPT ![q] = Revoking(a, then)]
        /\ starts' \in 0..MaxStarts /\ resets' \in [Rows -> Nat]
    BY <2>2 DEF Goes, IInv, HistorySound
  <2>4. \A l \in links' : l.purpose = "RESET" => l.issued = resets'[l.user]
    BY <2>2 DEF IInv, LinksNew
  <2>5. row.status # "NONE"
    BY <1>1, <2>1 DEF Used
  <2> HIDE DEF row
  <2> QED
    BY <1>1, <2>1, <2>2, <2>3, <2>4, <2>5, EraKeeps
<1>3. CASE ~Free("google", m, a)
  <2>1. Ends(q) /\ UNCHANGED <<accounts, sessions, links, crashes, history>>
    BY <1>0, <1>3 DEF LinkGoogle, history
  <2>2. AccountsSound' /\ \A b \in Rows : Used(b) => Used(b)'
    BY <2>1, SameSound DEF IInv
  <2>3. SessionsDie'
    BY <1>1, <2>1, SessionsStay DEF Ends, Goes, history
  <2>4. HistorySound' /\ LinksNew' /\ About(NoRequest)'
    BY <2>1 DEF Ends, Goes, history, IInv, HistorySound, LinksNew, About
  <2> QED
    BY <1>1, <2>1, <2>2, <2>3, <2>4, NoRequestIsRequest, OnKeep DEF Ends, IInv, SessionsSound
<1> QED
  BY <1>2, <1>3

LEMMA DecideKeeps == ASSUME IInv, NEW q \in Requests, DecideAnalyst(q) PROVE IInv'
<1>0. PICK a, d : a = User(q) /\ d = requests[q].decision
  OBVIOUS
<1> DEFINE row == [accounts[a] EXCEPT !.profile = d, !.role = RoleAfter(a, d)]
<1>1. requests[q] \in Request /\ requests[q].at = "decide" /\ a \in Rows
      /\ d \in Profiles \ {"NONE", "PENDING"} /\ About(requests[q]) /\ Used(a)
  BY <1>0, RequestHolds DEF DecideAnalyst, Pending, User, IInv, RequestsSound, About
<1>2. row \in Account /\ row.status = accounts[a].status
      /\ (row.profile = "APPROVED" => row.role = "ANALYST")
  <2>1. accounts[a] \in Account
    BY <1>1 DEF IInv, AccountsSound
  <2>2. RoleAfter(a, d) \in {"USER", "ANALYST"} /\ (d = "APPROVED" => RoleAfter(a, d) = "ANALYST")
    BY <2>1 DEF RoleAfter, Account
  <2> QED
    BY <1>1, <2>1, <2>2 DEF Account
<1>3. PICK next \in {NoRequest, [at |-> "notify", user |-> a]} : Goes(q, next)
  BY <1>0 DEF DecideAnalyst
<1>4. /\ Set(a, row) /\ approvals' \in [Rows -> Nat] /\ outrun' \subseteq Rows
      /\ UNCHANGED <<sessions, links, crashes, era, resets, lost, notices>>
  BY <1>0, <1>1 DEF DecideAnalyst, IInv, HistorySound
<1>5. AccountsSound' /\ \A b \in Rows : Used(b) => Used(b)'
  <2>1. row.status # "NONE"
    BY <1>1, <1>2 DEF Used
  <2> HIDE DEF row
  <2> QED
    BY <1>1, <1>2, <1>4, <2>1, SetSound DEF IInv
<1>6. next \in Request /\ About(next)'
  <2>1. next \in Request
    BY <1>1, RequestKinds
  <2> QED
    BY <1>1, <1>5, <2>1 DEF About
<1>7. SessionsDie'
  BY <1>1, <1>3, <1>4, SessionsStay DEF Goes
<1>8. HistorySound' /\ LinksNew'
  BY <1>3, <1>4 DEF Goes, IInv, HistorySound, LinksNew
<1> QED
  BY <1>1, <1>3, <1>4, <1>5, <1>6, <1>7, <1>8, OnKeep DEF IInv, SessionsSound

LEMMA NotifyKeeps ==
  ASSUME IInv, NEW q \in Requests, NotifyAnalystApproved(q) PROVE IInv'
<1>1. requests[q] \in Request /\ requests[q].at = "notify" /\ User(q) \in Rows
  BY RequestHolds DEF NotifyAnalystApproved, Pending, User, IInv, RequestsSound
<1>2. Ends(q) /\ UNCHANGED <<accounts, sessions, links, crashes, era, resets, lost,
                             approvals, outrun>>
      /\ notices' \in [Rows -> Nat]
  BY <1>1 DEF NotifyAnalystApproved, IInv, HistorySound
<1>3. AccountsSound' /\ \A b \in Rows : Used(b) => Used(b)'
  BY <1>2, SameSound DEF IInv
<1>4. SessionsDie'
  BY <1>1, <1>2, SessionsStay DEF Ends, Goes
<1>5. HistorySound' /\ LinksNew' /\ About(NoRequest)'
  BY <1>2 DEF Ends, Goes, IInv, HistorySound, LinksNew, About
<1> QED
  BY <1>1, <1>2, <1>3, <1>4, <1>5, NoRequestIsRequest, OnKeep DEF Ends, IInv, SessionsSound

LEMMA DieKeeps == ASSUME IInv, NEW q \in Requests, Die(q) PROVE IInv'
<1>1. requests[q] \in Request /\ requests[q].at # "idle" /\ User(q) \in Rows
  BY RequestHolds DEF Die, User, IInv, RequestsSound
<1>2. Ends(q) /\ UNCHANGED <<accounts, sessions, links, era, resets, approvals, notices, outrun>>
  BY DEF Die
<1>3. AccountsSound' /\ \A b \in Rows : Used(b) => Used(b)'
  BY <1>2, SameSound DEF IInv
<1>4. lost' = lost \union IF Pending(q, "revoke") THEN {User(q)} ELSE {}
  BY DEF Die
<1>5. \A r \in Requests \ {q} : requests'[r] = requests[r]
  BY DEF Die, Ends, Goes, IInv, RequestsSound
<1>6. SessionsDie'
  BY <1>2, <1>4, <1>5 DEF IInv, SessionsDie, Pending, User
<1>7. HistorySound' /\ LinksNew' /\ About(NoRequest)'
  BY <1>1, AccountsAssumption DEF Die, Ends, Goes, IInv, HistorySound, LinksNew, About
<1> QED
  BY <1>1, <1>2, <1>3, <1>6, <1>7, NoRequestIsRequest, OnKeep DEF Ends, IInv, SessionsSound

LEMMA InitIInv == Init => IInv
<1> SUFFICES ASSUME Init PROVE IInv
  OBVIOUS
<1>1. AccountsSound
  BY AccountsAssumption DEF Init, AccountsSound, Used
<1>2. LinksSound /\ LinksNew
  BY DEF Init, LinksSound, LinksNew
<1>3. RequestsSound
  BY NoRequestIsRequest DEF Init, RequestsSound, About
<1>4. SessionsSound /\ SessionsDie
  BY DEF Init, SessionsSound, SessionsDie
<1>5. HistorySound
  BY AccountsAssumption DEF Init, HistorySound
<1> QED
  BY <1>1, <1>2, <1>3, <1>4, <1>5 DEF IInv

LEMMA NextIInv == IInv /\ [Next]_vars => IInv'
<1> SUFFICES ASSUME IInv, [Next]_vars PROVE IInv'
  OBVIOUS
<1>1. CASE UNCHANGED vars
  BY <1>1
  DEF vars, IInv, AccountsSound, Used, LinksSound, RequestsSound, About, SessionsSound,
      HistorySound, SessionsDie, Pending, User, LinksNew
<1>2. ASSUME NEW q \in Requests,
             \/ CreateSession(q) \/ RevokeAllSessionsForUser(q)
             \/ LinkGoogle(q) \/ VerifyEmail(q) \/ ResetPassword(q) \/ RedeemTelegramLink(q)
             \/ CloseAccount(q) \/ DecideAnalyst(q) \/ NotifyAnalystApproved(q) \/ Die(q)
      PROVE  IInv'
  BY <1>2, OpenKeeps, RevokeKeeps, GoogleLinkKeeps, VerifyKeeps, ResetKeeps, RedeemKeeps,
     CloseKeeps, DecideKeeps, NotifyKeeps, DieKeeps
<1>3. ASSUME NEW q \in Requests, NEW a \in Rows,
             \/ Login(q, a) \/ ResendVerification(q, a) \/ ForgotPassword(q, a)
             \/ CreateTelegramLink(q, a) \/ UnlinkTelegram(q, a)
             \/ ReadForClosing(q, a) \/ ApplyAsAnalyst(q, a)
             \/ \E m \in Mailboxes : CompleteSignup(q, a, m) \/ CompleteGoogleSignup(q, a, m)
             \/ \E status \in {"ACTIVE", "SUSPENDED"} : SetUserStatus(q, a, status)
             \/ \E d \in {"APPROVED", "REJECTED", "SUSPENDED"} : ReadProfile(q, a, d)
      PROVE  IInv'
  BY <1>3, LoginKeeps, IssuingKeeps, OwnRowKeeps, ClosingReadKeeps, SigningUpKeeps,
     SuspendKeeps, ProfileReadKeeps
<1>4. ASSUME NEW q \in Requests,
             \/ \E s \in sessions : Logout(q, s)
             \/ \E m \in Mailboxes : GoogleCallback(q, m)
             \/ \E c \in Chats : TelegramAuth(q, c)
             \/ \E l \in links :
                  \/ ReadVerification(q, l) \/ ReadReset(q, l)
                  \/ \E c \in Chats : ReadTelegramLink(q, l, c)
      PROVE  IInv'
  BY <1>4, LogoutKeeps, GoogleReadKeeps, SigningUpKeeps, LinkReadKeeps
<1> QED
  BY <1>1, <1>2, <1>3, <1>4 DEF Next

(* Types: whatever requests overlap or die, a request that goes on is about   *)
(* a row and holds what its handler read, and an approved analyst has the     *)
(* role (schema.prisma, actions/admin.ts).                                  *)
THEOREM AccountsTyping == Spec => []AccountsTypeOK
<1>1. IInv => AccountsTypeOK
  BY DEF IInv, AccountsSound, LinksSound, RequestsSound, SessionsSound, HistorySound,
         AccountsTypeOK
<1> QED
  BY <1>1, InitIInv, NextIInv, PTL DEF Spec

(* No session outlives the change that must end it, unless the process died   *)
(* in between or is still about to revoke it (revokeAllSessionsForUser).      *)
THEOREM SessionsEnd == Spec => []SessionsDie
<1>1. IInv => SessionsDie
  BY DEF IInv
<1> QED
  BY <1>1, InitIInv, NextIInv, PTL DEF Spec

(* A reset link sets the password only if it was asked for after the last      *)
(* reset, or in a request that had read it before that reset                  *)
(* (resetPasswordAction: the link is tested once and never again).            *)
THEOREM LinksWorkOnce == Spec => []LinksDieUnlessRead
<1>1. IInv => LinksDieUnlessRead
  <2> SUFFICES ASSUME IInv, NEW q \in Requests, Pending(q, "reset")
               PROVE  requests[q].link.issued = requests[q].read
    BY DEF IInv, LinksNew, LinksDieUnlessRead
  <2>1. requests[q].at = "reset" /\ requests[q] # NoRequest /\ About(requests[q])
    BY DEF Pending, NoRequest, IInv, RequestsSound
  <2> QED
    BY <2>1 DEF About
<1> QED
  BY <1>1, InitIInv, NextIInv, PTL DEF Spec
-----------------------------------------------------------------------------
(* The unique columns.                                                     *)
UniqueHolders ==
  /\ \A m \in Mailboxes : Unique(accounts, "email", m) /\ Unique(accounts, "google", m)
  /\ \A c \in Chats : Unique(accounts, "telegram", c) /\ Unique(accounts, "chat", c)

(* An account in use is known by an address, or by who it is at Telegram.    *)
HasDoor(row) ==
  /\ row.status # "NONE" => row.email # None
  /\ row.email = Placeholder => row.telegram # None

(* A row takes a value only when no other row has it, and loses no way in.  *)
KeepsColumns(a, row) ==
  /\ HasDoor(accounts[a]) => HasDoor(row)
  /\ row.email \notin Mailboxes \/ row.email = accounts[a].email \/ Free("email", row.email, a)
  /\ row.google = None \/ row.google = accounts[a].google \/ Free("google", row.google, a)
  /\ row.telegram = None \/ row.telegram = accounts[a].telegram
       \/ Free("telegram", row.telegram, a)
  /\ row.chat = None \/ row.chat = accounts[a].chat \/ Free("chat", row.chat, a)

WritesRow == \E a \in Rows, row \in Account : Set(a, row) /\ KeepsColumns(a, row)

LEMMA SignUpWrites ==
  ASSUME NEW q, NEW a \in Rows, NEW password \in {"random", "chosen"},
         NEW email \in Mailboxes \union {Placeholder}, NEW google \in Mailboxes \union {None},
         NEW telegram \in Chats \union {None},
         SignUp(q, a, NewAccount(email, password, google, telegram)),
         email = Placeholder \/ Free("email", email, a),
         google = None \/ Free("google", google, a),
         telegram = None \/ Free("telegram", telegram, a),
         email = Placeholder => telegram # None
  PROVE  WritesRow
<1> DEFINE row == NewAccount(email, password, google, telegram)
<1>1. row \in Account
  <2>1. (email \in Mailboxes) \in BOOLEAN
    OBVIOUS
  <2> QED
    BY <2>1 DEF NewAccount, Account, Profiles
<1>2. KeepsColumns(a, row)
  BY AccountsAssumption DEF KeepsColumns, NewAccount, HasDoor
<1>3. Set(a, row)
  BY DEF SignUp
<1> QED
  BY <1>1, <1>2, <1>3 DEF WritesRow

LEMMA SigningUpWrites ==
  ASSUME NEW q,
         \/ \E a \in Rows, m \in Mailboxes : CompleteSignup(q, a, m) \/ CompleteGoogleSignup(q, a, m)
         \/ \E c \in Chats : TelegramAuth(q, c)
  PROVE  WritesRow \/ UNCHANGED accounts
<1>1. ASSUME NEW a \in Rows, NEW m \in Mailboxes,
             CompleteSignup(q, a, m) \/ CompleteGoogleSignup(q, a, m)
      PROVE  WritesRow
  BY <1>1, SignUpWrites, AccountsAssumption DEF CompleteSignup, CompleteGoogleSignup
<1>2. ASSUME NEW c \in Chats, TelegramAuth(q, c) PROVE WritesRow \/ UNCHANGED accounts
  <2>1. ASSUME NEW a \in Rows, SignUp(q, a, NewAccount(Placeholder, "random", None, c)),
               Holders("telegram", c) = {}
        PROVE  WritesRow
    <3>1. Free("telegram", c, a)
      BY <2>1 DEF Free
    <3> QED
      BY <2>1, <3>1, SignUpWrites, AccountsAssumption
  <2> QED
    BY <1>2, <2>1 DEF TelegramAuth
<1> QED
  BY <1>1, <1>2

LEMMA OwnRowWrites ==
  ASSUME IInv, NEW q, NEW a \in Rows,
         \/ UnlinkTelegram(q, a) \/ ApplyAsAnalyst(q, a)
         \/ \E status \in {"ACTIVE", "SUSPENDED"} : SetUserStatus(q, a, status)
  PROVE  WritesRow
<1>0. accounts[a] \in Account /\ Used(a)
  BY DEF IInv, AccountsSound, Used, UnlinkTelegram, ApplyAsAnalyst, MayApply, SignedIn, SetUserStatus
<1>1. ASSUME NEW row, row \in {[accounts[a] EXCEPT !.chat = None],
                              [accounts[a] EXCEPT !.profile = "PENDING"],
                              [accounts[a] EXCEPT !.status = "ACTIVE"],
                              [accounts[a] EXCEPT !.status = "SUSPENDED"]}
      PROVE  row \in Account /\ KeepsColumns(a, row)
  BY <1>0, <1>1 DEF Account, Profiles, KeepsColumns, HasDoor, Used
<1>2. \E row \in {[accounts[a] EXCEPT !.chat = None],
                  [accounts[a] EXCEPT !.profile = "PENDING"],
                  [accounts[a] EXCEPT !.status = "ACTIVE"],
                  [accounts[a] EXCEPT !.status = "SUSPENDED"]} : Set(a, row)
  BY DEF UnlinkTelegram, ApplyAsAnalyst, SetUserStatus
<1> QED
  BY <1>1, <1>2 DEF WritesRow

LEMMA GoingOnWrites ==
  ASSUME IInv, NEW q \in Requests,
         \/ LinkGoogle(q) \/ VerifyEmail(q) \/ ResetPassword(q) \/ RedeemTelegramLink(q)
         \/ CloseAccount(q) \/ DecideAnalyst(q)
  PROVE  WritesRow \/ UNCHANGED accounts
<1>0. PICK r, a : r = requests[q] /\ a = User(q)
  OBVIOUS
<1>1. r \in Request /\ a = r.user /\ r.at # "idle" /\ a \in Rows /\ accounts[a] \in Account
  BY <1>0, RequestHolds
  DEF LinkGoogle, VerifyEmail, ResetPassword, RedeemTelegramLink, CloseAccount, DecideAnalyst,
      Pending, User, IInv, RequestsSound, AccountsSound
<1>2. CASE LinkGoogle(q)
  <2> DEFINE row == [accounts[a] EXCEPT !.google = r.google]
  <2>1. r.google \in Mailboxes
    BY <1>0, <1>1, <1>2, RequestHolds DEF LinkGoogle, Pending
  <2>2. row \in Account
    BY <1>1, <2>1 DEF Account
  <2>3. Free("google", r.google, a) => KeepsColumns(a, row)
    BY <1>1 DEF Account, KeepsColumns, HasDoor
  <2> QED
    BY <1>0, <1>1, <1>2, <2>2, <2>3 DEF LinkGoogle, WritesRow
<1>3. CASE VerifyEmail(q)
  <2> DEFINE row == [accounts[a] EXCEPT !.verified = TRUE]
  <2>1. row \in Account /\ KeepsColumns(a, row)
    BY <1>1 DEF Account, KeepsColumns, HasDoor
  <2> QED
    BY <1>0, <1>1, <1>3, <2>1 DEF VerifyEmail, WritesRow
<1>4. CASE ResetPassword(q)
  <2> DEFINE row == [accounts[a] EXCEPT !.password = "chosen"]
  <2>1. row \in Account /\ KeepsColumns(a, row)
    BY <1>1 DEF Account, KeepsColumns, HasDoor
  <2> QED
    BY <1>0, <1>1, <1>4, <2>1 DEF ResetPassword, WritesRow
<1>5. CASE RedeemTelegramLink(q)
  <2> DEFINE row == [accounts[a] EXCEPT !.chat = r.chat]
  <2>1. r.chat \in Chats
    BY <1>0, <1>1, <1>5, RequestHolds DEF RedeemTelegramLink, Pending
  <2>2. row \in Account
    BY <1>1, <2>1 DEF Account
  <2>3. Free("chat", r.chat, a) => KeepsColumns(a, row)
    BY <1>1 DEF Account, KeepsColumns, HasDoor
  <2> QED
    BY <1>0, <1>1, <1>5, <2>2, <2>3 DEF RedeemTelegramLink, WritesRow
<1>6. CASE CloseAccount(q)
  <2> DEFINE row == [accounts[a] EXCEPT !.status = "DELETED", !.email = Closed, !.verified = FALSE,
                       !.google = None, !.telegram = None, !.chat = None]
  <2>1. row \in Account
    BY <1>1 DEF Account
  <2>2. row.email = Closed /\ row.google = None /\ row.telegram = None /\ row.chat = None
    BY <1>1 DEF Account
  <2>3. KeepsColumns(a, row)
    BY <2>2, AccountsAssumption DEF KeepsColumns, HasDoor, Closed, Placeholder
  <2> QED
    BY <1>0, <1>1, <1>6, <2>1, <2>3 DEF CloseAccount, WritesRow
<1>7. CASE DecideAnalyst(q)
  <2> DEFINE row == [accounts[a] EXCEPT !.profile = r.decision,
                       !.role = RoleAfter(a, r.decision)]
  <2>1. r.decision \in Profiles
    BY <1>0, <1>1, <1>7, RequestHolds DEF DecideAnalyst, Pending
  <2>2. RoleAfter(a, r.decision) \in {"USER", "ANALYST"}
    BY <1>1 DEF RoleAfter, Account
  <2>3. row \in Account /\ KeepsColumns(a, row)
    BY <1>1, <2>1, <2>2 DEF Account, KeepsColumns, HasDoor
  <2> QED
    BY <1>0, <1>1, <1>7, <2>3 DEF DecideAnalyst, WritesRow
<1> QED
  BY <1>2, <1>3, <1>4, <1>5, <1>6, <1>7

LEMMA StepsWrite == IInv /\ [Next]_vars => WritesRow \/ UNCHANGED accounts
<1> SUFFICES ASSUME IInv, [Next]_vars, ~UNCHANGED accounts PROVE WritesRow
  OBVIOUS
<1>1. ASSUME NEW q \in Requests,
             \/ CreateSession(q) \/ RevokeAllSessionsForUser(q)
             \/ NotifyAnalystApproved(q) \/ Die(q)
             \/ \E s \in sessions : Logout(q, s)
             \/ \E m \in Mailboxes : GoogleCallback(q, m)
             \/ \E l \in links :
                  \/ ReadVerification(q, l) \/ ReadReset(q, l)
                  \/ \E c \in Chats : ReadTelegramLink(q, l, c)
      PROVE  FALSE
  BY <1>1
  DEF CreateSession, RevokeAllSessionsForUser, NotifyAnalystApproved, Die, Logout, GoogleCallback,
      ReadVerification, ReadReset, ReadTelegramLink
<1>2. ASSUME NEW q \in Requests, NEW a \in Rows,
             \/ Login(q, a) \/ ResendVerification(q, a) \/ ForgotPassword(q, a)
             \/ CreateTelegramLink(q, a) \/ ReadForClosing(q, a)
             \/ \E d \in {"APPROVED", "REJECTED", "SUSPENDED"} : ReadProfile(q, a, d)
      PROVE  FALSE
  BY <1>2
  DEF Login, ResendVerification, ForgotPassword, CreateTelegramLink, ReadForClosing, ReadProfile
<1> QED
  BY <1>1, <1>2, SigningUpWrites, OwnRowWrites, GoingOnWrites DEF Next, vars

LEMMA WritingKeepsUnique ==
  ASSUME IInv, UniqueHolders, WritesRow PROVE UniqueHolders'
<1>1. PICK a \in Rows, row \in Account : Set(a, row) /\ KeepsColumns(a, row)
  BY DEF WritesRow
<1>2. accounts'[a] = row /\ \A b \in Rows \ {a} : accounts'[b] = accounts[b]
  BY <1>1 DEF Set, IInv, AccountsSound
<1>3. ASSUME NEW m \in Mailboxes PROVE Unique(accounts, "email", m)'
  BY <1>1, <1>2 DEF UniqueHolders, Unique, KeepsColumns, Free, Holders
<1>4. ASSUME NEW m \in Mailboxes PROVE Unique(accounts, "google", m)'
  BY <1>1, <1>2, AccountsAssumption DEF UniqueHolders, Unique, KeepsColumns, Free, Holders
<1>5. ASSUME NEW c \in Chats PROVE Unique(accounts, "telegram", c)'
  BY <1>1, <1>2, AccountsAssumption DEF UniqueHolders, Unique, KeepsColumns, Free, Holders
<1>6. ASSUME NEW c \in Chats PROVE Unique(accounts, "chat", c)'
  BY <1>1, <1>2, AccountsAssumption DEF UniqueHolders, Unique, KeepsColumns, Free, Holders
<1> QED
  BY <1>3, <1>4, <1>5, <1>6 DEF UniqueHolders

LEMMA UniqueStep == IInv /\ UniqueHolders /\ [Next]_vars => UniqueHolders'
<1> SUFFICES ASSUME IInv, UniqueHolders, [Next]_vars PROVE UniqueHolders'
  OBVIOUS
<1>1. CASE UNCHANGED accounts
  BY <1>1 DEF UniqueHolders, Unique
<1> QED
  BY <1>1, StepsWrite, WritingKeepsUnique

LEMMA UniqueCounts ==
  ASSUME NEW field, NEW x, Unique(accounts, field, x)
  PROVE  Cardinality(Holders(field, x)) <= 1
<1>1. CASE Holders(field, x) = {}
  BY <1>1, FS_EmptySet
<1>2. CASE Holders(field, x) # {}
  <2>1. PICK a \in Rows : Holders(field, x) = {a}
    BY <1>2 DEF Unique, Holders
  <2>2. Cardinality({a}) = 1
    BY FS_Singleton
  <2> QED
    BY <2>1, <2>2
<1> QED
  BY <1>1, <1>2

(* An address, a Google subject, a person at Telegram and a chat belong to    *)
(* one account each, for any number of accounts and of requests that claim    *)
(* them at once: the unique columns suffice, the reads before them do not     *)
(* matter (schema.prisma, telegram-link.ts).                                *)
THEOREM ColumnsHaveOneHolder == Spec => []OneHolder
<1>1. Init => UniqueHolders
  BY AccountsAssumption DEF Init, UniqueHolders
<1>2. IInv /\ UniqueHolders /\ [Next]_vars => UniqueHolders'
  BY UniqueStep
<1>3. UniqueHolders => OneHolder
  BY UniqueCounts DEF UniqueHolders, OneHolder
<1> QED
  BY <1>1, <1>2, <1>3, InitIInv, NextIInv, PTL DEF Spec
-----------------------------------------------------------------------------
(* The requests that have an approval to tell.                              *)
Telling(a) == {q \in Requests : Pending(q, "notify") /\ User(q) = a}

LEMMA TellingFinite ==
  ASSUME NEW a
  PROVE  /\ IsFiniteSet(Telling(a)) /\ Cardinality(Telling(a)) \in Nat
         /\ IsFiniteSet(Telling(a)') /\ Cardinality(Telling(a)') \in Nat
<1>1. IsFiniteSet(Telling(a)) /\ IsFiniteSet(Telling(a)')
  <2>1. Telling(a) \in SUBSET Requests /\ Telling(a)' \in SUBSET Requests
    BY DEF Telling
  <2> QED
    BY <2>1, FS_Subset, AccountsAssumption
<1> QED
  BY <1>1, FS_CardinalityType

LEMMA TellingFewer ==
  ASSUME IInv, NEW q \in Requests, NEW next, requests' = [requests EXCEPT ![q] = next],
         next.at # "notify", NEW a
  PROVE  /\ Cardinality(Telling(a)') <= Cardinality(Telling(a))
         /\ q \in Telling(a) => Cardinality(Telling(a)') = Cardinality(Telling(a)) - 1
<1>1. Telling(a)' = Telling(a) \ {q}
  BY DEF Telling, Pending, User, IInv, RequestsSound
<1>2. /\ Cardinality(Telling(a) \ {q}) <= Cardinality(Telling(a))
      /\ q \in Telling(a) => Cardinality(Telling(a) \ {q}) = Cardinality(Telling(a)) - 1
  BY TellingFinite, FS_RemoveElement
<1> QED
  BY <1>1, <1>2

LEMMA TellingMore ==
  ASSUME IInv, NEW q \in Requests, NEW a, NEW b,
         requests' = [requests EXCEPT ![q] = [at |-> "notify", user |-> a]],
         requests[q].at # "notify"
  PROVE  Cardinality(Telling(b)') = IF a = b THEN Cardinality(Telling(b)) + 1
                                             ELSE Cardinality(Telling(b))
<1>1. requests'[q].at = "notify" /\ requests'[q].user = a
      /\ \A r \in Requests \ {q} : requests'[r] = requests[r]
  BY DEF IInv, RequestsSound
<1>2. CASE a = b
  <2>1. Telling(b)' = Telling(b) \union {q} /\ q \notin Telling(b)
    BY <1>1, <1>2 DEF Telling, Pending, User
  <2>2. Cardinality(Telling(b) \union {q}) = Cardinality(Telling(b)) + 1
    BY <2>1, TellingFinite, FS_AddElement
  <2> QED
    BY <1>2, <2>1, <2>2
<1>3. CASE a # b
  <2>1. Telling(b)' = Telling(b)
    BY <1>1, <1>3 DEF Telling, Pending, User
  <2> QED
    BY <1>3, <2>1
<1> QED
  BY <1>2, <1>3

Heard == \A a \in Rows \ outrun : notices[a] + Cardinality(Telling(a)) <= approvals[a]

LEMMA OthersHeard ==
  ASSUME IInv, Heard, NEW q \in Requests, NEW next, requests' = [requests EXCEPT ![q] = next],
         next.at # "notify", UNCHANGED <<approvals, notices, outrun>>
  PROVE  Heard'
<1> SUFFICES ASSUME NEW a \in Rows \ outrun
             PROVE  notices[a] + Cardinality(Telling(a)') <= approvals[a]
  BY DEF Heard
<1>1. Cardinality(Telling(a)') <= Cardinality(Telling(a))
  BY TellingFewer
<1>2. notices[a] \in Nat /\ approvals[a] \in Nat
  BY DEF IInv, HistorySound
<1> QED
  BY <1>1, <1>2, TellingFinite DEF Heard

LEMMA DecideHeard ==
  ASSUME IInv, Heard, NEW q \in Requests, DecideAnalyst(q) PROVE Heard'
<1>0. PICK a, r : a = User(q) /\ r = requests[q]
  OBVIOUS
<1>1. r \in Request /\ r.at = "decide" /\ a = r.user /\ a \in Rows
  BY <1>0, RequestHolds DEF DecideAnalyst, Pending, User, IInv, RequestsSound
<1>2. /\ approvals' = [approvals EXCEPT ![a] =
           @ + IF r.decision = "APPROVED" /\ accounts[a].profile # "APPROVED" THEN 1 ELSE 0]
      /\ outrun' = outrun \union IF r.was = accounts[a].profile THEN {} ELSE {a}
      /\ UNCHANGED notices
      /\ requests' = [requests EXCEPT ![q] =
           IF r.decision = "APPROVED" /\ r.was # "APPROVED"
             THEN [at |-> "notify", user |-> a] ELSE NoRequest]
  BY <1>0 DEF DecideAnalyst, Goes, News
<1> SUFFICES ASSUME NEW b \in Rows \ outrun'
             PROVE  notices[b] + Cardinality(Telling(b)') <= approvals'[b]
  BY <1>2 DEF Heard
<1>3. notices[b] \in Nat /\ approvals[b] \in Nat /\ approvals \in [Rows -> Nat]
      /\ b \in Rows \ outrun /\ notices[b] + Cardinality(Telling(b)) <= approvals[b]
  BY <1>2 DEF IInv, HistorySound, Heard
<1>4. CASE r.decision = "APPROVED" /\ r.was # "APPROVED"
  <2>1. requests' = [requests EXCEPT ![q] = [at |-> "notify", user |-> a]]
    BY <1>2, <1>4
  <2>2. requests[q].at # "notify"
    BY <1>0, <1>1
  <2>3. Cardinality(Telling(b)') = IF a = b THEN Cardinality(Telling(b)) + 1
                                            ELSE Cardinality(Telling(b))
    BY <2>1, <2>2, TellingMore
  <2>4. a = b => approvals'[b] = approvals[b] + 1
    BY <1>2, <1>3, <1>4
  <2>5. a # b => approvals'[b] = approvals[b]
    BY <1>1, <1>2, <1>3
  <2> QED
    BY <1>3, <2>3, <2>4, <2>5, TellingFinite
<1>5. CASE ~(r.decision = "APPROVED" /\ r.was # "APPROVED")
  <2>1. requests' = [requests EXCEPT ![q] = NoRequest] /\ NoRequest.at # "notify"
    BY <1>2, <1>5 DEF NoRequest
  <2>2. Cardinality(Telling(b)') <= Cardinality(Telling(b))
    BY <2>1, TellingFewer
  <2>3. approvals[b] <= approvals'[b] /\ approvals'[b] \in Nat
    BY <1>1, <1>2, <1>3
  <2> QED
    BY <1>3, <2>2, <2>3, TellingFinite
<1> QED
  BY <1>4, <1>5

LEMMA NotifyHeard ==
  ASSUME IInv, Heard, NEW q \in Requests, NotifyAnalystApproved(q) PROVE Heard'
<1>0. PICK a : a = User(q)
  OBVIOUS
<1>1. requests' = [requests EXCEPT ![q] = NoRequest] /\ NoRequest.at # "notify"
      /\ q \in Telling(a)
  BY <1>0 DEF NotifyAnalystApproved, Ends, Goes, NoRequest, Telling
<1> SUFFICES ASSUME NEW b \in Rows \ outrun
             PROVE  notices'[b] + Cardinality(Telling(b)') <= approvals[b]
  BY DEF Heard, NotifyAnalystApproved
<1>2. notices[b] \in Nat /\ approvals[b] \in Nat /\ notices \in [Rows -> Nat]
      /\ notices[b] + Cardinality(Telling(b)) <= approvals[b]
  BY DEF IInv, HistorySound, Heard
<1>3. Cardinality(Telling(b)') <= Cardinality(Telling(b))
      /\ (a = b => Cardinality(Telling(b)') = Cardinality(Telling(b)) - 1)
  BY <1>1, TellingFewer
<1>4. notices'[b] = notices[b] \/ (a = b /\ notices'[b] = notices[b] + 1)
  BY <1>0, <1>2 DEF NotifyAnalystApproved
<1> QED
  BY <1>2, <1>3, <1>4, TellingFinite

(* A step that neither decides on an analyst nor tells one of it.           *)
QuietStep(q) ==
  \E next : /\ requests' = [requests EXCEPT ![q] = next] /\ next.at # "notify"
            /\ UNCHANGED <<approvals, notices, outrun>>

LEMMA BeginQuiet ==
  ASSUME NEW q, NEW next, Begin(q, next), next.at # "notify",
         UNCHANGED <<approvals, notices, outrun>>
  PROVE  QuietStep(q)
  BY DEF Begin, QuietStep

LEMMA GoesQuiet ==
  ASSUME NEW q, NEW next, Goes(q, next), next.at # "notify",
         UNCHANGED <<approvals, notices, outrun>>
  PROVE  QuietStep(q)
  BY DEF Goes, QuietStep

LEMMA AtQuiet ==
  /\ NoRequest.at # "notify"
  /\ \A a : Opening(a).at # "notify"
  /\ \A a, then : Revoking(a, then).at # "notify"
  BY DEF NoRequest, Opening, Revoking

LEMMA GoingOnQuiet ==
  ASSUME IInv, NEW q \in Requests,
         \/ CreateSession(q) \/ RevokeAllSessionsForUser(q)
         \/ LinkGoogle(q) \/ VerifyEmail(q) \/ ResetPassword(q) \/ RedeemTelegramLink(q)
         \/ CloseAccount(q) \/ Die(q)
  PROVE  QuietStep(q)
<1>1. CASE \/ CreateSession(q) \/ VerifyEmail(q) \/ RedeemTelegramLink(q) \/ Die(q)
  BY <1>1, GoesQuiet, AtQuiet
  DEF CreateSession, VerifyEmail, RedeemTelegramLink, Die, Ends, history
<1>2. CASE LinkGoogle(q) \/ ResetPassword(q) \/ CloseAccount(q)
  BY <1>2, GoesQuiet, AtQuiet DEF LinkGoogle, ResetPassword, CloseAccount, Ends
<1>3. CASE RevokeAllSessionsForUser(q)
  <2>1. requests[q] \in Request /\ requests[q].at = "revoke"
    BY <1>3 DEF RevokeAllSessionsForUser, Pending, IInv, RequestsSound
  <2>2. requests[q].then.at # "notify"
    <3>1. requests[q].then \in {NoRequest} \union [at : {"open"}, user : Rows]
      BY <2>1, RequestHolds
    <3> QED
      BY <3>1, AtQuiet
  <2> QED
    BY <1>3, <2>2, GoesQuiet DEF RevokeAllSessionsForUser, history
<1> QED
  BY <1>1, <1>2, <1>3

LEMMA BeginningQuiet ==
  ASSUME NEW q \in Requests, NEW a \in Rows,
         \/ Login(q, a) \/ ResendVerification(q, a) \/ ForgotPassword(q, a)
         \/ CreateTelegramLink(q, a) \/ UnlinkTelegram(q, a)
         \/ ReadForClosing(q, a) \/ ApplyAsAnalyst(q, a)
         \/ \E m \in Mailboxes : CompleteSignup(q, a, m) \/ CompleteGoogleSignup(q, a, m)
         \/ \E status \in {"ACTIVE", "SUSPENDED"} : SetUserStatus(q, a, status)
         \/ \E d \in {"APPROVED", "REJECTED", "SUSPENDED"} : ReadProfile(q, a, d)
  PROVE  QuietStep(q)
<1>1. CASE \/ Login(q, a) \/ ResendVerification(q, a) \/ ForgotPassword(q, a)
           \/ CreateTelegramLink(q, a) \/ UnlinkTelegram(q, a) \/ ApplyAsAnalyst(q, a)
  BY <1>1, BeginQuiet, AtQuiet
  DEF Login, ResendVerification, ForgotPassword, CreateTelegramLink, UnlinkTelegram,
      ApplyAsAnalyst, history
<1>2. CASE ReadForClosing(q, a)
  BY <1>2, BeginQuiet DEF ReadForClosing, history
<1>3. CASE \E m \in Mailboxes : CompleteSignup(q, a, m) \/ CompleteGoogleSignup(q, a, m)
  BY <1>3, BeginQuiet, AtQuiet DEF CompleteSignup, CompleteGoogleSignup, SignUp, history
<1>4. CASE \E status \in {"ACTIVE", "SUSPENDED"} : SetUserStatus(q, a, status)
  BY <1>4, BeginQuiet, AtQuiet DEF SetUserStatus
<1>5. CASE \E d \in {"APPROVED", "REJECTED", "SUSPENDED"} : ReadProfile(q, a, d)
  BY <1>5, BeginQuiet DEF ReadProfile, history
<1> QED
  BY <1>1, <1>2, <1>3, <1>4, <1>5

LEMMA VisitingQuiet ==
  ASSUME NEW q \in Requests,
         \/ \E s \in sessions : Logout(q, s)
         \/ \E m \in Mailboxes : GoogleCallback(q, m)
         \/ \E c \in Chats : TelegramAuth(q, c)
         \/ \E l \in links :
              \/ ReadVerification(q, l) \/ ReadReset(q, l)
              \/ \E c \in Chats : ReadTelegramLink(q, l, c)
  PROVE  QuietStep(q)
<1>1. CASE \E s \in sessions : Logout(q, s)
  BY <1>1, BeginQuiet, AtQuiet DEF Logout, history
<1>2. ASSUME NEW m \in Mailboxes, GoogleCallback(q, m) PROVE QuietStep(q)
  BY <1>2, BeginQuiet, AtQuiet DEF GoogleCallback, history
<1>3. ASSUME NEW c \in Chats, TelegramAuth(q, c) PROVE QuietStep(q)
  BY <1>3, BeginQuiet, AtQuiet DEF TelegramAuth, SignUp, history
<1>4. ASSUME NEW l \in links, ReadVerification(q, l) \/ ReadReset(q, l) PROVE QuietStep(q)
  BY <1>4, BeginQuiet DEF ReadVerification, ReadReset, history
<1>5. ASSUME NEW l \in links, NEW c \in Chats, ReadTelegramLink(q, l, c) PROVE QuietStep(q)
  BY <1>5, BeginQuiet DEF ReadTelegramLink, history
<1> QED
  BY <1>1, <1>2, <1>3, <1>4, <1>5

LEMMA NextHeard == IInv /\ Heard /\ [Next]_vars => Heard'
<1> SUFFICES ASSUME IInv, Heard, [Next]_vars PROVE Heard'
  OBVIOUS
<1>1. CASE UNCHANGED vars
  BY <1>1 DEF vars, Heard, Telling, Pending, User
<1>2. ASSUME NEW q \in Requests, DecideAnalyst(q) \/ NotifyAnalystApproved(q) PROVE Heard'
  BY <1>2, DecideHeard, NotifyHeard
<1>3. ASSUME NEW q \in Requests, QuietStep(q) PROVE Heard'
  BY <1>3, OthersHeard DEF QuietStep
<1> QED
  BY <1>1, <1>2, <1>3, GoingOnQuiet, BeginningQuiet, VisitingQuiet DEF Next

(* An analyst hears of an approval as often as the profile became approved,   *)
(* unless two administrators decided on one status read, for any number of    *)
(* administrators and requests (decideAnalystAction, notifyAnalystApproved). *)
THEOREM ApprovalsHeardOnce == Spec => []ApprovedOnce
<1>1. Init => Heard
  <2> SUFFICES ASSUME Init, NEW a \in Rows
               PROVE  notices[a] + Cardinality(Telling(a)) <= approvals[a]
    BY DEF Heard
  <2>1. Telling(a) = {}
    BY DEF Init, Telling, Pending, NoRequest
  <2>2. notices[a] = 0 /\ approvals[a] = 0
    BY DEF Init
  <2> QED
    BY <2>1, <2>2, FS_EmptySet
<1>2. Heard => ApprovedOnce
  BY DEF Heard, ApprovedOnce, Telling
<1> QED
  BY <1>1, <1>2, InitIInv, NextIInv, NextHeard, PTL DEF Spec
-----------------------------------------------------------------------------
(* The doors.                                                              *)
Doors == \A a \in Rows : HasDoor(accounts[a])

LEMMA DoorsStep == IInv /\ Doors /\ [Next]_vars => Doors'
<1> SUFFICES ASSUME IInv, Doors, [Next]_vars PROVE Doors'
  OBVIOUS
<1>1. CASE UNCHANGED accounts
  BY <1>1 DEF Doors
<1>2. CASE WritesRow
  <2>1. PICK a \in Rows, row \in Account : Set(a, row) /\ KeepsColumns(a, row)
    BY <1>2 DEF WritesRow
  <2>2. accounts'[a] = row /\ \A b \in Rows \ {a} : accounts'[b] = accounts[b]
    BY <2>1 DEF Set, IInv, AccountsSound
  <2> QED
    BY <2>1, <2>2 DEF Doors, KeepsColumns
<1> QED
  BY <1>1, <1>2, StepsWrite

(* Where a request of a visitor ends.                                       *)
Plain == LinkPages \union {"/", "/free", "/paid", "not found"}

LEMMA KindsOfPages ==
  /\ Site \union {"not found"} = SignedInOnly \union SignInPages \union Plain \union {"own page"}
  /\ SignedInOnly = AdminArea \union Workspace \union {"/account", "/apply", "/feed"}
  /\ \A page \in SignInPages \union Plain \union {"own page"} : page \notin SignedInOnly
  /\ \A page \in Plain \union {"own page"} : page \notin SignInPages
  /\ \A page \in AdminArea : page \notin Workspace \union {"/account", "/apply", "/feed"}
  /\ \A page \in Workspace : page \notin {"/account", "/apply", "/feed"}
  /\ "/login" \in SignInPages /\ "own page" \notin Plain
  BY DEF Plain, SignedInOnly, AdminArea, Workspace, SignInPages, LinkPages, Public, Site

LEMMA AnswerIs ==
  ASSUME NEW page, NEW v
  PROVE  /\ page \in AdminArea => Answer(page, v, FALSE) = AdminLayout(page, v)
         /\ page \in Workspace => Answer(page, v, FALSE) = AnalystLayout(page, v)
         /\ page = "/account" => Answer(page, v, FALSE) = AccountLayout(v)
         /\ page = "/apply" => Answer(page, v, FALSE) = ApplyPage(v)
         /\ page = "/feed" => Answer(page, v, FALSE) = FeedRoute(v)
         /\ page \in SignInPages /\ Known(v) => Answer(page, v, FALSE) = "/account"
         /\ page \in SignInPages /\ ~Known(v) =>
              Answer(page, v, FALSE) = IF page = "/auth/google" THEN "/login" ELSE page
         /\ page = "own page" => Answer(page, v, FALSE) = IF Author(v) THEN page ELSE "not found"
         /\ page \in Plain => Answer(page, v, FALSE) = page
<1> USE DEF AdminArea, Workspace, SignInPages, LinkPages, Plain, Answer
<1>1. page \in AdminArea => Answer(page, v, FALSE) = AdminLayout(page, v)
  OBVIOUS
<1>2. page \in Workspace => Answer(page, v, FALSE) = AnalystLayout(page, v)
  OBVIOUS
<1>3. /\ page = "/account" => Answer(page, v, FALSE) = AccountLayout(v)
      /\ page = "/apply" => Answer(page, v, FALSE) = ApplyPage(v)
      /\ page = "/feed" => Answer(page, v, FALSE) = FeedRoute(v)
  OBVIOUS
<1>4. page \in SignInPages /\ Known(v) => Answer(page, v, FALSE) = "/account"
  BY DEF GoogleConfirmPage, SignInRoute
<1>5. page \in SignInPages /\ ~Known(v) =>
        Answer(page, v, FALSE) = IF page = "/auth/google" THEN "/login" ELSE page
  BY DEF GoogleConfirmPage, SignInRoute
<1>6. page = "own page" => Answer(page, v, FALSE) = IF Author(v) THEN page ELSE "not found"
  OBVIOUS
<1>7. page \in Plain => Answer(page, v, FALSE) = page
  OBVIOUS
<1> HIDE DEF AdminArea, Workspace, SignInPages, LinkPages, Plain, Answer
<1> QED BY <1>1, <1>2, <1>3, <1>4, <1>5, <1>6, <1>7

LEMMA KnownEnds ==
  ASSUME NEW page, NEW v, Known(v)
  PROVE  /\ page \in AdminArea =>
              Hop(page, v, TRUE) = IF v.role = "ADMIN" THEN page ELSE "/account"
         /\ page \in SignInPages => Hop(page, v, TRUE) = "/account"
         /\ page \in Workspace \union {"/account", "/feed"} \union Plain => Hop(page, v, TRUE) = page
         /\ page = "/apply" => Hop(page, v, TRUE) = IF Author(v) THEN "/analyst" ELSE "/apply"
         /\ page = "own page" => Hop(page, v, TRUE) = IF Author(v) THEN page ELSE "not found"
<1>1. EarlyGate(page, TRUE) = page
  BY DEF EarlyGate
<1>2. Hop(page, v, TRUE) = Answer(page, v, FALSE)
  BY <1>1 DEF Hop, Proxy
<1> QED
  BY <1>2, AnswerIs DEF AdminLayout, AnalystLayout, AccountLayout, ApplyPage, FeedRoute

(* A dead cookie is worth nothing.                                          *)
StrangerEnd(page) ==
  IF page \in SignedInOnly \union {"/auth/google"} THEN "/login"
  ELSE IF page = "own page" THEN "not found" ELSE page

LEMMA StrangerEnds ==
  ASSUME NEW page \in Site \union {"not found"}
  PROVE  /\ Hop(page, Nobody, TRUE) = StrangerEnd(page)
         /\ Hop(page, Nobody, FALSE) = StrangerEnd(page)
<1>1. ~Known(Nobody) /\ ~Author(Nobody) /\ Nobody.role # "ADMIN"
  BY DEF Nobody, Known, Author
<1>2. EarlyGate(page, TRUE) = page
      /\ EarlyGate(page, FALSE) = IF page \in SignedInOnly THEN "/login" ELSE page
  BY DEF EarlyGate
<1>3. page \in SignedInOnly => Answer(page, Nobody, FALSE) = "/login"
  BY <1>1, AnswerIs, KindsOfPages
  DEF AdminLayout, AnalystLayout, AccountLayout, ApplyPage, FeedRoute
<1>4. page \in SignInPages =>
        Answer(page, Nobody, FALSE) = IF page = "/auth/google" THEN "/login" ELSE page
  BY <1>1, AnswerIs
<1>5. page = "own page" => Answer(page, Nobody, FALSE) = "not found"
  BY <1>1, AnswerIs
<1>6. page \in Plain => Answer(page, Nobody, FALSE) = page
  BY AnswerIs
<1>7. Hop(page, Nobody, TRUE) = Answer(page, Nobody, FALSE)
  BY <1>2 DEF Hop, Proxy
<1>8. Hop(page, Nobody, FALSE) =
        IF page \in SignedInOnly THEN "/login" ELSE Answer(page, Nobody, FALSE)
  <2>1. CASE page \in SignedInOnly
    <3>1. page # "/login"
      BY <2>1, KindsOfPages
    <3> QED BY <1>2, <2>1, <3>1 DEF Hop, Proxy
  <2>2. CASE page \notin SignedInOnly
    BY <1>2, <2>2 DEF Hop, Proxy
  <2> QED BY <2>1, <2>2
<1>9. "/auth/google" \in SignInPages
  BY DEF SignInPages
<1>10. Answer(page, Nobody, FALSE) = StrangerEnd(page)
  BY <1>3, <1>4, <1>5, <1>6, <1>9, KindsOfPages DEF StrangerEnd
<1> QED BY <1>7, <1>8, <1>10 DEF StrangerEnd

(* One redirect is enough.                                                  *)
LEMMA KnownHop ==
  ASSUME NEW page \in Site \union {"not found"}, NEW v, Known(v)
  PROVE  /\ Hop(Hop(page, v, TRUE), v, TRUE) = Hop(page, v, TRUE)
         /\ Hop(page, v, TRUE) \notin SignInPages
         /\ Hop(page, v, TRUE) \in AdminArea => v.role = "ADMIN"
<1>0. PICK end : end = Hop(page, v, TRUE)
  OBVIOUS
<1>1. \A x \in Workspace \union {"/account", "/feed", "/apply", "own page"} \union Plain :
        x \notin SignInPages /\ x \notin AdminArea
  BY KindsOfPages
<1>2. "/analyst" \in Workspace /\ "not found" \in Plain
  BY DEF Workspace, Plain
<1>3. CASE page \in AdminArea
  <2>1. end = IF v.role = "ADMIN" THEN page ELSE "/account"
    BY <1>0, <1>3, KnownEnds
  <2>2. CASE v.role = "ADMIN"
    BY <1>0, <1>3, <2>1, <2>2, KindsOfPages
  <2>3. CASE v.role # "ADMIN"
    BY <1>0, <2>1, <2>3, <1>1, KnownEnds
  <2> QED BY <2>2, <2>3
<1>4. CASE page \in SignInPages
  <2>1. end = "/account" /\ Hop("/account", v, TRUE) = "/account"
    BY <1>0, <1>4, KnownEnds
  <2> QED BY <1>0, <1>1, <2>1
<1>5. CASE page \in Workspace \union {"/account", "/feed"} \union Plain
  <2>1. end = page
    BY <1>0, <1>5, KnownEnds
  <2>2. page \notin SignInPages /\ page \notin AdminArea
    BY <1>1, <1>5
  <2> QED BY <1>0, <2>1, <2>2
<1>6. CASE page = "/apply"
  <2>1. end = IF Author(v) THEN "/analyst" ELSE "/apply"
    BY <1>0, <1>6, KnownEnds
  <2>2. Hop("/analyst", v, TRUE) = "/analyst"
    BY <1>2, KnownEnds
  <2>3. end \in {"/analyst", "/apply"} /\ Hop(end, v, TRUE) = end
    BY <1>0, <1>6, <2>1, <2>2
  <2> QED BY <1>0, <1>1, <1>2, <2>3
<1>7. CASE page = "own page"
  <2>1. end = IF Author(v) THEN page ELSE "not found"
    BY <1>0, <1>7, KnownEnds
  <2>2. Hop("not found", v, TRUE) = "not found"
    BY <1>2, KnownEnds
  <2>3. end \in {"own page", "not found"} /\ Hop(end, v, TRUE) = end
    BY <1>0, <1>7, <2>1, <2>2
  <2> QED BY <1>0, <1>1, <1>2, <2>3
<1> QED BY <1>3, <1>4, <1>5, <1>6, <1>7, KindsOfPages

LEMMA StrangerStays ==
  ASSUME NEW page \in Site \union {"not found"}
  PROVE  /\ StrangerEnd(page) \in (Site \union {"not found"}) \ SignedInOnly
         /\ StrangerEnd(StrangerEnd(page)) = StrangerEnd(page)
<1>1. "/login" \in SignInPages \ {"/auth/google"} /\ "not found" \in Plain
  BY DEF SignInPages, Plain
<1> QED BY <1>1, KindsOfPages DEF StrangerEnd

LEMMA RedirectsEnd == PagesEnd
<1>1. ASSUME NEW v \in Everybody, NEW page \in Site, NEW cookie \in Cookies(v)
      PROVE  LET end == End(page, v, cookie) IN
             /\ Hop(end, v, cookie) = end /\ end = End(page, v, TRUE)
             /\ end \in SignedInOnly => Known(v)
             /\ end \in SignInPages => ~Known(v)
             /\ end \in AdminArea => v.role = "ADMIN"
  <2>1. CASE Known(v)
    <3>1. cookie = TRUE
      BY <2>1 DEF Cookies
    <3>2. End(page, v, TRUE) = Hop(page, v, TRUE)
      BY <2>1, KnownHop DEF End
    <3> QED BY <2>1, <3>1, <3>2, KnownHop
  <2>2. CASE ~Known(v)
    <3>1. v = Nobody /\ cookie \in BOOLEAN
      BY <2>2 DEF Known, Cookies
    <3>2. PICK end : end = StrangerEnd(page)
      OBVIOUS
    <3>3. end \in (Site \union {"not found"}) \ SignedInOnly /\ StrangerEnd(end) = end
      BY <3>2, StrangerStays
    <3>4. /\ Hop(page, Nobody, TRUE) = end /\ Hop(page, Nobody, FALSE) = end
          /\ Hop(end, Nobody, TRUE) = end /\ Hop(end, Nobody, FALSE) = end
      BY <3>2, <3>3, StrangerEnds
    <3>5. End(page, Nobody, TRUE) = end /\ End(page, Nobody, FALSE) = end
      BY <3>4 DEF End
    <3>6. CASE cookie = TRUE
      BY <2>2, <3>1, <3>3, <3>4, <3>5, <3>6, KindsOfPages
    <3>7. CASE cookie = FALSE
      BY <2>2, <3>1, <3>3, <3>4, <3>5, <3>7, KindsOfPages
    <3> QED BY <3>1, <3>6, <3>7
  <2> QED BY <2>1, <2>2
<1>2. \A host \in {"canonical", "twin", "preview"} :
        CanonicalRedirect(CanonicalRedirect(host)) = CanonicalRedirect(host)
  BY DEF CanonicalRedirect
<1> QED BY <1>1, <1>2 DEF PagesEnd


(* What the menus hold.                                                     *)
LEMMA KnownMenus ==
  ASSUME NEW v, Known(v), NEW page \in Menus(v)
  PROVE  \/ page \in Workspace /\ Author(v)
         \/ page \in AdminArea /\ v.role = "ADMIN"
         \/ page \in {"/", "/free", "/paid", "/account", "/feed"}
         \/ page = "own page" /\ Author(v)
         \/ page = "/apply" /\ ~Author(v)
<1>1. \/ page \in SiteHeader(v) \/ page \in AdminNav(v) \/ page \in BottomNav(v, TRUE)
      \/ page \in BottomNav(v, FALSE) \/ page \in AccountMenu(v)
  BY DEF Menus, AuthLayout, AuthButtons
<1>2. "/analyst" \in Workspace /\ "/analyst/earnings" \in Workspace /\ "/admin" \in AdminArea
  BY DEF Workspace, AdminArea
<1>3. CASE page \in SiteHeader(v)
  BY <1>2, <1>3 DEF SiteHeader
<1>4. CASE page \in AdminNav(v)
  BY <1>4 DEF AdminNav
<1>5. CASE page \in BottomNav(v, TRUE) \/ page \in BottomNav(v, FALSE)
  BY <1>2, <1>5 DEF BottomNav
<1>6. CASE page \in AccountMenu(v)
  BY <1>2, <1>6 DEF AccountMenu
<1> QED BY <1>1, <1>3, <1>4, <1>5, <1>6

LEMMA StrangerMenus ==
  ASSUME NEW page \in Menus(Nobody)
  PROVE  page \in {"/", "/free", "/paid", "/login", "/register"}
<1>1. ~Known(Nobody) /\ ~Author(Nobody) /\ Nobody.role # "ADMIN"
  BY DEF Nobody, Known, Author
<1>2. page \in SiteHeader(Nobody) \union AuthButtons(Nobody) \union AdminNav(Nobody)
                \union BottomNav(Nobody, TRUE) \union BottomNav(Nobody, FALSE) \union MobileNav
  BY <1>1 DEF Menus, AuthLayout
<1> QED
  BY <1>1, <1>2 DEF SiteHeader, AuthButtons, AdminNav, BottomNav, MobileNav

LEMMA MenusHold == MenusLead
<1> SUFFICES ASSUME NEW v \in Everybody, NEW page \in Menus(v), NEW cookie \in Cookies(v)
             PROVE  Hop(page, v, cookie) = page /\ Shows(page, v) # "no profile"
  BY DEF MenusLead
<1>1. CASE Known(v)
  <2>1. cookie = TRUE
    BY <1>1 DEF Cookies
  <2>2. page \in {"/", "/free", "/paid"} => page \in Plain
    BY DEF Plain
  <2>3. Hop(page, v, TRUE) = page
    <3>1. CASE page \in AdminArea /\ v.role = "ADMIN"
      BY <1>1, <3>1, KnownEnds
    <3>2. CASE page = "own page" /\ Author(v)
      BY <1>1, <3>2, KnownEnds
    <3>3. CASE page = "/apply" /\ ~Author(v)
      BY <1>1, <3>3, KnownEnds
    <3>4. CASE page \in Workspace \union {"/account", "/feed"} \union Plain
      BY <1>1, <3>4, KnownEnds
    <3> QED BY <1>1, <2>2, <3>1, <3>2, <3>3, <3>4, KnownMenus
  <2>4. page \notin Workspace \/ Author(v)
    BY <1>1, KnownMenus, KindsOfPages DEF Plain
  <2>5. page # "no profile"
    BY <1>1, KnownMenus DEF Workspace, AdminArea
  <2> QED BY <2>1, <2>3, <2>4, <2>5 DEF Shows
<1>2. CASE ~Known(v)
  <2>1. v = Nobody /\ cookie \in BOOLEAN
    BY <1>2 DEF Known, Cookies
  <2>2. page \in {"/", "/free", "/paid", "/login", "/register"}
    BY <2>1, StrangerMenus
  <2>3. page \in Site /\ page \in Plain \union SignInPages /\ page # "/auth/google"
    BY <2>2 DEF Plain, Site, Public, SignInPages
  <2>4. StrangerEnd(page) = page
    BY <2>3, KindsOfPages DEF StrangerEnd
  <2>5. Hop(page, Nobody, TRUE) = page /\ Hop(page, Nobody, FALSE) = page
    BY <2>3, <2>4, StrangerEnds
  <2>6. Shows(page, v) # "no profile"
    BY <2>2 DEF Shows, Workspace
  <2> QED BY <2>1, <2>5, <2>6
<1> QED BY <1>1, <1>2

LEMMA LettersHold == LettersLead
<1>1. ASSUME NEW page \in VerificationEmail \union PasswordResetEmail \union SignupConfirmEmail
                            \union AccountExistsEmail, NEW cookie \in BOOLEAN
      PROVE  Hop(page, Nobody, cookie) = page
  <2>1. page \in Site /\ page \in Plain \union SignInPages /\ page # "/auth/google"
    BY DEF VerificationEmail, PasswordResetEmail, SignupConfirmEmail, AccountExistsEmail,
           Plain, LinkPages, Site, SignInPages
  <2>2. StrangerEnd(page) = page
    BY <2>1, KindsOfPages DEF StrangerEnd
  <2> QED BY <2>1, <2>2, StrangerEnds
<1>2. ASSUME NEW v \in Everybody, NEW cookie \in Cookies(v),
             NEW page \in ConfirmSignupPage \union VerifyEmailPage \union ResetPasswordPage
                            \union ForgotPasswordPage \union TelegramCallback
      PROVE  End(page, v, cookie) \in IF Known(v) THEN {"/account"} ELSE SignInPages
  <2>1. page \in {"/login", "/register", "/account"}
    BY DEF ConfirmSignupPage, VerifyEmailPage, ResetPasswordPage, ForgotPasswordPage,
           TelegramCallback
  <2>2. page \in SignInPages \union {"/account"} /\ page \in Site /\ page # "/auth/google"
    BY <2>1 DEF SignInPages, Site
  <2>3. CASE Known(v)
    <3>1. cookie = TRUE
      BY <2>3 DEF Cookies
    <3>2. Hop(page, v, TRUE) = "/account" /\ Hop("/account", v, TRUE) = "/account"
      BY <2>2, <2>3, KnownEnds
    <3> QED BY <2>3, <3>1, <3>2 DEF End
  <2>4. CASE ~Known(v)
    <3>1. v = Nobody /\ cookie \in BOOLEAN
      BY <2>4 DEF Known, Cookies
    <3>2. PICK end : end = StrangerEnd(page)
      OBVIOUS
    <3>3. end \in SignInPages /\ end \in Site \union {"not found"} /\ StrangerEnd(end) = end
      <4>1. end \in {"/login", "/register"}
        BY <2>1, <3>2, KindsOfPages DEF StrangerEnd
      <4> QED BY <2>2, <3>2, <4>1, StrangerStays DEF SignInPages
    <3>4. /\ Hop(page, Nobody, TRUE) = end /\ Hop(page, Nobody, FALSE) = end
          /\ Hop(end, Nobody, TRUE) = end /\ Hop(end, Nobody, FALSE) = end
      BY <2>2, <3>2, <3>3, StrangerEnds
    <3>5. End(page, Nobody, TRUE) = end /\ End(page, Nobody, FALSE) = end
      BY <3>4 DEF End
    <3> QED BY <2>4, <3>1, <3>3, <3>5
  <2> QED BY <2>3, <2>4
<1> QED BY <1>1, <1>2 DEF LettersLead


(* The forms of who is signed in.                                           *)
LEMMA FormsHold ==
  ASSUME IInv, UniqueHolders, NEW a \in Rows, SignedIn(a)
  PROVE  FormsMatch(a)
<1>0. PICK v : v = Actor(a)
  OBVIOUS
<1>1. /\ accounts[a] \in Account
      /\ v.profile = accounts[a].profile /\ v.role = accounts[a].role
      /\ v.role \in {"USER", "ANALYST"} /\ v.profile \in Profiles
      /\ accounts[a].profile = "APPROVED" => accounts[a].role = "ANALYST"
  BY <1>0 DEF IInv, AccountsSound, Actor, Account
<1>2. Known(v)
  BY <1>1 DEF Known, Nobody
<1>3. RequireApprovedAnalyst(v) <=> accounts[a].profile = "APPROVED"
  BY <1>1 DEF RequireApprovedAnalyst, Author
<1>4. Author(v) <=> accounts[a].profile = "APPROVED"
  BY <1>1 DEF Author
<1>5. ASSUME NEW page \in Workspace PROVE (Shows(page, v) = page) <=> accounts[a].profile = "APPROVED"
  <2>1. page # "no profile"
    BY DEF Workspace
  <2>2. Shows(page, v) = IF Author(v) THEN page ELSE "no profile"
    BY DEF Shows, Workspace
  <2>3. CASE Author(v)
    BY <1>4, <2>2, <2>3
  <2>4. CASE ~Author(v)
    BY <1>4, <2>1, <2>2, <2>4
  <2> QED BY <2>3, <2>4
<1>6. Hop("/apply", v, TRUE) = IF Author(v) THEN "/analyst" ELSE "/apply"
  BY <1>2, KnownEnds
<1>7. Shows("/apply", v) = IF accounts[a].profile = "NONE" THEN "form" ELSE "status"
  BY <1>1 DEF Shows, AnalystApplyForm, Workspace
<1>8. (Hop("/apply", v, TRUE) = "/apply" /\ Shows("/apply", v) = "form") <=> MayApply(a)
  BY <1>4, <1>6, <1>7 DEF MayApply
<1>9. ReviewNotice(a) => Hop("/apply", v, TRUE) = "/apply"
  BY <1>4, <1>6 DEF ReviewNotice
<1>10. accounts[a].verified \in BOOLEAN /\ (VerifyCodeForm(a) <=> MayResend(a))
  BY <1>1 DEF VerifyCodeForm, MayResend, Account
<1>11. ASSUME HasMail(a), NEW l \in LinksOf(a, "CODE") PROVE MayVerify(l) <=> VerifyCodeForm(a)
  <2>1. l.user = a /\ l.purpose = "CODE" /\ accounts[a].email # Placeholder
    BY <1>11, AccountsAssumption DEF LinksOf, HasMail
  <2> QED BY <1>10, <2>1 DEF MayVerify
<1>12. ASSUME "google" \in SignInMethods(a) PROVE "google" \in SocialSignIn(a)
  <2>1. accounts[a].google # None
    BY <1>12 DEF SignInMethods
  <2>2. accounts[a].google \in Mailboxes
    BY <1>1, <2>1 DEF Account
  <2>3. Unique(accounts, "google", accounts[a].google)
    BY <2>2 DEF UniqueHolders
  <2>4. Holders("google", accounts[a]["google"]) = {a}
    BY <2>3 DEF Unique, Holders
  <2> QED BY <2>1, <2>4 DEF SocialSignIn
<1>13. IdentityRow(a) => accounts[a].profile # "APPROVED"
  BY DEF IdentityRow, CanChangeOwnName
<1>14. /\ AddTicketButton(v) <=> accounts[a].profile = "APPROVED"
       /\ AnalystIdentity(a) <=> accounts[a].profile = "APPROVED"
  BY <1>4 DEF AddTicketButton, AnalystIdentity
<1>15. PICK author : author = RequireApprovedAnalyst(v) /\ author \in BOOLEAN
  BY DEF RequireApprovedAnalyst
<1>16. \A page \in Workspace : (Shows(page, v) = page) = author
  BY <1>3, <1>5, <1>15
<1>17. AddTicketButton(v) = author /\ AnalystIdentity(a) = author
  BY <1>3, <1>14, <1>15 DEF AddTicketButton, AnalystIdentity, Author
<1>18. (Hop("/apply", v, TRUE) = "/apply" /\ Shows("/apply", v) = "form") = MayApply(a)
  BY <1>8 DEF MayApply, SignedIn
<1>19. VerifyCodeForm(a) = MayResend(a)
  BY <1>10 DEF VerifyCodeForm, MayResend, SignedIn
<1>20. HasMail(a) => \A l \in LinksOf(a, "CODE") : MayVerify(l) = VerifyCodeForm(a)
  BY <1>11 DEF MayVerify, VerifyCodeForm
<1>21. IdentityRow(a) => ~author
  BY <1>3, <1>13, <1>15
<1> QED
  BY <1>0, <1>9, <1>12, <1>15, <1>16, <1>17, <1>18, <1>19, <1>20, <1>21 DEF FormsMatch

LEMMA DesksHold ==
  ASSUME IInv
  PROVE  DesksMatch
<1>1. AdminAnalystsPage.pending = ApplicationsQueue
  BY DEF AdminAnalystsPage, ApplicationsQueue
<1>2. ASSUME NEW a \in Rows
      PROVE  Cardinality({list \in {"pending", "rest"} : a \in AdminAnalystsPage[list]})
               = IF accounts[a].profile = "NONE" THEN 0 ELSE 1
  <2>1. accounts[a].profile \in Profiles
    BY DEF IInv, AccountsSound, Account
  <2>2. /\ a \in AdminAnalystsPage["pending"] <=> accounts[a].profile = "PENDING"
        /\ a \in AdminAnalystsPage["rest"]
             <=> accounts[a].profile \in {"APPROVED", "REJECTED", "SUSPENDED"}
    BY DEF AdminAnalystsPage
  <2>3. CASE accounts[a].profile = "NONE"
    <3>1. {list \in {"pending", "rest"} : a \in AdminAnalystsPage[list]} = {}
      BY <2>2, <2>3
    <3> QED BY <2>3, <3>1, FS_EmptySet
  <2>4. CASE accounts[a].profile = "PENDING"
    <3>1. {list \in {"pending", "rest"} : a \in AdminAnalystsPage[list]} = {"pending"}
      BY <2>2, <2>4
    <3>2. Cardinality({"pending"}) = 1
      BY FS_Singleton
    <3> QED BY <2>4, <3>1, <3>2
  <2>5. CASE accounts[a].profile \in {"APPROVED", "REJECTED", "SUSPENDED"}
    <3>1. {list \in {"pending", "rest"} : a \in AdminAnalystsPage[list]} = {"rest"}
      BY <2>2, <2>5
    <3>2. Cardinality({"rest"}) = 1
      BY FS_Singleton
    <3> QED BY <2>5, <3>1, <3>2
  <2> QED BY <2>1, <2>3, <2>4, <2>5 DEF Profiles
<1>3. ASSUME NEW a \in Rows PROVE accounts[a].profile \notin Decisions(a)
  BY DEF Decisions
<1>4. ASSUME NEW a \in Rows, SignedIn(a)
      PROVE  a \in AdminUsersPage /\ StatusButton(a) = "SUSPENDED"
  BY <1>4 DEF SignedIn, AdminUsersPage, StatusButton
<1> QED BY <1>1, <1>2, <1>3, <1>4 DEF DesksMatch

(* Nobody is locked out.                                                    *)
LEMMA DoorsHold ==
  ASSUME IInv, UniqueHolders, Doors
  PROVE  DoorsOpen
<1>1. ASSUME NEW a \in Rows, HasMail(a) PROVE "reset" \in LoginPage(a)
  BY <1>1 DEF LoginPage, ForgotPasswordForm
<1>2. ASSUME NEW a \in Rows, accounts[a].status = "ACTIVE", accounts[a].email # Closed
      PROVE  LoginPage(a) # {}
  <2>1. accounts[a] \in Account /\ HasDoor(accounts[a])
    BY DEF IInv, AccountsSound, Doors
  <2>2. CASE HasMail(a)
    BY <1>1, <2>2
  <2>3. CASE ~HasMail(a)
    <3>1. accounts[a].telegram \in Chats /\ accounts[a].telegram # None
      BY <1>2, <2>1, <2>3 DEF HasDoor, HasMail, Account
    <3>2. Unique(accounts, "telegram", accounts[a].telegram)
      BY <3>1 DEF UniqueHolders
    <3>3. Holders("telegram", accounts[a]["telegram"]) = {a}
      BY <3>2 DEF Unique, Holders
    <3>4. "telegram" \in SocialSignIn(a)
      BY <3>1, <3>3 DEF SocialSignIn
    <3> QED BY <3>4 DEF LoginPage
  <2> QED BY <2>2, <2>3
<1>3. ASSUME NEW m \in Mailboxes, NEW a \in Holders("email", m)
      PROVE  a \in Rows /\ "reset" \in LoginPage(a) /\ accounts[a].email = m
  BY <1>1, <1>3 DEF Holders, HasMail
<1>4. ASSUME NEW m \in Mailboxes, RegisterForm(m) = AccountExistsEmail
      PROVE  \E a \in Holders("email", m) : "reset" \in LoginPage(a)
  <2>1. SignupConfirmEmail # AccountExistsEmail
    BY DEF SignupConfirmEmail, AccountExistsEmail
  <2> QED BY <1>3, <1>4, <2>1 DEF RegisterForm
<1>5. ASSUME NEW m \in Mailboxes
      PROVE  /\ GoogleReturn(m) = "/auth/google" => Holders("email", m) = {}
             /\ GoogleReturn(m) = "unverified" =>
                  /\ Holders("email", m) # {}
                  /\ \A a \in Holders("email", m) : ~DecideGoogleLink(a) /\ accounts[a].google = None
  BY DEF GoogleReturn
<1>6. ASSUME NEW m \in Mailboxes, GoogleReturn(m) = "unverified"
      PROVE  \E a \in Holders("email", m) : "reset" \in LoginPage(a) /\ VerifyCodeForm(a)
  BY <1>3, <1>5, <1>6 DEF DecideGoogleLink, VerifyCodeForm
<1>7. ASSUME NEW m \in Mailboxes, GoogleReturn(m) = "/auth/google"
      PROVE  RegisterForm(m) = SignupConfirmEmail
  BY <1>5, <1>7 DEF RegisterForm
<1> QED BY <1>2, <1>4, <1>6, <1>7 DEF DoorsOpen

(* The doors of the site agree, whatever the accounts and whoever asks: no     *)
(* redirect goes round, every menu and letter leads to a page that is there,   *)
(* forms and actions accept the same people, and everybody with an active      *)
(* account has a way in.                                                    *)
THEOREM WaysLeadAlways == Spec => []WaysLead
<1>1. Init => UniqueHolders /\ Doors
  BY AccountsAssumption DEF Init, UniqueHolders, Doors, HasDoor
<1>2. IInv /\ UniqueHolders /\ Doors => WaysLead
  BY RedirectsEnd, MenusHold, LettersHold, FormsHold, DesksHold, DoorsHold DEF WaysLead
<1> QED
  BY <1>1, <1>2, InitIInv, NextIInv, UniqueStep, DoorsStep, PTL DEF Spec
=============================================================================
