------------------------------- MODULE Outbox -------------------------------
(***************************************************************************)
(* The notification outbox and the broadcasts of analysts.  Something       *)
(* worth telling writes one row per reader and channel; the request that    *)
(* wrote them drains its own rows, and a daily sweep drains the rest.       *)
(*                                                                         *)
(* A drain reads its rows once, then hands them to the provider one by one  *)
(* and writes each answer by the row's id, guarded by nothing.  Nothing     *)
(* keeps two drains of a channel apart.                                     *)
(***************************************************************************)
EXTENDS Integers, FiniteSets

CONSTANTS
  None,
  Events,              \* what readers are told
  Kind,                \* broadcast, bet, settlement, alert or approval
  About,               \* the bet or broadcast an event is about
  Readers,
  Channels,            \* EMAIL and TELEGRAM, which share nothing below
  Audience,            \* whom an event concerns
  EmailWanted,         \* the kinds a reader takes by mail
  Telegram,            \* "off", "nochat" (switched on, never linked) or "chat"
  Sweeps,              \* runs of the cron, which may overlap
  BROADCASTS_PER_DAY,
  MAX_ATTEMPTS,
  MaxAge,              \* MAX_QUEUE_AGE_MS in days
  Limit,               \* rows a drain takes
  MaxCrashes,          \* bound: requests that die, and answers that get lost
  MaxDay               \* bound

Kinds == {"broadcast", "bet", "settlement", "alert", "approval"}
Broadcasts == {e \in Events : Kind[e] = "broadcast"}
Rows == Events \X Readers \X Channels
Event(row) == row[1]
Channel(row) == row[3]

(* A request or a sweep drains the two channels side by side.              *)
Drains == (Events \union Sweeps) \X Channels

ASSUME OutboxAssumption ==
  /\ Kind \in [Events -> Kinds]
  /\ Channels \subseteq {"EMAIL", "TELEGRAM"}
  /\ DOMAIN About = Events
  /\ Audience \in [Events -> SUBSET Readers]
  /\ EmailWanted \in [Readers -> SUBSET Kinds]
  /\ Telegram \in [Readers -> {"off", "nochat", "chat"}]
  /\ IsFiniteSet(Events) /\ IsFiniteSet(Sweeps) /\ Events \intersect Sweeps = {}
  /\ None \notin Rows \union Nat
  /\ BROADCASTS_PER_DAY \in Nat /\ MAX_ATTEMPTS \in Nat \ {0}
  /\ MaxAge \in Nat /\ Limit \in Nat \ {0}
  /\ MaxCrashes \in Nat /\ MaxDay \in Nat

VARIABLES
  day,
  rows,        \* Notification
  recordedOn,  \* AnalystBroadcast.createdAt
  request,     \* how far the request of an event has come
  todo,        \* channels the request of an event has still to drain
  batch,       \* rows a drain has read and not yet sent, with their attempts
  hand,        \* the row in a drain's hands and the provider's answer
  crashes,
  (* History.                                                              *)
  delivered,   \* messages the provider took, by row
  doubled,     \* times a drain selected the row while another one held it
  lost,        \* messages taken of which the row never heard
  crowded      \* broadcasts allowed while another was allowed and unwritten

vars == <<day, rows, recordedOn, request, todo, batch, hand, crashes,
          delivered, doubled, lost, crowded>>

NoRow == [status |-> "NONE", attempts |-> 0, born |-> 0]
Status(row) == rows[row].status

(* Drains of the channel that hold the row, read and not yet recorded.     *)
Holders(row) ==
  {d \in Drains : (\E b \in batch[d] : b.row = row) \/ hand[d].row = row}

NoHand == [row |-> None, attempts |-> 0, answer |-> "none"]

Idle(d) == batch[d] = {} /\ hand[d] = NoHand

OutboxTypeOK ==
  /\ day \in 0..MaxDay
  /\ rows \in [Rows -> [status : {"NONE", "PENDING", "SENT", "FAILED", "SKIPPED"},
                        attempts : 0..MAX_ATTEMPTS, born : 0..MaxDay]]
  /\ recordedOn \in [Broadcasts -> {None} \union 0..MaxDay]
  /\ request \in [Events -> {"no", "allowed", "written", "done", "refused"}]
  /\ todo \in [Events -> SUBSET Channels]
  /\ \A d \in Drains :
       /\ \A b \in batch[d] : b.row \in Rows /\ b.attempts \in 0..MAX_ATTEMPTS - 1
       /\ hand[d].row \in Rows \union {None}
       /\ hand[d].answer \in {"none", "ok", "retry", "permanent"}
  /\ crashes \in 0..MaxCrashes
  /\ delivered \in [Rows -> Nat] /\ doubled \in [Rows -> Nat] /\ lost \in [Rows -> Nat]
  /\ crowded \subseteq Broadcasts

Init ==
  /\ day = 0
  /\ rows = [r \in Rows |-> NoRow]
  /\ recordedOn = [b \in Broadcasts |-> None]
  /\ request = [e \in Events |-> "no"]
  /\ todo = [e \in Events |-> {}]
  /\ batch = [d \in Drains |-> {}]
  /\ hand = [d \in Drains |-> NoHand]
  /\ crashes = 0
  /\ delivered = [r \in Rows |-> 0]
  /\ doubled = [r \in Rows |-> 0] /\ lost = [r \in Rows |-> 0]
  /\ crowded = {}

drainVars == <<batch, hand, delivered, doubled, lost>>
-----------------------------------------------------------------------------
(* sendBroadcast, up to the fan-out.                                       *)

UsedToday == Cardinality({b \in Broadcasts : recordedOn[b] = day})

AllowedUnlessQueued ==   \* faulty: counts the broadcasts that reached their readers
  Cardinality({b \in Broadcasts : recordedOn[b] = day
                 /\ request[b] = "done"}) < BROADCASTS_PER_DAY

Allowed == UsedToday < BROADCASTS_PER_DAY

(* The day's broadcasts are counted, and nothing holds the place: another   *)
(* composer may count before this one has written its row.                 *)
CheckAllowance(b) ==
  /\ request[b] = "no"
  /\ request' = [request EXCEPT ![b] = IF Allowed THEN "allowed" ELSE "refused"]
  /\ crowded' = IF Allowed /\ \E c \in Broadcasts : request[c] = "allowed"
                  THEN crowded \union {b} ELSE crowded
  /\ UNCHANGED <<day, rows, recordedOn, todo, crashes, drainVars>>

(* The broadcast counts from here on, whatever becomes of its copies.      *)
RecordBroadcast(b) ==
  /\ request[b] = "allowed"
  /\ recordedOn' = [recordedOn EXCEPT ![b] = day]
  /\ request' = [request EXCEPT ![b] = "written"]
  /\ UNCHANGED <<day, rows, todo, crashes, crowded, drainVars>>

-----------------------------------------------------------------------------
(* One row per person and channel, all in one write.                        *)

(* What a row starts as, "NONE" where nothing is written.  Only a reader's  *)
(* copy leaves a SKIPPED row when the chat was never linked.               *)
Copy(e, r, c) ==
  IF c = "EMAIL"
    THEN IF Kind[e] \in EmailWanted[r] THEN "PENDING" ELSE "NONE"
    ELSE CASE Telegram[r] = "chat" -> "PENDING"
           [] Telegram[r] = "nochat" /\ Kind[e] \notin {"alert", "approval"} -> "SKIPPED"
           [] OTHER -> "NONE"

(* A settlement is left to the sweep, and so is a bet nobody waits for.     *)
InlineChannels(e) ==
  CASE Kind[e] = "settlement" -> {}
    [] Kind[e] = "alert" -> Channels \ {"EMAIL"}
    [] Kind[e] = "bet" -> IF \E r \in Audience[e], c \in Channels : Copy(e, r, c) = "PENDING"
                            THEN Channels ELSE {}
    [] OTHER -> Channels

(* A broadcast's request goes on; a bet, a result, an alert or an approval  *)
(* is told after the transaction that made it has committed.               *)
Enqueue(e) ==
  /\ request[e] = IF e \in Broadcasts THEN "written" ELSE "no"
  /\ rows' = [row \in Rows |->
                IF Event(row) = e /\ row[2] \in Audience[e]
                  THEN [status |-> Copy(e, row[2], Channel(row)),
                        attempts |-> 0, born |-> day]
                  ELSE rows[row]]
  /\ request' = [request EXCEPT ![e] = "done"]
  /\ todo' = [todo EXCEPT ![e] = InlineChannels(e)]
  /\ UNCHANGED <<day, recordedOn, crashes, crowded, drainVars>>
-----------------------------------------------------------------------------
(* drainOutbox.                                                            *)

(* Rows a drain may take: a broadcast's by its id, a bet's by the bet, an   *)
(* alert's by the rows just written, a sweep's without restriction.        *)
InScope(row, origin) ==
  \/ origin \in Sweeps
  \/ origin \in Events /\ Event(row) = origin
  \/ /\ origin \in Events /\ Kind[origin] = "bet"
     /\ About[Event(row)] = About[origin]

TooOld(row) == rows[row].born < day - MaxAge

(* Every pending row of the channel that is too old is failed, in scope or  *)
(* not.                                                                     *)
Expired(c) == {row \in Rows : Channel(row) = c /\ Status(row) = "PENDING" /\ TooOld(row)}

DueAnyStatus(origin, c) ==   \* faulty: a row that was sent is selected again
  {row \in Rows : /\ Channel(row) = c
                  /\ Status(row) \in {"PENDING", "SENT"}
                  /\ rows[row].attempts < MAX_ATTEMPTS
                  /\ ~TooOld(row) /\ InScope(row, origin)}

DueAnyAttempts(origin, c) ==   \* faulty: one try more than MAX_ATTEMPTS, and more
  {row \in Rows : /\ Channel(row) = c
                  /\ Status(row) \in {"PENDING", "FAILED"}
                  /\ ~TooOld(row) /\ InScope(row, origin)}

Due(origin, c) ==
  {row \in Rows : /\ Channel(row) = c
                  /\ Status(row) = "PENDING"
                  /\ rows[row].attempts < MAX_ATTEMPTS
                  /\ ~TooOld(row) /\ InScope(row, origin)}

(* The oldest Limit of them.                                               *)
Selections(due) ==
  {taken \in SUBSET due :
     /\ Cardinality(taken) = IF Cardinality(due) < Limit THEN Cardinality(due) ELSE Limit
     /\ \A r \in taken, s \in due \ taken : rows[r].born <= rows[s].born}

Once(count, some) == [r \in Rows |-> IF r \in some THEN count[r] + 1 ELSE count[r]]

(* The request that wrote the rows sends them before it answers; a sweep    *)
(* comes as long as somebody's rows wait.                                  *)
Drain(origin, c) ==
  /\ \/ origin \in Events /\ c \in todo[origin]
     \/ /\ origin \in Sweeps /\ Idle(<<origin, c>>)
        /\ \E row \in Rows : Channel(row) = c /\ Status(row) = "PENDING"
  /\ todo' = [e \in Events |-> IF e = origin THEN todo[e] \ {c} ELSE todo[e]]
  /\ rows' = [row \in Rows |-> IF row \in Expired(c)
                                 THEN [rows[row] EXCEPT !.status = "FAILED"]
                                 ELSE rows[row]]
  /\ \E taken \in Selections(Due(origin, c)) :
       /\ batch' = [batch EXCEPT ![<<origin, c>>] =
                      {[row |-> r, attempts |-> rows[r].attempts] : r \in taken}]
       /\ doubled' = Once(doubled, {r \in taken : Holders(r) # {}})
  /\ UNCHANGED <<day, recordedOn, request, hand, crashes, delivered, lost, crowded>>

Taken(row) == delivered' = Once(delivered, {row})

AnswerLost(row) ==
  /\ crashes < MaxCrashes /\ crashes' = crashes + 1
  /\ lost' = Once(lost, {row})

(* The next row is handed to the provider, which takes it, fails, or        *)
(* refuses it for good.  Of a call that failed nobody knows whether the     *)
(* message was taken first; it is tried again in either case.              *)
HandOver(d) ==
  /\ hand[d] = NoHand
  /\ \E b \in batch[d], answer \in {"ok", "retry", "permanent"} :
       /\ \A other \in batch[d] : rows[b.row].born <= rows[other.row].born
       /\ batch' = [batch EXCEPT ![d] = @ \ {b}]
       /\ hand' = [hand EXCEPT ![d] = [row |-> b.row, attempts |-> b.attempts,
                                       answer |-> answer]]
       /\ \/ answer = "ok" /\ Taken(b.row) /\ UNCHANGED <<lost, crashes>>
          \/ answer = "retry" /\ Taken(b.row) /\ AnswerLost(b.row)
          \/ answer # "ok" /\ UNCHANGED <<delivered, lost, crashes>>
  /\ UNCHANGED <<day, rows, recordedOn, request, todo, doubled, crowded>>

RecordedUncounted(h) ==   \* faulty: only what was settled counts as an attempt
  [rows[h.row] EXCEPT
     !.status = CASE h.answer = "ok" -> "SENT"
                  [] h.answer = "permanent" -> "FAILED"
                  [] OTHER -> "PENDING",
     !.attempts = IF h.answer = "retry" THEN h.attempts ELSE h.attempts + 1]

(* What is written of the answer: the attempts as read when the rows were   *)
(* selected, and one more.                                                 *)
Recorded(h) ==
  [rows[h.row] EXCEPT
     !.status = CASE h.answer = "ok" -> "SENT"
                  [] \/ h.answer = "permanent"
                     \/ h.answer = "retry" /\ h.attempts + 1 >= MAX_ATTEMPTS -> "FAILED"
                  [] OTHER -> "PENDING",
     !.attempts = h.attempts + 1]

Record(d) ==
  /\ hand[d] # NoHand
  /\ rows' = [rows EXCEPT ![hand[d].row] = Recorded(hand[d])]
  /\ hand' = [hand EXCEPT ![d] = NoHand]
  /\ UNCHANGED <<day, recordedOn, request, todo, batch, crashes, delivered, doubled, lost,
                 crowded>>
-----------------------------------------------------------------------------
(* The process dies: what it had read stays PENDING, and so does a row the  *)
(* provider took before the answer was written.                            *)
Crash(origin) ==
  /\ crashes < MaxCrashes
  /\ \/ \E c \in Channels : ~Idle(<<origin, c>>)
     \/ /\ origin \in Events
        /\ todo[origin] # {} \/ request[origin] \in {"allowed", "written"}
  /\ crashes' = crashes + 1
  /\ todo' = [e \in Events |-> IF e = origin THEN {} ELSE todo[e]]
  /\ batch' = [d \in Drains |-> IF d[1] = origin THEN {} ELSE batch[d]]
  /\ hand' = [d \in Drains |-> IF d[1] = origin THEN NoHand ELSE hand[d]]
  /\ lost' = Once(lost, {hand[d].row : d \in {x \in Drains : x[1] = origin
                                                  /\ hand[x].answer = "ok"}})
  /\ request' = IF origin \in Events THEN [request EXCEPT ![origin] = "done"] ELSE request
  /\ UNCHANGED <<day, rows, recordedOn, delivered, doubled, crowded>>

Tick ==
  /\ day < MaxDay
  /\ day' = day + 1
  /\ UNCHANGED <<rows, recordedOn, request, crashes, crowded, drainVars, todo>>

Next ==
  \/ \E b \in Broadcasts : CheckAllowance(b) \/ RecordBroadcast(b)
  \/ \E e \in Events : Enqueue(e)
  \/ \E o \in Events \union Sweeps : Crash(o) \/ \E c \in Channels : Drain(o, c)
  \/ \E d \in Drains : HandOver(d) \/ Record(d)
  \/ Tick

Spec == Init /\ [][Next]_vars

(* A running request goes on, and the cron sweeps as long as rows wait.  No *)
(* day need ever pass, and no provider need ever answer.                   *)
FairSpec ==
  /\ Spec
  /\ \A o \in Events \union Sweeps, c \in Channels : WF_vars(Drain(o, c))
  /\ \A d \in Drains : WF_vars(HandOver(d)) /\ WF_vars(Record(d))
-----------------------------------------------------------------------------
(* A message reaches its reader once, and once more at most for each time a *)
(* second drain selected its row while one still held it, and for each time *)
(* the provider took it and nobody wrote that down: the call failed          *)
(* afterwards, or the process died.  Neither a retry, nor expiry, nor a full *)
(* batch, nor what one of two drains writes over the other's answer sends a  *)
(* row any further time (drain.ts:82-163).                                 *)
RepeatsAccounted ==
  \A row \in Rows : delivered[row] <= 1 + doubled[row] + lost[row]

(* "A row already SENT is never selected again, so a double-fired cron       *)
(* cannot send anything twice" (api/cron/notifications/route.ts:34-37).     *)
DoubleFiringIsHarmless ==
  \A row \in Rows : delivered[row] <= 1 + lost[row]

(* A reader hears from an analyst no more than BROADCASTS_PER_DAY times a   *)
(* UTC day, but for the broadcasts that were allowed while another one was  *)
(* allowed and not yet written (broadcast.ts).                             *)
AllowanceKept ==
  \A d \in 0..MaxDay :
    Cardinality({b \in Broadcasts \ crowded : recordedOn[b] = d}) <= BROADCASTS_PER_DAY

(* Every row leaves the queue for good, even if all providers only ever     *)
(* fail and no day passes: the attempts run out, also those of a row two    *)
(* drains keep overwriting, and no row is left behind by a full batch or by *)
(* a process that died.                                                    *)
QueueSettles ==
  \A row \in Rows : Status(row) = "PENDING" ~> [](Status(row) # "PENDING")
=============================================================================
