---------------------------- MODULE Outbox_proofs ----------------------------
(***************************************************************************)
(* Proofs about the outbox and the allowance of broadcasts, for any number  *)
(* of events, readers and overlapping sweeps, any Limit and MAX_ATTEMPTS,   *)
(* and any number of crashes.                                              *)
(***************************************************************************)
EXTENDS Outbox, FiniteSetTheorems, TLAPS

Statuses == {"NONE", "PENDING", "SENT", "FAILED", "SKIPPED"}
Notification == [status : Statuses, attempts : 0..MAX_ATTEMPTS, born : 0..MaxDay]
Held == [row : Rows, attempts : 0..MAX_ATTEMPTS - 1]
Handed == [row : Rows, attempts : 0..MAX_ATTEMPTS - 1, answer : {"ok", "retry", "permanent"}]

(* Types: a drain holds rows that had a try left when they were read, so the *)
(* attempts it writes back are never more than MAX_ATTEMPTS.               *)
Sound ==
  /\ day \in 0..MaxDay
  /\ rows \in [Rows -> Notification]
  /\ recordedOn \in [Broadcasts -> {None} \union 0..MaxDay]
  /\ request \in [Events -> {"no", "allowed", "written", "done", "refused"}]
  /\ todo \in [Events -> SUBSET Channels]
  /\ batch \in [Drains -> SUBSET Held]
  /\ hand \in [Drains -> Handed \union {NoHand}]
  /\ crashes \in 0..MaxCrashes
  /\ delivered \in [Rows -> Nat] /\ doubled \in [Rows -> Nat] /\ lost \in [Rows -> Nat]
  /\ crowded \subseteq Broadcasts

LEMMA Counting ==
  ASSUME NEW count \in [Rows -> Nat], NEW some
  PROVE  /\ Once(count, some) \in [Rows -> Nat]
         /\ \A row \in Rows : Once(count, some)[row] = IF row \in some THEN count[row] + 1
                                                                     ELSE count[row]
  BY DEF Once

LEMMA Bounds ==
  /\ MAX_ATTEMPTS \in Nat \ {0} /\ MaxDay \in Nat /\ MaxCrashes \in Nat
  /\ None \notin Rows /\ None \notin Nat
  BY OutboxAssumption

(* Whoever holds nothing carries no row and no answer.                     *)
LEMMA Hands ==
  ASSUME Sound, NEW d \in Drains
  PROVE  /\ hand[d] = NoHand \/ hand[d] \in Handed
         /\ hand[d].row \in Rows => hand[d] \in Handed
         /\ hand[d].answer = "ok" => hand[d] \in Handed
  BY Bounds DEF Sound, NoHand, Handed

LEMMA SoundTypes == Sound => OutboxTypeOK
<1> SUFFICES ASSUME Sound PROVE OutboxTypeOK
  OBVIOUS
<1>1. \A d \in Drains :
       /\ \A b \in batch[d] : b.row \in Rows /\ b.attempts \in 0..MAX_ATTEMPTS - 1
       /\ hand[d].row \in Rows \union {None}
       /\ hand[d].answer \in {"none", "ok", "retry", "permanent"}
  BY DEF Sound, Held, Handed, NoHand
<1> QED
  BY <1>1 DEF Sound, OutboxTypeOK, Notification, Statuses

LEMMA InitSound == Init => Sound
<1> SUFFICES ASSUME Init PROVE Sound
  OBVIOUS
<1>1. NoRow \in Notification
  BY Bounds DEF NoRow, Notification, Statuses
<1>2. rows \in [Rows -> Notification]
  BY <1>1 DEF Init
<1> QED
  BY <1>2, Bounds DEF Init, Sound
-----------------------------------------------------------------------------
LEMMA CopyTypes ==
  ASSUME NEW e \in Events, NEW r \in Readers, NEW c \in Channels
  PROVE  Copy(e, r, c) \in Statuses
  BY DEF Copy, Statuses

LEMMA EnqueueSound == ASSUME Sound, NEW e \in Events, Enqueue(e) PROVE Sound'
<1>1. ASSUME NEW row \in Rows PROVE rows'[row] \in Notification
  <2>1. CASE Event(row) = e /\ row[2] \in Audience[e]
    <3>1. row[2] \in Readers /\ Channel(row) \in Channels
      BY DEF Rows, Channel
    <3>2. Copy(e, row[2], Channel(row)) \in Statuses
      BY <3>1, CopyTypes
    <3> QED
      BY <2>1, <3>2, Bounds DEF Enqueue, Notification, Sound
  <2>2. CASE ~(Event(row) = e /\ row[2] \in Audience[e])
    BY <2>2 DEF Enqueue, Sound
  <2> QED
    BY <2>1, <2>2
<1>2. rows' \in [Rows -> Notification]
  BY <1>1 DEF Enqueue
<1>3. InlineChannels(e) \in SUBSET Channels
  BY DEF InlineChannels
<1>4. todo' \in [Events -> SUBSET Channels] /\ request' \in [Events -> {"no", "allowed", "written", "done", "refused"}]
  BY <1>3 DEF Enqueue, Sound
<1> QED
  BY <1>2, <1>4 DEF Enqueue, Sound, drainVars

(* A drain that starts has read rows with fewer attempts than MAX_ATTEMPTS. *)
LEMMA DrainSound ==
  ASSUME Sound, NEW o \in Events \union Sweeps, NEW c \in Channels, Drain(o, c) PROVE Sound'
<1>1. PICK taken \in Selections(Due(o, c)) :
       /\ batch' = [batch EXCEPT ![<<o, c>>] =
                      {[row |-> r, attempts |-> rows[r].attempts] : r \in taken}]
       /\ doubled' = Once(doubled, {r \in taken : Holders(r) # {}})
  BY DEF Drain
<1>2. ASSUME NEW r \in taken PROVE [row |-> r, attempts |-> rows[r].attempts] \in Held
  <2>1. r \in Rows /\ rows[r].attempts < MAX_ATTEMPTS
    BY DEF Selections, Due
  <2>2. rows[r].attempts \in 0..MAX_ATTEMPTS
    BY <2>1 DEF Sound, Notification
  <2> QED
    BY <2>1, <2>2, Bounds DEF Held
<1>3. batch' \in [Drains -> SUBSET Held]
  BY <1>1, <1>2 DEF Sound
<1>5. doubled' \in [Rows -> Nat]
  BY <1>1, Counting DEF Sound
<1>6. ASSUME NEW row \in Rows PROVE rows'[row] \in Notification
  <2>1. rows[row] \in Notification /\ rows'[row] \in {rows[row], [rows[row] EXCEPT !.status = "FAILED"]}
    BY DEF Drain, Sound
  <2> QED
    BY <2>1 DEF Notification, Statuses
<1>7. rows' \in [Rows -> Notification]
  BY <1>6 DEF Drain
<1>8. todo' \in [Events -> SUBSET Channels]
  BY DEF Drain, Sound
<1> QED
  BY <1>3, <1>5, <1>7, <1>8 DEF Drain, Sound

(* What a hand-over does, whichever way the provider answers.               *)
LEMMA HandsOver ==
  ASSUME Sound, NEW d \in Drains, HandOver(d)
  PROVE  \E b \in batch[d], answer \in {"ok", "retry", "permanent"} :
           /\ b \in Held /\ hand[d] = NoHand
           /\ UNCHANGED <<day, rows, recordedOn, request, todo, doubled, crowded>>
           /\ batch' = [batch EXCEPT ![d] = @ \ {b}]
           /\ hand' = [hand EXCEPT ![d] = [row |-> b.row, attempts |-> b.attempts,
                                           answer |-> answer]]
           /\ [row |-> b.row, attempts |-> b.attempts, answer |-> answer] \in Handed
           /\ \/ answer = "ok" /\ Taken(b.row) /\ UNCHANGED <<lost, crashes>>
              \/ answer = "retry" /\ Taken(b.row) /\ AnswerLost(b.row)
              \/ answer # "ok" /\ UNCHANGED <<delivered, lost, crashes>>
<1>1. \A b \in batch[d] : b \in Held
  BY DEF Sound
<1>2. \A b \in Held, answer \in {"ok", "retry", "permanent"} :
        [row |-> b.row, attempts |-> b.attempts, answer |-> answer] \in Handed
  BY DEF Held, Handed
<1> QED
  BY <1>1, <1>2 DEF HandOver

LEMMA HandOverSound == ASSUME Sound, NEW d \in Drains, HandOver(d) PROVE Sound'
<1>1. PICK b \in batch[d], answer \in {"ok", "retry", "permanent"} :
       /\ UNCHANGED <<day, rows, recordedOn, request, todo, doubled, crowded>>
       /\ batch' = [batch EXCEPT ![d] = @ \ {b}]
       /\ hand' = [hand EXCEPT ![d] = [row |-> b.row, attempts |-> b.attempts,
                                       answer |-> answer]]
       /\ [row |-> b.row, attempts |-> b.attempts, answer |-> answer] \in Handed
       /\ \/ answer = "ok" /\ Taken(b.row) /\ UNCHANGED <<lost, crashes>>
          \/ answer = "retry" /\ Taken(b.row) /\ AnswerLost(b.row)
          \/ answer # "ok" /\ UNCHANGED <<delivered, lost, crashes>>
  BY HandsOver
<1>2. hand' \in [Drains -> Handed \union {NoHand}] /\ batch' \in [Drains -> SUBSET Held]
  BY <1>1 DEF Sound
<1>3. delivered' \in [Rows -> Nat] /\ lost' \in [Rows -> Nat]
  BY <1>1, Counting DEF Sound, Taken, AnswerLost
<1>4. crashes' \in 0..MaxCrashes
  BY <1>1, Bounds DEF Sound, AnswerLost
<1> QED
  BY <1>1, <1>2, <1>3, <1>4 DEF Sound

LEMMA RecordSound == ASSUME Sound, NEW d \in Drains, Record(d) PROVE Sound'
<1> PICK h : h = hand[d]
  OBVIOUS
<1>1. h \in Handed
  BY DEF Record, Sound
<1>2. h.row \in Rows /\ h.attempts + 1 \in 0..MAX_ATTEMPTS
  BY <1>1, Bounds DEF Handed
<1>3. rows[h.row] \in Notification
  BY <1>2 DEF Sound
<1>4. Recorded(h) \in Notification
  BY <1>2, <1>3 DEF Recorded, Notification, Statuses
<1>5. rows' \in [Rows -> Notification] /\ hand' \in [Drains -> Handed \union {NoHand}]
  BY <1>2, <1>4 DEF Record, Sound
<1> QED
  BY <1>5 DEF Record, Sound

LEMMA CrashSound ==
  ASSUME Sound, NEW o \in Events \union Sweeps, Crash(o) PROVE Sound'
<1>2. lost' \in [Rows -> Nat]
  BY Counting DEF Crash, Sound
<1>3. /\ crashes' \in 0..MaxCrashes
      /\ todo' \in [Events -> SUBSET Channels]
      /\ request' \in [Events -> {"no", "allowed", "written", "done", "refused"}]
  BY Bounds DEF Crash, Sound
<1>4. batch' \in [Drains -> SUBSET Held] /\ hand' \in [Drains -> Handed \union {NoHand}]
  BY DEF Crash, Sound
<1> QED
  BY <1>2, <1>3, <1>4 DEF Crash, Sound

LEMMA ComposeSound ==
  ASSUME Sound, NEW b \in Broadcasts, CheckAllowance(b) \/ RecordBroadcast(b) PROVE Sound'
<1> b \in Events
  BY DEF Broadcasts
<1>1. CASE CheckAllowance(b)
  BY <1>1 DEF CheckAllowance, Sound, drainVars
<1>2. CASE RecordBroadcast(b)
  BY <1>2 DEF RecordBroadcast, Sound, drainVars
<1> QED
  BY <1>1, <1>2

LEMMA NextSound == Sound /\ [Next]_vars => Sound'
<1> SUFFICES ASSUME Sound, [Next]_vars PROVE Sound'
  OBVIOUS
<1>1. CASE Tick
  BY <1>1, Bounds DEF Tick, Sound, drainVars
<1>2. CASE UNCHANGED vars
  BY <1>2 DEF vars, Sound
<1> QED
  BY <1>1, <1>2, ComposeSound, EnqueueSound, DrainSound, HandOverSound, RecordSound, CrashSound
  DEF Next

(* No row ever counts more attempts than MAX_ATTEMPTS, though a drain writes    *)
(* back what it read and one more, guarded by nothing (drain.ts:132-158).    *)
THEOREM OutboxTyping == Spec => []OutboxTypeOK
  BY InitSound, NextSound, SoundTypes, PTL DEF Spec
-----------------------------------------------------------------------------
(* A request that has not written its rows yet has none, nobody holds any,   *)
(* and it drains nothing; a channel it has still to drain, it is not at.    *)
Fresh ==
  /\ \A row \in Rows :
       request[Event(row)] # "done" => Status(row) = "NONE" /\ Holders(row) = {}
  /\ \A e \in Events, c \in Channels :
       /\ c \in todo[e] => request[e] = "done"
       /\ c \in todo[e] \/ request[e] # "done" => Idle(<<e, c>>)

(* A drain has a row once: still to be sent, or in hand.                    *)
Single ==
  \A d \in Drains : /\ \A b, c \in batch[d] : b.row = c.row => b = c
                    /\ \A b \in batch[d] : hand[d].row # b.row

(* Drains that have the row and hold no word that the provider took it.      *)
Unsent(row) ==
  {d \in Drains : \/ \E b \in batch[d] : b.row = row
                  \/ hand[d].row = row /\ hand[d].answer # "ok"}

(* How often the row may still be sent if nothing else goes wrong.          *)
ToCome(row) ==
  IF Holders(row) # {} THEN Cardinality(Unsent(row))
  ELSE IF Status(row) \in {"NONE", "PENDING"} THEN 1 ELSE 0

Counted ==
  \A row \in Rows : delivered[row] + ToCome(row) <= 1 + doubled[row] + lost[row]

IInv == Sound /\ Fresh /\ Single /\ Counted

LEMMA Finite ==
  /\ IsFiniteSet(Drains)
  /\ \A row : Unsent(row) \in SUBSET Drains /\ Unsent(row) \subseteq Holders(row)
  /\ \A S \in SUBSET Drains : IsFiniteSet(S) /\ Cardinality(S) \in Nat
<1>1. IsFiniteSet(Events \union Sweeps)
  BY OutboxAssumption, FS_Union
<1>2. IsFiniteSet({"EMAIL", "TELEGRAM"}) /\ Channels \subseteq {"EMAIL", "TELEGRAM"}
  <2>1. IsFiniteSet({"EMAIL"} \union {"TELEGRAM"})
    BY FS_Singleton, FS_Union
  <2>2. {"EMAIL", "TELEGRAM"} = {"EMAIL"} \union {"TELEGRAM"}
    OBVIOUS
  <2> QED
    BY <2>1, <2>2, OutboxAssumption
<1>3. IsFiniteSet(Drains)
  BY <1>1, <1>2, FS_Subset, FS_Product DEF Drains
<1>4. \A S \in SUBSET Drains : IsFiniteSet(S) /\ Cardinality(S) \in Nat
  BY <1>3, FS_Subset, FS_CardinalityType
<1> QED
  BY <1>3, <1>4 DEF Unsent, Holders

(* As many times a row is counted as drains have it unsent.                 *)
LEMMA Unheld ==
  ASSUME NEW S \in SUBSET Drains, NEW T \in SUBSET Drains, NEW d \in Drains
  PROVE  /\ Cardinality(S) \in Nat /\ Cardinality(T) \in Nat
         /\ S \subseteq T => Cardinality(S) <= Cardinality(T)
         /\ S = T \ {d} /\ d \in T => Cardinality(S) = Cardinality(T) - 1
         /\ d \in T => Cardinality(T) >= 1
         /\ T = S \union {d} => Cardinality(T) <= Cardinality(S) + 1
<1>1. IsFiniteSet(S) /\ IsFiniteSet(T) /\ Cardinality(S) \in Nat /\ Cardinality(T) \in Nat
  BY Finite
<1>2. S \subseteq T => Cardinality(S) <= Cardinality(T)
  BY <1>1, FS_Subset
<1>3. S = T \ {d} /\ d \in T => Cardinality(S) = Cardinality(T) - 1
  BY <1>1, FS_RemoveElement
<1>4. d \in T => Cardinality(T) >= 1
  <2>1. d \in T => Cardinality(T) # 0
    BY <1>1, FS_EmptySet
  <2> QED
    BY <1>1, <2>1
<1>5. T = S \union {d} => Cardinality(T) <= Cardinality(S) + 1
  BY <1>1, FS_AddElement
<1> QED
  BY <1>1, <1>2, <1>3, <1>4, <1>5

LEMMA Ones == \A row : ToCome(row) \in Nat /\ (Holders(row) = {} => ToCome(row) <= 1)
<1>1. \A row : Cardinality(Unsent(row)) \in Nat
  BY Finite
<1> QED
  BY <1>1 DEF ToCome

LEMMA InitOnce == Init => Fresh /\ Single /\ Counted
<1> SUFFICES ASSUME Init PROVE Fresh /\ Single /\ Counted
  OBVIOUS
<1>1. \A row \in Rows : Holders(row) = {}
  BY Bounds DEF Init, Holders, NoHand
<1>2. Counted
  BY <1>1 DEF Init, Counted, ToCome
<1>3. Fresh
  BY <1>1 DEF Init, Fresh, Status, NoRow, Idle, Drains
<1> QED
  BY <1>2, <1>3 DEF Init, Single

(* What a step leaves alone when it touches neither rows nor drains.        *)
LEMMA QuietOnce ==
  ASSUME Fresh, Single, Counted, UNCHANGED <<rows, batch, hand, delivered, doubled, lost, todo>>,
         \A e \in Events : request'[e] = "done" <=> request[e] = "done"
  PROVE  Fresh' /\ Single' /\ Counted'
<1>1. \A row : /\ Holders(row)' = Holders(row) /\ Status(row)' = Status(row)
               /\ Unsent(row)' = Unsent(row)
  BY DEF Holders, Status, Unsent
<1>2. \A row : ToCome(row)' = ToCome(row)
  BY <1>1 DEF ToCome
<1>3. Counted'
  BY <1>2 DEF Counted
<1>4. \A row \in Rows : Event(row) \in Events
  BY DEF Rows, Event
<1>5. Fresh'
  BY <1>1, <1>4 DEF Fresh, Idle
<1> QED
  BY <1>3, <1>5 DEF Single

LEMMA ComposeOnce ==
  ASSUME IInv, NEW b \in Broadcasts, CheckAllowance(b) \/ RecordBroadcast(b)
  PROVE  Fresh' /\ Single' /\ Counted'
<1> b \in Events /\ request \in [Events -> {"no", "allowed", "written", "done", "refused"}]
  BY DEF Broadcasts, IInv, Sound
<1>1. UNCHANGED <<rows, batch, hand, delivered, doubled, lost, todo>>
      /\ \A e \in Events : request'[e] = "done" <=> request[e] = "done"
  BY DEF CheckAllowance, RecordBroadcast, drainVars
<1> QED
  BY <1>1, QuietOnce DEF IInv

(* The rows written are of an event that had none, and nobody had them.      *)
LEMMA EnqueueOnce ==
  ASSUME IInv, NEW e \in Events, Enqueue(e) PROVE Fresh' /\ Single' /\ Counted'
<1>0. /\ request \in [Events -> {"no", "allowed", "written", "done", "refused"}]
      /\ todo \in [Events -> SUBSET Channels]
      /\ delivered \in [Rows -> Nat] /\ doubled \in [Rows -> Nat] /\ lost \in [Rows -> Nat]
  BY DEF IInv, Sound
<1>1. UNCHANGED <<batch, hand, delivered, doubled, lost>>
  BY DEF Enqueue, drainVars
<1>2. \A row : Holders(row)' = Holders(row) /\ Unsent(row)' = Unsent(row)
  BY <1>1 DEF Holders, Unsent
<1>3. request[e] # "done" /\ request' = [request EXCEPT ![e] = "done"]
  BY DEF Enqueue
<1>4. \A row \in Rows : Event(row) \in Events
  BY DEF Rows, Event
<1>5. \A row \in Rows : Event(row) # e => Status(row)' = Status(row)
  BY DEF Enqueue, Status
<1>6. \A row \in Rows : Event(row) = e => Holders(row) = {} /\ Status(row) = "NONE"
  BY <1>3 DEF Fresh, IInv
<1>7. Fresh'
  <2>1. \A row \in Rows :
          request'[Event(row)] # "done" => Status(row)' = "NONE" /\ Holders(row)' = {}
    BY <1>0, <1>2, <1>3, <1>4, <1>5 DEF Fresh, IInv
  <2>2. todo' = [todo EXCEPT ![e] = InlineChannels(e)]
    BY DEF Enqueue
  <2>3. \A f \in Events, c \in Channels : Idle(<<f, c>>)' = Idle(<<f, c>>)
    BY <1>1 DEF Idle
  <2>4. \A c \in Channels : Idle(<<e, c>>)
    BY <1>3 DEF Fresh, IInv
  <2> QED
    BY <1>0, <1>3, <2>1, <2>2, <2>3, <2>4 DEF Fresh, IInv
<1>8. ASSUME NEW row \in Rows
      PROVE  delivered'[row] + ToCome(row)' <= 1 + doubled'[row] + lost'[row]
  <2>1. delivered[row] + ToCome(row) <= 1 + doubled[row] + lost[row]
    BY DEF IInv, Counted
  <2>2. ToCome(row)' <= ToCome(row)
    <3>1. CASE Event(row) = e
      <4>1. ToCome(row) = 1 /\ ToCome(row)' \in {0, 1}
        BY <1>2, <1>6, <3>1 DEF ToCome
      <4> QED
        BY <4>1
    <3>2. CASE Event(row) # e
      <4>1. ToCome(row)' = ToCome(row)
        BY <1>2, <1>5, <3>2 DEF ToCome
      <4> QED
        BY <4>1, Ones
    <3> QED
      BY <3>1, <3>2
  <2>3. ToCome(row) \in Nat /\ ToCome(row)' \in Nat
    BY <1>2, Finite DEF ToCome
  <2> QED
    BY <1>0, <1>1, <2>1, <2>2, <2>3
<1> QED
  BY <1>1, <1>7, <1>8 DEF Counted, IInv, Single

(* A drain that takes a row nobody had takes over the one time it may still   *)
(* be sent; one that takes a row another holds adds a time.                 *)
LEMMA DrainOnce ==
  ASSUME IInv, NEW o \in Events \union Sweeps, NEW c \in Channels, Drain(o, c)
  PROVE  Fresh' /\ Single' /\ Counted'
<1>0. PICK me \in Drains : me = <<o, c>>
  BY DEF Drains
<1>1. PICK taken \in Selections(Due(o, c)) :
       /\ batch' = [batch EXCEPT ![<<o, c>>] =
                      {[row |-> r, attempts |-> rows[r].attempts] : r \in taken}]
       /\ doubled' = Once(doubled, {r \in taken : Holders(r) # {}})
  BY DEF Drain
<1>2. /\ batch \in [Drains -> SUBSET Held] /\ UNCHANGED <<hand, request, delivered, lost>>
      /\ delivered \in [Rows -> Nat] /\ doubled \in [Rows -> Nat] /\ lost \in [Rows -> Nat]
      /\ todo \in [Events -> SUBSET Channels]
      /\ todo' = [e \in Events |-> IF e = o THEN todo[e] \ {c} ELSE todo[e]]
  BY DEF IInv, Sound, Drain
<1>3. /\ batch'[me] = {[row |-> r, attempts |-> rows[r].attempts] : r \in taken}
      /\ \A d \in Drains \ {me} : batch'[d] = batch[d]
  BY <1>0, <1>1, <1>2
<1>4. batch[me] = {} /\ hand[me] = NoHand
  <2>1. Idle(<<o, c>>)
    BY DEF Drain, Fresh, IInv
  <2> QED
    BY <1>0, <2>1 DEF Idle
<1>5. /\ taken \subseteq Rows
      /\ \A row \in taken : Status(row) = "PENDING"
      /\ \A row \in Rows : \/ Status(row)' = Status(row)
                           \/ Status(row) = "PENDING" /\ Status(row)' = "FAILED"
  <2>1. taken \subseteq Rows /\ \A row \in taken : Status(row) = "PENDING"
    BY DEF Selections, Due
  <2>2. \A row \in Expired(c) : Status(row) = "PENDING"
    BY DEF Expired
  <2>3. rows \in [Rows -> Notification]
    BY DEF IInv, Sound
  <2>4. \A row \in Rows : row \in Expired(c) => Status(row)' = "FAILED"
    BY <2>3 DEF Drain, Status, Notification
  <2>5. \A row \in Rows : row \notin Expired(c) => Status(row)' = Status(row)
    BY DEF Drain, Status
  <2> QED
    BY <2>1, <2>2, <2>4, <2>5
<1>6. \A row \in Rows : row \notin taken => Holders(row)' = Holders(row) /\ Unsent(row)' = Unsent(row)
  BY <1>2, <1>3, <1>4 DEF Holders, Unsent
<1>7. \A row \in taken : /\ Holders(row)' = Holders(row) \union {me}
                         /\ Unsent(row)' = Unsent(row) \union {me}
  <2> SUFFICES ASSUME NEW row \in taken
               PROVE  /\ Holders(row)' = Holders(row) \union {me}
                      /\ Unsent(row)' = Unsent(row) \union {me}
    OBVIOUS
  <2>1. \E b \in batch'[me] : b.row = row
    <3>1. [row |-> row, attempts |-> rows[row].attempts] \in batch'[me]
      BY <1>3
    <3> QED
      BY <3>1
  <2>2. me \in Holders(row)' /\ me \in Unsent(row)'
    BY <2>1 DEF Holders, Unsent
  <2>3. \A d \in Drains \ {me} : d \in Holders(row)' <=> d \in Holders(row)
    BY <1>2, <1>3 DEF Holders
  <2>4. \A d \in Drains \ {me} : d \in Unsent(row)' <=> d \in Unsent(row)
    BY <1>2, <1>3 DEF Unsent
  <2>5. /\ Holders(row) \subseteq Drains /\ Holders(row)' \subseteq Drains
        /\ Unsent(row) \subseteq Drains /\ Unsent(row)' \subseteq Drains
    BY DEF Holders, Unsent
  <2> QED
    BY <2>2, <2>3, <2>4, <2>5
<1>8. Fresh'
  <2>1. ASSUME NEW row \in Rows, request'[Event(row)] # "done"
        PROVE  Status(row)' = "NONE" /\ Holders(row)' = {}
    <3>1. Status(row) = "NONE" /\ Holders(row) = {}
      BY <1>2, <2>1 DEF Fresh, IInv
    <3> QED
      BY <1>5, <1>6, <3>1
  <2>2. ASSUME NEW e \in Events, NEW x \in Channels
        PROVE  /\ x \in todo'[e] => request'[e] = "done"
               /\ x \in todo'[e] \/ request'[e] # "done" => Idle(<<e, x>>)'
    <3>1. x \in todo'[e] => x \in todo[e] /\ <<e, x>> # me
      BY <1>0, <1>2
    <3>2. request[e] # "done" => <<e, x>> # me
      BY <1>0, OutboxAssumption DEF Drain, Fresh, IInv
    <3>3. <<e, x>> \in Drains
      BY DEF Drains
    <3> QED
      BY <1>2, <1>3, <3>1, <3>2, <3>3 DEF Fresh, IInv, Idle
  <2> QED
    BY <2>1, <2>2 DEF Fresh
<1>9. Single'
  <2>1. \A b \in batch'[me] : b = [row |-> b.row, attempts |-> rows[b.row].attempts] /\ b.row \in taken
    BY <1>3
  <2>2. \A b, d \in batch'[me] : b.row = d.row => b = d
    BY <2>1
  <2>3. \A b \in batch'[me] : hand'[me].row # b.row
    BY <1>2, <1>4, <1>5, <2>1, Bounds DEF NoHand
  <2> QED
    BY <1>2, <1>3, <2>2, <2>3 DEF Single, IInv
<1>10. ASSUME NEW row \in Rows
       PROVE  delivered'[row] + ToCome(row)' <= 1 + doubled'[row] + lost'[row]
  <2>0. /\ delivered[row] + ToCome(row) <= 1 + doubled[row] + lost[row]
        /\ ToCome(row) \in Nat
    BY Ones DEF IInv, Counted
  <2>1. doubled'[row] = IF row \in taken /\ Holders(row) # {} THEN doubled[row] + 1 ELSE doubled[row]
    BY <1>1, <1>2, Counting
  <2>2. CASE row \in taken /\ Holders(row) # {}
    <3>1. ToCome(row) = Cardinality(Unsent(row)) /\ ToCome(row)' = Cardinality(Unsent(row)')
      BY <1>7, <2>2 DEF ToCome
    <3>2. ToCome(row)' <= ToCome(row) + 1 /\ ToCome(row)' \in Nat
      <4>1. Unsent(row) \in SUBSET Drains /\ Unsent(row)' \in SUBSET Drains
        BY Finite DEF Unsent
      <4> QED
        BY <1>7, <2>2, <3>1, <4>1, Unheld
    <3> QED
      BY <1>2, <2>0, <2>1, <2>2, <3>2
  <2>3. CASE row \in taken /\ Holders(row) = {}
    <3>1. Unsent(row) = {} /\ ToCome(row) = 1
      BY <1>5, <2>3, Finite DEF ToCome
    <3>2. Unsent(row)' = {me} /\ me \in Holders(row)'
      BY <1>7, <2>3, <3>1
    <3>3. ToCome(row)' = 1
      BY <3>2, FS_Singleton DEF ToCome
    <3> QED
      BY <1>2, <2>0, <2>1, <2>3, <3>1, <3>3
  <2>4. CASE row \notin taken
    <3>1. ToCome(row)' = ToCome(row) \/ ToCome(row)' = 0
      BY <1>5, <1>6, <2>4 DEF ToCome
    <3> QED
      BY <1>2, <2>0, <2>1, <2>4, <3>1
  <2> QED
    BY <2>2, <2>3, <2>4
<1> QED
  BY <1>8, <1>9, <1>10 DEF Counted

(* A row that goes to the provider is sent, and comes once less; or the       *)
(* provider has it and nobody knows, and it comes as often as before.       *)
LEMMA HandOverOnce ==
  ASSUME IInv, NEW d \in Drains, HandOver(d) PROVE Fresh' /\ Single' /\ Counted'
<1>0. PICK b \in batch[d], answer \in {"ok", "retry", "permanent"} :
       /\ b \in Held /\ hand[d] = NoHand
       /\ UNCHANGED <<rows, request, todo, doubled>>
       /\ batch' = [batch EXCEPT ![d] = @ \ {b}]
       /\ hand' = [hand EXCEPT ![d] = [row |-> b.row, attempts |-> b.attempts,
                                       answer |-> answer]]
       /\ \/ answer = "ok" /\ Taken(b.row) /\ UNCHANGED <<lost, crashes>>
          \/ answer = "retry" /\ Taken(b.row) /\ AnswerLost(b.row)
          \/ answer # "ok" /\ UNCHANGED <<delivered, lost, crashes>>
  BY HandsOver DEF IInv
<1>1. /\ batch \in [Drains -> SUBSET Held] /\ hand \in [Drains -> Handed \union {NoHand}]
      /\ delivered \in [Rows -> Nat] /\ doubled \in [Rows -> Nat] /\ lost \in [Rows -> Nat]
  BY DEF IInv, Sound
<1>2. /\ batch'[d] = batch[d] \ {b} /\ hand'[d].row = b.row /\ hand'[d].answer = answer
      /\ \A e \in Drains \ {d} : batch'[e] = batch[e] /\ hand'[e] = hand[e]
  BY <1>0, <1>1
<1>3. b.row \in Rows /\ \A x \in batch[d] : x # b => x.row # b.row
  BY <1>0 DEF Held, IInv, Single
<1>4. \A row \in Rows : hand[d].row # row
  BY <1>0, Bounds DEF NoHand
<1>5. \A row \in Rows : Holders(row)' = Holders(row)
  BY <1>0, <1>2, <1>4 DEF Holders
<1>6. \A row \in Rows : row # b.row => Unsent(row)' = Unsent(row)
  BY <1>0, <1>2, <1>4 DEF Unsent
<1>7. d \in Unsent(b.row) /\ Unsent(b.row)' = IF answer = "ok" THEN Unsent(b.row) \ {d} ELSE Unsent(b.row)
  <2>1. \A x \in batch'[d] : x.row # b.row
    BY <1>2, <1>3
  <2>2. \A e \in Drains \ {d} : e \in Unsent(b.row)' <=> e \in Unsent(b.row)
    BY <1>2 DEF Unsent
  <2>3. d \in Unsent(b.row)' <=> answer # "ok"
    BY <1>2, <2>1 DEF Unsent
  <2> QED
    BY <2>2, <2>3 DEF Unsent
<1>8. Fresh'
  <2>1. \A row : Status(row)' = Status(row)
    BY <1>0 DEF Status
  <2>2. \A e \in Events, c \in Channels : Idle(<<e, c>>) => <<e, c>> # d
    BY <1>0 DEF Idle
  <2>3. \A e \in Events, c \in Channels : Idle(<<e, c>>) => Idle(<<e, c>>)'
    <3>1. \A e \in Events, c \in Channels : <<e, c>> \in Drains
      BY DEF Drains
    <3> QED
      BY <1>2, <2>2, <3>1 DEF Idle
  <2> QED
    BY <1>0, <1>5, <2>1, <2>3 DEF Fresh, IInv
<1>9. Single'
  BY <1>2, <1>3 DEF Single, IInv
<1>10. ASSUME NEW row \in Rows
       PROVE  delivered'[row] + ToCome(row)' <= 1 + doubled'[row] + lost'[row]
  <2>0. /\ delivered[row] + ToCome(row) <= 1 + doubled[row] + lost[row]
        /\ ToCome(row) \in Nat
    BY Ones DEF IInv, Counted
  <2>1. CASE row # b.row
    <3>1. ToCome(row)' = ToCome(row)
      BY <1>0, <1>5, <1>6, <2>1 DEF ToCome, Status
    <3>2. delivered'[row] = delivered[row] /\ lost'[row] = lost[row]
      BY <1>0, <1>1, <2>1, Counting DEF Taken, AnswerLost
    <3> QED
      BY <1>0, <2>0, <3>1, <3>2
  <2>2. CASE row = b.row
    <3>1. /\ ToCome(row) = Cardinality(Unsent(row)) /\ ToCome(row)' = Cardinality(Unsent(row)')
      BY <1>5, <1>7, <2>2 DEF ToCome, Unsent, Holders
    <3>2. CASE answer = "ok"
      <4>1. ToCome(row)' = ToCome(row) - 1
        <5>1. Unsent(row) \in SUBSET Drains /\ Unsent(row)' \in SUBSET Drains
          BY Finite DEF Unsent
        <5> QED
          BY <1>7, <2>2, <3>1, <3>2, <5>1, Unheld
      <4>2. delivered'[row] = delivered[row] + 1 /\ lost'[row] = lost[row]
        BY <1>0, <1>1, <2>2, <3>2, Counting DEF Taken
      <4> QED
        BY <1>0, <1>1, <2>0, <4>1, <4>2
    <3>3. CASE answer # "ok"
      <4>1. ToCome(row)' = ToCome(row)
        BY <1>7, <2>2, <3>1, <3>3
      <4>2. \/ delivered'[row] = delivered[row] + 1 /\ lost'[row] = lost[row] + 1
            \/ delivered'[row] = delivered[row] /\ lost'[row] = lost[row]
        BY <1>0, <1>1, <2>2, <3>3, Counting DEF Taken, AnswerLost
      <4> QED
        BY <1>0, <1>1, <2>0, <4>1, <4>2
    <3> QED
      BY <3>2, <3>3
  <2> QED
    BY <2>1, <2>2
<1> QED
  BY <1>8, <1>9, <1>10 DEF Counted

(* Who lets go of a row last leaves it SENT, if the provider has taken it.   *)
LEMMA RecordOnce ==
  ASSUME IInv, NEW d \in Drains, Record(d) PROVE Fresh' /\ Single' /\ Counted'
<1> PICK h : h = hand[d]
  OBVIOUS
<1>0. /\ h \in Handed /\ UNCHANGED <<batch, request, todo, delivered, doubled, lost>>
      /\ batch \in [Drains -> SUBSET Held]
      /\ hand \in [Drains -> Handed \union {NoHand}] /\ rows \in [Rows -> Notification]
      /\ delivered \in [Rows -> Nat] /\ doubled \in [Rows -> Nat] /\ lost \in [Rows -> Nat]
      /\ rows' = [rows EXCEPT ![h.row] = Recorded(h)]
      /\ hand' = [hand EXCEPT ![d] = NoHand]
  BY DEF IInv, Sound, Record
<1>1. h.row \in Rows /\ d \in Holders(h.row) /\ \A x \in batch[d] : x.row # h.row
  BY <1>0 DEF Handed, Holders, IInv, Single
<1>2. /\ hand'[d] = NoHand /\ \A e \in Drains \ {d} : hand'[e] = hand[e]
      /\ \A row \in Rows : hand'[d].row # row
  BY <1>0, Bounds DEF NoHand
<1>3. \A row \in Rows : row # h.row => /\ Holders(row)' = Holders(row) /\ Unsent(row)' = Unsent(row)
                                       /\ Status(row)' = Status(row)
  BY <1>0, <1>2 DEF Holders, Unsent, Status
<1>4. Holders(h.row)' = Holders(h.row) \ {d} /\ Unsent(h.row)' = Unsent(h.row) \ {d}
  BY <1>0, <1>1, <1>2 DEF Holders, Unsent
<1>5. Fresh'
  <2>1. \A row \in Rows : request[Event(row)] # "done" => row # h.row
    BY <1>1 DEF Fresh, IInv
  <2>2. \A e \in Events, c \in Channels : Idle(<<e, c>>) => Idle(<<e, c>>)'
    BY <1>0 DEF Idle, Drains
  <2> QED
    BY <1>0, <1>3, <2>1, <2>2 DEF Fresh, IInv
<1>6. Single'
  <2>1. \A e \in Drains : \A x \in batch[e] : x.row \in Rows
    BY <1>0 DEF Held
  <2> QED
    BY <1>0, <1>2, <2>1 DEF Single, IInv
<1>7. ASSUME NEW row \in Rows
      PROVE  delivered'[row] + ToCome(row)' <= 1 + doubled'[row] + lost'[row]
  <2>0. /\ delivered[row] + ToCome(row) <= 1 + doubled[row] + lost[row]
        /\ ToCome(row) \in Nat
    BY Ones DEF IInv, Counted
  <2>1. ToCome(row)' <= ToCome(row) /\ ToCome(row)' \in Nat
    <3>1. CASE row # h.row
      <4>1. ToCome(row)' = ToCome(row)
        BY <1>3, <3>1 DEF ToCome
      <4> QED
        BY <2>0, <4>1
    <3>2. CASE row = h.row
      <4>0. /\ ToCome(row) = Cardinality(Unsent(row))
            /\ Unsent(row) \in SUBSET Drains /\ Unsent(row)' \in SUBSET Drains
        BY <1>1, <3>2, Finite DEF ToCome, Unsent
      <4>1. CASE Holders(row)' # {}
        <5>1. ToCome(row)' = Cardinality(Unsent(row)') /\ Unsent(row)' \subseteq Unsent(row)
          BY <1>4, <3>2, <4>1 DEF ToCome
        <5> QED
          BY <4>0, <5>1, Unheld
      <4>2. CASE Holders(row)' = {} /\ h.answer = "ok"
        <5>1. rows'[row] = Recorded(h) /\ rows[row] \in Notification
          BY <1>0, <1>1, <3>2
        <5>2. Status(row)' = "SENT"
          BY <3>2, <4>2, <5>1 DEF Recorded, Notification, Status
        <5> QED
          BY <2>0, <4>2, <5>2 DEF ToCome
      <4>3. CASE Holders(row)' = {} /\ h.answer # "ok"
        <5>1. d \in Unsent(row)
          BY <3>2, <4>3 DEF Unsent
        <5>2. ToCome(row) >= 1 /\ ToCome(row)' \in {0, 1}
          BY <4>0, <4>3, <5>1, Unheld DEF ToCome
        <5> QED
          BY <2>0, <5>2
      <4> QED
        BY <4>1, <4>2, <4>3
    <3> QED
      BY <3>1, <3>2
  <2> QED
    BY <1>0, <2>0, <2>1
<1> QED
  BY <1>5, <1>6, <1>7 DEF Counted

(* Who dies with the provider's answer in hand leaves the row to be sent      *)
(* again, and the answer is lost.                                          *)
LEMMA CrashOnce ==
  ASSUME IInv, NEW o \in Events \union Sweeps, Crash(o) PROVE Fresh' /\ Single' /\ Counted'
<1> PICK some : some = {hand[d].row : d \in {x \in Drains : x[1] = o /\ hand[x].answer = "ok"}}
  OBVIOUS
<1>0. /\ UNCHANGED <<rows, delivered, doubled>>
      /\ batch' = [d \in Drains |-> IF d[1] = o THEN {} ELSE batch[d]]
      /\ hand' = [d \in Drains |-> IF d[1] = o THEN NoHand ELSE hand[d]]
      /\ request' = IF o \in Events THEN [request EXCEPT ![o] = "done"] ELSE request
      /\ todo' = [e \in Events |-> IF e = o THEN {} ELSE todo[e]]
      /\ lost' = Once(lost, some)
      /\ request \in [Events -> {"no", "allowed", "written", "done", "refused"}]
      /\ delivered \in [Rows -> Nat] /\ doubled \in [Rows -> Nat] /\ lost \in [Rows -> Nat]
  BY DEF IInv, Sound, Crash
<1>1. \A row \in Rows : /\ Holders(row)' \subseteq Holders(row)
                        /\ Unsent(row)' \subseteq Unsent(row)
                        /\ Status(row)' = Status(row)
  BY <1>0, Bounds DEF Holders, NoHand, Status, Unsent
<1>2. \A e \in Events : request'[e] # "done" => request[e] # "done"
  BY <1>0
<1>3. Fresh'
  <2>1. \A row \in Rows : Event(row) \in Events
    BY DEF Rows, Event
  <2>2. \A row \in Rows :
          request'[Event(row)] # "done" => Status(row)' = "NONE" /\ Holders(row)' = {}
    BY <1>1, <1>2, <2>1 DEF Fresh, IInv
  <2>3. \A e \in Events, c \in Channels : Idle(<<e, c>>) => Idle(<<e, c>>)'
    BY <1>0 DEF Idle, Drains
  <2>4. \A e \in Events, c \in Channels : c \in todo'[e] => c \in todo[e] /\ e # o
    BY <1>0
  <2> QED
    BY <1>0, <1>2, <2>2, <2>3, <2>4 DEF Fresh, IInv
<1>4. Single'
  BY <1>0 DEF Single, IInv
<1>5. ASSUME NEW row \in Rows
      PROVE  delivered'[row] + ToCome(row)' <= 1 + doubled'[row] + lost'[row]
  <2>0. /\ delivered[row] + ToCome(row) <= 1 + doubled[row] + lost[row]
        /\ ToCome(row) \in Nat
    BY Ones DEF IInv, Counted
  <2>1. lost'[row] = IF row \in some THEN lost[row] + 1 ELSE lost[row]
    BY <1>0, Counting
  <2>2. Unsent(row) \in SUBSET Drains /\ Unsent(row)' \in SUBSET Drains
    BY Finite DEF Unsent
  <2>3. CASE Holders(row)' # {}
    <3>1. /\ ToCome(row) = Cardinality(Unsent(row))
          /\ ToCome(row)' = Cardinality(Unsent(row)')
      BY <1>1, <2>3 DEF ToCome
    <3>2. ToCome(row)' <= ToCome(row) /\ ToCome(row)' \in Nat
      BY <1>1, <2>2, <3>1, Finite, FS_Subset
    <3> QED
      BY <1>0, <2>0, <2>1, <3>2
  <2>4. CASE Holders(row) = {}
    <3>1. Holders(row)' = {}
      BY <1>1, <2>4
    <3>2. ToCome(row)' = ToCome(row)
      BY <1>1, <2>4, <3>1 DEF ToCome
    <3> QED
      BY <1>0, <2>0, <2>1, <3>2
  <2>5. CASE Holders(row)' = {} /\ Holders(row) # {}
    <3>1. PICK d \in Drains : d \in Holders(row)
      BY <2>5 DEF Holders
    <3>2. ToCome(row)' \in {0, 1} /\ ToCome(row) = Cardinality(Unsent(row))
      BY <2>5 DEF ToCome
    <3>3. CASE d \in Unsent(row)
      <4>1. ToCome(row) >= 1
        BY <2>2, <3>2, <3>3, Unheld
      <4> QED
        BY <1>0, <2>0, <2>1, <3>2, <4>1
    <3>4. CASE d \notin Unsent(row)
      <4>1. hand[d].row = row /\ hand[d].answer = "ok"
        BY <3>1, <3>4 DEF Unsent, Holders
      <4>2. d[1] = o
        <5>1. d[1] # o => hand'[d] = hand[d]
          BY <1>0
        <5> QED
          BY <2>5, <4>1, <5>1 DEF Holders
      <4>3. row \in some
        BY <4>1, <4>2
      <4> QED
        BY <1>0, <2>0, <2>1, <3>2, <4>3
    <3> QED
      BY <3>3, <3>4
  <2> QED
    BY <2>3, <2>4, <2>5
<1> QED
  BY <1>3, <1>4, <1>5 DEF Counted

LEMMA NextIInv == IInv /\ [Next]_vars => IInv'
<1> SUFFICES ASSUME IInv, [Next]_vars PROVE IInv'
  OBVIOUS
<1>1. Sound'
  BY NextSound DEF IInv
<1>2. Fresh' /\ Single' /\ Counted'
  <2>1. CASE Tick \/ UNCHANGED vars
    <3>1. UNCHANGED <<rows, batch, hand, delivered, doubled, lost, todo, request>>
      BY <2>1 DEF Tick, vars, drainVars
    <3> QED
      BY <3>1, QuietOnce DEF IInv
  <2> QED
    BY <2>1, ComposeOnce, EnqueueOnce, DrainOnce, HandOverOnce, RecordOnce, CrashOnce DEF Next
<1> QED
  BY <1>1, <1>2 DEF IInv

(* A message reaches its reader once, and once more at most for every second   *)
(* drain that took its row while one still held it, and for every time the   *)
(* provider took it and nobody wrote that down, because the call failed after *)
(* it or the process died (drain.ts:82-163, telegram-sender.ts:44-51).      *)
THEOREM SentOnce == Spec => []RepeatsAccounted
<1>1. Init => IInv
  BY InitSound, InitOnce DEF IInv
<1>2. IInv => RepeatsAccounted
  <2> SUFFICES ASSUME IInv, NEW row \in Rows
               PROVE  delivered[row] <= 1 + doubled[row] + lost[row]
    BY DEF RepeatsAccounted
  <2>1. /\ delivered[row] + ToCome(row) <= 1 + doubled[row] + lost[row]
        /\ ToCome(row) \in Nat
        /\ delivered[row] \in Nat /\ doubled[row] \in Nat /\ lost[row] \in Nat
    BY Ones DEF IInv, Counted, Sound
  <2> QED
    BY <2>1
<1> QED
  BY <1>1, <1>2, NextIInv, PTL DEF Spec
-----------------------------------------------------------------------------
(* The allowance.  Composers who found another one at work are set aside;     *)
(* of the others one at most is at work, and while one is there is room for   *)
(* its broadcast, on the day it was counted and on any later one.           *)
Alone == Broadcasts \ crowded
On(d) == {b \in Alone : recordedOn[b] = d}
AtWork == {b \in Alone : request[b] = "allowed"}

Room ==
  /\ \A d \in 0..MaxDay : Cardinality(On(d)) <= BROADCASTS_PER_DAY
  /\ \A b, c \in AtWork : b = c
  /\ AtWork # {} => Cardinality(On(day)) < BROADCASTS_PER_DAY
  /\ \A b \in Broadcasts : recordedOn[b] # None => recordedOn[b] <= day
  /\ \A b \in Broadcasts : request[b] \in {"no", "allowed"} => recordedOn[b] = None

LEMMA Counts ==
  /\ BROADCASTS_PER_DAY \in Nat
  /\ \A S \in SUBSET Broadcasts : IsFiniteSet(S) /\ Cardinality(S) \in Nat
  /\ \A S, T \in SUBSET Broadcasts : S \subseteq T => Cardinality(S) <= Cardinality(T)
<1>1. IsFiniteSet(Events) /\ Broadcasts \subseteq Events
  BY OutboxAssumption DEF Broadcasts
<1>2. \A S \in SUBSET Broadcasts : IsFiniteSet(S)
  BY <1>1, FS_Subset
<1> QED
  BY <1>2, FS_Subset, FS_CardinalityType, OutboxAssumption

(* Fewer, or as many, are set on each day, and nobody new is at work.       *)
LEMMA NoLessRoom ==
  ASSUME Sound, Room,
         crowded \subseteq crowded', recordedOn' = recordedOn, day' = day, AtWork' \subseteq AtWork,
         \A b \in Broadcasts : request'[b] \in {"no", "allowed"} => request[b] \in {"no", "allowed"}
  PROVE  Room'
<1>1. \A d : On(d)' \subseteq On(d) /\ On(d) \subseteq Broadcasts
  BY DEF On, Alone
<1>2. \A d \in 0..MaxDay : Cardinality(On(d)') <= Cardinality(On(d))
                           /\ Cardinality(On(d)') \in Nat /\ Cardinality(On(d)) \in Nat
  BY <1>1, Counts
<1>3. \A d \in 0..MaxDay : Cardinality(On(d)') <= BROADCASTS_PER_DAY
  BY <1>2, Counts DEF Room
<1>4. AtWork' # {} => Cardinality(On(day)') < BROADCASTS_PER_DAY
  BY <1>2, Counts DEF Room, Sound
<1> QED
  BY <1>3, <1>4 DEF Room, On

LEMMA CheckRoom ==
  ASSUME Sound, Room, NEW b \in Broadcasts, CheckAllowance(b) PROVE Room'
<1>0. /\ b \in Events /\ request[b] = "no" /\ recordedOn' = recordedOn /\ day' = day
      /\ request \in [Events -> {"no", "allowed", "written", "done", "refused"}]
      /\ request' = [request EXCEPT ![b] = IF Allowed THEN "allowed" ELSE "refused"]
      /\ crowded' = IF Allowed /\ \E c \in Broadcasts : request[c] = "allowed"
                      THEN crowded \union {b} ELSE crowded
      /\ Broadcasts \subseteq Events /\ day \in 0..MaxDay
  BY DEF CheckAllowance, Broadcasts, Sound
<1>1. \A c \in Broadcasts : request'[c] \in {"no", "allowed"} => request[c] \in {"no", "allowed"}
  BY <1>0
<1>2. CASE ~Allowed \/ \E c \in Broadcasts : request[c] = "allowed"
  <2>1. AtWork' \subseteq AtWork
    BY <1>0, <1>2 DEF AtWork, Alone
  <2> QED
    BY <1>0, <1>1, <2>1, NoLessRoom
<1>3. CASE Allowed /\ ~\E c \in Broadcasts : request[c] = "allowed"
  <2>1. crowded' = crowded
    BY <1>0, <1>3
  <2>2. \A c, d \in AtWork' : c = d
    BY <1>0, <1>3 DEF AtWork, Alone
  <2>3. On(day) \subseteq {c \in Broadcasts : recordedOn[c] = day}
    BY DEF On, Alone
  <2>4. Cardinality(On(day)) < BROADCASTS_PER_DAY
    BY <1>3, <2>3, Counts DEF Allowed, UsedToday
  <2>5. Cardinality(On(day)') < BROADCASTS_PER_DAY
    BY <1>0, <2>1, <2>4 DEF On, Alone
  <2>6. \A d : On(d)' = On(d)
    BY <1>0, <2>1 DEF On, Alone
  <2> QED
    BY <1>0, <1>1, <2>2, <2>5, <2>6 DEF Room
<1> QED
  BY <1>2, <1>3

(* A broadcast takes the place that was kept for it, if the day has changed   *)
(* meanwhile a place of the new day.                                       *)
LEMMA RecordRoom ==
  ASSUME Sound, Room, NEW b \in Broadcasts, RecordBroadcast(b) PROVE Room'
<1>0. /\ b \in Events /\ request[b] = "allowed" /\ day' = day /\ crowded' = crowded
      /\ request \in [Events -> {"no", "allowed", "written", "done", "refused"}]
      /\ request' = [request EXCEPT ![b] = "written"]
      /\ recordedOn' = [recordedOn EXCEPT ![b] = day]
      /\ recordedOn \in [Broadcasts -> {None} \union 0..MaxDay]
      /\ Broadcasts \subseteq Events /\ day \in 0..MaxDay
  BY DEF RecordBroadcast, drainVars, Broadcasts, Sound
<1>1. /\ \A c \in Broadcasts : request'[c] \in {"no", "allowed"} => recordedOn'[c] = None
      /\ \A c \in Broadcasts : recordedOn'[c] # None => recordedOn'[c] <= day'
  BY <1>0 DEF Room
<1>2. AtWork' = AtWork \ {b} /\ \A c, d \in AtWork' : c = d
  BY <1>0 DEF AtWork, Alone, Room
<1>3. \A d \in 0..MaxDay : d # day => On(d)' \subseteq On(d)
  BY <1>0 DEF On, Alone
<1>4. \A d \in 0..MaxDay : On(d) \subseteq Broadcasts /\ On(d)' \subseteq Broadcasts
                           /\ Cardinality(On(d)) <= BROADCASTS_PER_DAY
  BY <1>0 DEF On, Alone, Room
<1>5. \A d \in 0..MaxDay : d # day => Cardinality(On(d)') <= BROADCASTS_PER_DAY
  BY <1>3, <1>4, Counts
<1>6. CASE b \in crowded
  <2>1. \A d \in 0..MaxDay : On(d)' = On(d) /\ AtWork' = AtWork
    BY <1>0, <1>6 DEF On, Alone, AtWork
  <2>2. AtWork' # {} => Cardinality(On(day)') < BROADCASTS_PER_DAY
    BY <1>0, <1>6, <2>1 DEF On, Alone, Room
  <2> QED
    BY <1>1, <1>2, <1>4, <2>1, <2>2 DEF Room
<1>7. CASE b \notin crowded
  <2>1. b \in AtWork
    BY <1>0, <1>7 DEF AtWork, Alone
  <2>2. AtWork' = {}
    BY <1>2, <2>1 DEF Room
  <2>3. On(day) \subseteq Broadcasts /\ {c \in Alone' : recordedOn'[c] = day} \subseteq On(day) \union {b}
    BY <1>0 DEF On, Alone
  <2>4. Cardinality(On(day) \union {b}) <= Cardinality(On(day)) + 1
    BY <2>3, Counts, FS_AddElement
  <2>5. Cardinality(On(day)) < BROADCASTS_PER_DAY
    BY <2>1 DEF Room
  <2>6. On(day) \union {b} \subseteq Broadcasts
    BY <2>3
  <2>7. Cardinality({c \in Alone' : recordedOn'[c] = day}) <= BROADCASTS_PER_DAY
    BY <2>3, <2>4, <2>5, <2>6, Counts
  <2>8. \A d \in 0..MaxDay : Cardinality(On(d)') <= BROADCASTS_PER_DAY
    BY <1>5, <2>7 DEF On
  <2> QED
    BY <1>1, <2>2, <2>8 DEF Room
<1> QED
  BY <1>6, <1>7

LEMMA TickRoom == Sound /\ Room /\ Tick => Room'
<1> SUFFICES ASSUME Sound, Room, Tick PROVE Room'
  OBVIOUS
<1>0. /\ day \in 0..MaxDay /\ day' = day + 1 /\ UNCHANGED <<request, recordedOn, crowded>>
      /\ recordedOn \in [Broadcasts -> {None} \union 0..MaxDay]
  BY DEF Tick, Sound
<1>1. \A d : On(d)' = On(d) /\ AtWork' = AtWork
  BY <1>0 DEF On, AtWork, Alone
<1>2. {b \in Alone : recordedOn[b] = day + 1} = {}
  BY <1>0, Bounds DEF Room, Alone
<1>3. AtWork # {} => 0 < BROADCASTS_PER_DAY
  <2>1. On(day) \subseteq Broadcasts
    BY DEF On, Alone
  <2> QED
    BY <2>1, Counts DEF Room
<1>4. AtWork' # {} => Cardinality(On(day)') < BROADCASTS_PER_DAY
  BY <1>0, <1>1, <1>2, <1>3, FS_EmptySet DEF On, Alone
<1>5. \A b \in Broadcasts : recordedOn'[b] # None => recordedOn'[b] <= day'
  BY <1>0 DEF Room
<1> QED
  BY <1>0, <1>1, <1>4, <1>5 DEF Room

LEMMA NextRoom == Sound /\ Room /\ [Next]_vars => Room'
<1> SUFFICES ASSUME Sound, Room, [Next]_vars PROVE Room'
  OBVIOUS
<1>0. /\ request \in [Events -> {"no", "allowed", "written", "done", "refused"}]
      /\ Broadcasts \subseteq Events
  BY DEF Sound, Broadcasts
<1>1. ASSUME UNCHANGED <<day, recordedOn, crowded>>,
             \A e \in Events : request'[e] \in {request[e], "done"}
      PROVE  Room'
  <2>1. AtWork' \subseteq AtWork
        /\ \A b \in Broadcasts : request'[b] \in {"no", "allowed"} => request[b] \in {"no", "allowed"}
    BY <1>0, <1>1 DEF AtWork, Alone
  <2> QED
    BY <1>1, <2>1, NoLessRoom
<1>2. ASSUME NEW e \in Events, Enqueue(e) PROVE Room'
  BY <1>0, <1>1, <1>2 DEF Enqueue
<1>3. ASSUME NEW o \in Events \union Sweeps, NEW c \in Channels, Drain(o, c) PROVE Room'
  BY <1>1, <1>3 DEF Drain
<1>4. ASSUME NEW o \in Events \union Sweeps, Crash(o) PROVE Room'
  BY <1>0, <1>1, <1>4 DEF Crash
<1>5. ASSUME NEW d \in Drains, HandOver(d) \/ Record(d) PROVE Room'
  BY <1>1, <1>5 DEF HandOver, Record
<1>6. CASE UNCHANGED vars
  BY <1>1, <1>6 DEF vars
<1> QED
  BY <1>2, <1>3, <1>4, <1>5, <1>6, CheckRoom, RecordRoom, TickRoom DEF Next

(* A day holds no more broadcasts than are allowed, but for those of           *)
(* composers who counted while another was between counting and writing, and   *)
(* one that is counted on one day and written on the next finds room there    *)
(* (broadcast.ts:33-45, 68-88).                                             *)
THEOREM DaysHaveRoom == Spec => []AllowanceKept
<1>1. Init => Room
  <2> SUFFICES ASSUME Init PROVE Room
    OBVIOUS
  <2>1. \A d \in 0..MaxDay : On(d) = {} /\ AtWork = {}
    BY Bounds DEF Init, On, AtWork, Alone, Broadcasts
  <2>2. \A b \in Broadcasts : recordedOn[b] = None
    BY DEF Init
  <2> QED
    BY <2>1, <2>2, Counts, Bounds, FS_EmptySet DEF Room, Init
<1>2. Room => AllowanceKept
  BY DEF Room, AllowanceKept, On, Alone
<1> QED
  BY <1>1, <1>2, InitSound, NextSound, NextRoom, PTL DEF Spec
=============================================================================
