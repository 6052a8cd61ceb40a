--------------------------- MODULE PipelineProofs ---------------------------
(***************************************************************************)
(* Proofs about Pipeline, for any rows, relays, batch sizes, consumers and   *)
(* faults, and any retry limit.  Its relays are those of Outbox              *)
(* (RelaysKeepOutbox).  A row that a relay has published stays with the      *)
(* broker or a consumer, or ends in its effect or given up (Placed), because *)
(* an id is only remembered, and a delivery only acked, after a handler has  *)
(* returned (EffectFirst), and because no copy counts more attempts than     *)
(* have failed (FailuresCounted).  How often the handler returns is bounded  *)
(* by an account of runs (RunsAccounted).                                    *)
(***************************************************************************)
EXTENDS Pipeline, TLAPS, FiniteSetTheorems, WellFoundedInduction

Stores == Consumers \cup {Common}
Places == {"idle", "seen", "handle", "remember", "ack", "retry"}

PTypeOK ==
  /\ pending \subseteq Rows /\ published \subseteq Rows
  /\ batch \in [Relays -> SUBSET Rows] /\ accepted \in [Relays -> SUBSET Rows]
  /\ noId \subseteq Rows /\ shared \in BOOLEAN /\ counts \in BOOLEAN
  /\ remembered \in [Stores -> SUBSET Rows]
  /\ queue \in [Copies -> Nat] /\ ended \subseteq Rows /\ tries \in [Consumers -> Attempts]
  /\ effects \in [Rows -> Nat] /\ failures \in [Rows -> Nat] /\ excuse \in [Rows -> Nat]
  /\ cpc \in [Consumers -> Places]
  /\ cur \in [Consumers -> Rows \cup {Nobody}]
  /\ leased \in [Consumers -> BOOLEAN]
  /\ \A c \in Consumers : IF cpc[c] = "idle" THEN ~leased[c] ELSE cur[c] \in Rows

(* What was published is handled, ended, available or leased, before its row is  *)
(* marked as well as afterwards.                                                 *)
Somewhere(n) ==
  \/ effects[n] > 0 \/ n \in ended
  \/ \E a \in Attempts : queue[<<n, a>>] > 0
  \/ \E c \in Consumers : leased[c] /\ cur[c] = n
Placed ==
  /\ \A n \in published : Somewhere(n)
  /\ \A r \in Relays : \A n \in accepted[r] : Somewhere(n)

(* The handler returned before its message is remembered or acknowledged.        *)
EffectFirst ==
  /\ \A s \in Stores : \A n \in remembered[s] : effects[n] > 0
  /\ \A c \in Consumers : cpc[c] \in {"remember", "ack"} => effects[cur[c]] > 0

(* The attempts of a copy have failed, the one under way included once it is      *)
(* about to be retried, and so have all of a copy that was given up.             *)
FailuresCounted ==
  /\ \A n \in Rows, a \in Attempts : queue[<<n, a>>] > 0 => a <= failures[n]
  /\ \A c \in Consumers :
       cpc[c] # "idle" => tries[c] + (IF cpc[c] = "retry" THEN 1 ELSE 0) <= failures[cur[c]]
  /\ \A n \in ended : failures[n] >= MaxAttempts

(* The runs of a message: those that returned and those that may still return.   *)
(* One of them needs no excuse while the store knows of it or it is going on.    *)
Running(n) == {c \in Consumers : cpc[c] = "handle" /\ cur[c] = n}
Known(n) ==
  \/ \E c \in Consumers : cpc[c] \in {"handle", "remember"} /\ cur[c] = n
  \/ IF shared THEN n \in remembered[Common] ELSE effects[n] > 0
RunsAccounted ==
  \A n \in Rows \ noId :
    effects[n] + Cardinality(Running(n)) <= excuse[n] + (IF Known(n) THEN 1 ELSE 0)

PInv == PTypeOK /\ Placed /\ EffectFirst /\ FailuresCounted /\ RunsAccounted

-----------------------------------------------------------------------------
(* The relays                                                                   *)

(* A non-empty set of naturals has a least element.                             *)
LEMMA Least ==
  ASSUME NEW S \in SUBSET Nat, S # {}
  PROVE  \E n \in S : \A k \in S : n <= k
  <1>1. PICK n \in S : \A k \in S : <<k, n>> \notin OpToRel(<, Nat)
    BY NatLessThanWellFounded, WFMin
  <1>2. \A k \in S : ~(k < n)
    BY <1>1 DEF OpToRel
  <1> QED BY <1>2

(* The row a relay publishes is one it fetched.                                 *)
LEMMA CurrentFetched ==
  ASSUME PTypeOK, NEW r \in Relays, batch[r] # {}
  PROVE  Current(r) \in batch[r] /\ Current(r) \in Rows
  <1>1. batch[r] \subseteq Rows /\ Rows \subseteq Nat
    BY OutboxAssumption DEF PTypeOK
  <1>2. \E n \in batch[r] : \A k \in batch[r] : n <= k
    BY <1>1, Least
  <1> QED BY <1>1, <1>2 DEF Current

(* A step of the pipeline is a step of the outbox or leaves it alone.            *)
LEMMA StepKeepsOutbox == [PNext]_allVars => [Next]_vars
  <1> SUFFICES ASSUME PNext PROVE [Next]_vars
    BY DEF allVars, relayVars
  <1>1. ASSUME NEW n \in Rows, Commit(n) PROVE Next
    BY <1>1 DEF Commit, Next
  <1>2. ASSUME NEW r \in Relays, Relay(r) PROVE Next
    BY <1>2 DEF Relay, Next, Flush
  <1>3. ASSUME NEW c \in Consumers,
               Take(c) \/ Wrapped(c) \/ Ack(c) \/ Retry(c) \/ GiveUp(c) \/ Lapse(c) \/ Crash(c)
        PROVE  UNCHANGED vars
    BY <1>3 DEF Take, Wrapped, Seen, HandlerReturns, HandlerRaises, Remember, StoreFails, Ack, Retry,
                GiveUp, Lapse, Crash, relayVars
  <1>4. ASSUME NEW s \in Consumers \cup {Common}, NEW n \in Rows, Forget(s, n)
        PROVE  UNCHANGED vars
    BY <1>4 DEF Forget, relayVars
  <1> QED BY <1>1, <1>2, <1>3, <1>4 DEF PNext

-----------------------------------------------------------------------------
(* Types                                                                        *)

(* The queue q holds a copy of the row with these attempts, and all else is as    *)
(* it was.                                                                       *)
Grows(q, n, a) ==
  /\ q \in [Copies -> Nat] /\ q[<<n, a>>] > 0
  /\ \A m \in Rows, b \in Attempts : q[<<m, b>>] = queue[<<m, b>>] \/ (m = n /\ b = a)

LEMMA OneMore ==
  ASSUME queue \in [Copies -> Nat], NEW n \in Rows, NEW a \in Attempts,
         NEW q, q = More(queue, <<n, a>>)
  PROVE  Grows(q, n, a)
  <1>1. \A m \in Rows, b \in Attempts : <<m, b>> \in Copies /\ queue[<<m, b>>] \in Nat
    BY DEF Copies
  <1>2. \A m \in Rows, b \in Attempts : <<m, b>> = <<n, a>> <=> m = n /\ b = a
    OBVIOUS
  <1>3. q = [queue EXCEPT ![<<n, a>>] = queue[<<n, a>>] + 1]
    BY DEF More
  <1>4. q \in [Copies -> Nat] /\ q[<<n, a>>] = queue[<<n, a>>] + 1
    BY <1>1, <1>3
  <1>5. q[<<n, a>>] > 0
    BY <1>1, <1>4
  <1>6. \A m \in Rows, b \in Attempts : q[<<m, b>>] = queue[<<m, b>>] \/ (m = n /\ b = a)
    BY <1>1, <1>2, <1>3
  <1> QED BY <1>4, <1>5, <1>6 DEF Grows

LEMMA AttemptsAre == MaxAttempts \in Nat /\ 0 \in Attempts /\ Attempts \subseteq Nat
  BY PipelineAssumption DEF Attempts

USE DEF Stores, Places, config, consumer, delivery, relayVars, vars, local, Goto, Fault, Done

(* What a step that puts a copy in does to the queue.                             *)
Grown(n, a) == Grows(queue', n, a)

LEMMA RelayGrows ==
  ASSUME PTypeOK, NEW r \in Relays, Relay(r)
  PROVE  queue' = queue \/ (Current(r) \in Rows /\ Grown(Current(r), 0))
  <1>1. CASE UNCHANGED queue
    BY <1>1
  <1>2. CASE (Accept(r) \/ Reject(r)) /\ Published(r)
    <2>1. Current(r) \in Rows /\ 0 \in Attempts
      BY <1>2, CurrentFetched, AttemptsAre DEF Accept, Reject
    <2>2. queue \in [Copies -> Nat] /\ queue' = More(queue, <<Current(r), 0>>)
      BY <1>2 DEF PTypeOK, Published
    <2> QED BY <2>1, <2>2, OneMore DEF Grown
  <1> QED BY <1>1, <1>2 DEF Relay

LEMMA RetryGrows ==
  ASSUME PTypeOK, NEW c \in Consumers, Retry(c)
  PROVE  /\ cur[c] \in Rows /\ tries[c] + 1 \in Attempts
         /\ (queue' = queue /\ ~leased[c]) \/ Grown(cur[c], tries[c] + 1)
  <1>1. cur[c] \in Rows /\ tries[c] + 1 \in Attempts /\ queue \in [Copies -> Nat]
    <2>1. tries[c] \in 0 .. MaxAttempts /\ MaxAttempts \in Nat
      BY PipelineAssumption DEF PTypeOK, Attempts
    <2>2. tries[c] + 1 \in 0 .. MaxAttempts
      BY <2>1 DEF Retry, LastAttempt
    <2>3. cpc[c] = "retry" /\ queue \in [Copies -> Nat]
      BY DEF PTypeOK, Retry
    <2> QED BY <2>2, <2>3 DEF PTypeOK, Attempts
  <1>2. CASE queue' = More(queue, <<cur[c], tries[c] + 1>>)
    BY <1>1, <1>2, OneMore DEF Grown
  <1>3. CASE queue' = queue /\ ~leased[c]
    BY <1>1, <1>3
  <1> QED BY <1>1, <1>2, <1>3 DEF Retry, Back

LEMMA ReturnGrows ==
  ASSUME PTypeOK, NEW c \in Consumers, Lapse(c) \/ Crash(c)
  PROVE  /\ Unsettled(c) \in Attempts
         /\ leased[c] => cur[c] \in Rows /\ Grown(cur[c], Unsettled(c))
         /\ ~leased[c] => queue' = queue
  <1>1. Unsettled(c) \in Attempts /\ queue \in [Copies -> Nat]
    <2>1. tries[c] \in 0 .. MaxAttempts /\ MaxAttempts \in Nat
      BY PipelineAssumption DEF PTypeOK, Attempts
    <2>2. Counted(tries[c]) \in 0 .. MaxAttempts
      BY <2>1 DEF Counted
    <2> QED BY <2>1, <2>2 DEF PTypeOK, Unsettled, Attempts
  <1>2. queue' = Back(c, Unsettled(c))
    BY DEF Lapse, Crash
  <1>3. ASSUME leased[c] PROVE cur[c] \in Rows /\ Grown(cur[c], Unsettled(c))
    <2>1. cur[c] \in Rows /\ queue' = More(queue, <<cur[c], Unsettled(c)>>)
      BY <1>2, <1>3 DEF PTypeOK, Back
    <2> QED BY <1>1, <2>1, OneMore DEF Grown
  <1>4. ~leased[c] => queue' = queue
    BY <1>2 DEF Back
  <1> QED BY <1>1, <1>3, <1>4

USE DEF More

LEMMA RelayTypes ==
  ASSUME PTypeOK, NEW r \in Relays, Relay(r)
  PROVE  PTypeOK'
  <1>a. queue' \in [Copies -> Nat]
    BY RelayGrows DEF Grown, Grows, PTypeOK
  <1> USE <1>a
  <1>1. CASE Accept(r)
    BY <1>1, CurrentFetched DEF PTypeOK, Relay, Accept
  <1>2. CASE Reject(r)
    BY <1>2, CurrentFetched DEF PTypeOK, Relay, Reject, AfterReject
  <1>3. CASE (StartDrain(r) \/ Fetch(r)) /\ UNCHANGED queue
    BY <1>3 DEF PTypeOK, Relay, StartDrain, Fetch, FetchUnpublished
  <1>4. CASE (MarkPublished(r) \/ Abort(r)) /\ UNCHANGED queue
    BY <1>4 DEF PTypeOK, Relay, MarkPublished, Marked, Abort, Leave
  <1> QED BY <1>1, <1>2, <1>3, <1>4 DEF Relay

LEMMA WrappedTypes ==
  ASSUME PTypeOK, NEW c \in Consumers, Wrapped(c)
  PROVE  PTypeOK'
  <1> USE DEF PTypeOK
  <1>1. CASE Seen(c)
    BY <1>1 DEF Seen
  <1>2. CASE HandlerReturns(c)
    BY <1>2 DEF HandlerReturns
  <1>3. CASE HandlerRaises(c)
    BY <1>3 DEF HandlerRaises
  <1>4. CASE Remember(c)
    BY <1>4 DEF Remember, StoreOf
  <1>5. CASE StoreFails(c)
    BY <1>5 DEF StoreFails
  <1> QED BY <1>1, <1>2, <1>3, <1>4, <1>5 DEF Wrapped

LEMMA BrokerTypes ==
  ASSUME PTypeOK, NEW c \in Consumers,
         Take(c) \/ Ack(c) \/ Retry(c) \/ GiveUp(c) \/ Lapse(c) \/ Crash(c)
  PROVE  PTypeOK'
  <1>a. 0 \in Attempts
    BY AttemptsAre
  <1> USE <1>a DEF PTypeOK
  <1>1. CASE Take(c)
    <2>1. PICK n \in Rows, a \in Attempts :
            /\ queue[<<n, a>>] > 0 /\ queue' = [queue EXCEPT ![<<n, a>>] = @ - 1]
            /\ cur' = [cur EXCEPT ![c] = n] /\ tries' = [tries EXCEPT ![c] = a]
      BY <1>1 DEF Take
    <2>2. queue' \in [Copies -> Nat]
      <3>1. <<n, a>> \in Copies /\ queue[<<n, a>>] \in Nat
        BY DEF Copies
      <3>2. queue[<<n, a>>] - 1 \in Nat
        BY <2>1, <3>1
      <3> QED BY <2>1, <3>2
    <2> QED BY <1>1, <2>1, <2>2 DEF Take
  <1>2. CASE Ack(c)
    BY <1>2 DEF Ack
  <1>3. CASE Retry(c)
    <2>1. queue' \in [Copies -> Nat]
      BY <1>3, RetryGrows DEF Grown, Grows
    <2> QED BY <1>3, <2>1 DEF Retry
  <1>4. CASE GiveUp(c)
    BY <1>4 DEF GiveUp
  <1>5. CASE Lapse(c)
    <2>1. queue' \in [Copies -> Nat]
      BY <1>5, ReturnGrows DEF Grown, Grows
    <2>2. failures' \in [Rows -> Nat]
      BY <1>5 DEF Lapse, AttemptCounted
    <2> QED BY <1>5, <2>1, <2>2 DEF Lapse
  <1>6. CASE Crash(c)
    <2>1. excuse' \in [Rows -> Nat]
      BY <1>6 DEF Crash
    <2>2. remembered' \in [Stores -> SUBSET Rows]
      BY <1>6 DEF Crash
    <2>3. queue' \in [Copies -> Nat]
      BY <1>6, ReturnGrows DEF Grown, Grows
    <2>4. failures' \in [Rows -> Nat]
      BY <1>6 DEF Crash, AttemptCounted
    <2> QED BY <1>6, <2>1, <2>2, <2>3, <2>4 DEF Crash
  <1> QED BY <1>1, <1>2, <1>3, <1>4, <1>5, <1>6

LEMMA TypesKept ==
  ASSUME PTypeOK, [PNext]_allVars
  PROVE  PTypeOK'
  <1>1. ASSUME NEW n \in Rows, Commit(n) PROVE PTypeOK'
    BY <1>1 DEF PTypeOK, Commit, Write
  <1>2. ASSUME NEW s \in Stores, NEW n \in Rows, Forget(s, n) PROVE PTypeOK'
    BY <1>2 DEF PTypeOK, Forget
  <1>3. CASE UNCHANGED allVars
    BY <1>3 DEF PTypeOK, allVars
  <1> QED BY <1>1, <1>2, <1>3, RelayTypes, WrappedTypes, BrokerTypes DEF PNext

-----------------------------------------------------------------------------
(* Nothing is remembered or acked before its handler returned                   *)

LEMMA EffectFirstKept ==
  ASSUME PTypeOK, EffectFirst, PNext
  PROVE  EffectFirst'
  <1> USE DEF PTypeOK, EffectFirst
  <1>1. ASSUME NEW n \in Rows, Commit(n) PROVE EffectFirst'
    BY <1>1 DEF Commit
  <1>2. ASSUME NEW s \in Stores, NEW n \in Rows, Forget(s, n) PROVE EffectFirst'
    BY <1>2 DEF Forget
  <1>3. ASSUME NEW r \in Relays, Relay(r) PROVE EffectFirst'
    BY <1>3 DEF Relay
  <1>4. ASSUME NEW c \in Consumers, Take(c) \/ Ack(c) \/ Retry(c) \/ GiveUp(c) \/ Lapse(c)
        PROVE  EffectFirst'
    BY <1>4 DEF Take, Ack, Retry, GiveUp, Lapse
  <1>5. ASSUME NEW c \in Consumers, Crash(c) PROVE EffectFirst'
    BY <1>5 DEF Crash
  <1>6. ASSUME NEW c \in Consumers, Seen(c) PROVE EffectFirst'
    BY <1>6 DEF Seen, StoreOf
  <1>7. ASSUME NEW c \in Consumers, HandlerReturns(c) PROVE EffectFirst'
    BY <1>7 DEF HandlerReturns
  <1>8. ASSUME NEW c \in Consumers, HandlerRaises(c) \/ StoreFails(c) PROVE EffectFirst'
    BY <1>8 DEF HandlerRaises, StoreFails
  <1>9. ASSUME NEW c \in Consumers, Remember(c) PROVE EffectFirst'
    BY <1>9 DEF Remember, StoreOf
  <1> QED BY <1>1, <1>2, <1>3, <1>4, <1>5, <1>6, <1>7, <1>8, <1>9 DEF PNext, Wrapped

-----------------------------------------------------------------------------
(* What was published is somewhere                                              *)

LEMMA QueueNat ==
  ASSUME PTypeOK, NEW n \in Rows, NEW a \in Attempts
  PROVE  queue[<<n, a>>] \in Nat
  <1>1. <<n, a>> \in Copies
    BY DEF Copies
  <1> QED BY <1>1 DEF PTypeOK

(* Steps that take a row nowhere.                                               *)
LEMMA StaysSomewhere ==
  ASSUME PTypeOK, PTypeOK', EffectFirst, PNext, NEW n \in Rows, Somewhere(n)
  PROVE  Somewhere(n)'
  <1> USE DEF PTypeOK, Somewhere
  <1>1. ASSUME NEW m \in Rows, Commit(m) PROVE Somewhere(n)'
    BY <1>1 DEF Commit
  <1>2. ASSUME NEW s \in Stores, NEW m \in Rows, Forget(s, m) PROVE Somewhere(n)'
    BY <1>2 DEF Forget
  <1>3. ASSUME NEW r \in Relays, Relay(r) PROVE Somewhere(n)'
    <2>1. \A a \in Attempts : queue[<<n, a>>] > 0 => queue'[<<n, a>>] > 0
      BY <1>3, RelayGrows, QueueNat DEF Grown, Grows
    <2> QED BY <1>3, <2>1 DEF Relay
  <1>4. ASSUME NEW c \in Consumers, Take(c) PROVE Somewhere(n)'
    <2>1. PICK m \in Rows, a \in Attempts :
            /\ queue' = [queue EXCEPT ![<<m, a>>] = @ - 1]
            /\ cur' = [cur EXCEPT ![c] = m] /\ leased' = [leased EXCEPT ![c] = TRUE]
      BY <1>4 DEF Take
    <2>2. effects' = effects /\ ended' = ended /\ ~leased[c]
      BY <1>4 DEF Take
    <2>3. CASE m = n
      BY <2>1, <2>3
    <2>4. CASE m # n
      <3>1. \A b \in Attempts : queue'[<<n, b>>] = queue[<<n, b>>]
        BY <2>1, <2>4 DEF Copies
      <3>2. \A d \in Consumers : leased[d] => leased'[d] /\ cur'[d] = cur[d]
        BY <2>1, <2>2
      <3> QED BY <2>2, <3>1, <3>2
    <2> QED BY <2>3, <2>4
  <1>5. ASSUME NEW c \in Consumers, Ack(c) PROVE Somewhere(n)'
    BY <1>5 DEF Ack, EffectFirst
  <1>6. ASSUME NEW c \in Consumers, Retry(c) PROVE Somewhere(n)'
    <2>1. \A a \in Attempts : queue[<<n, a>>] > 0 => queue'[<<n, a>>] > 0
      BY <1>6, RetryGrows, QueueNat DEF Grown, Grows
    <2>2. leased[c] /\ cur[c] = n => \E a \in Attempts : queue'[<<n, a>>] > 0
      BY <1>6, RetryGrows, QueueNat DEF Grown, Grows
    <2>3. UNCHANGED <<effects, ended>>
      BY <1>6 DEF Retry
    <2>4. \A d \in Consumers \ {c} : leased'[d] = leased[d] /\ cur'[d] = cur[d]
      BY <1>6 DEF Retry
    <2> HIDE DEF PTypeOK
    <2> QED BY <2>1, <2>2, <2>3, <2>4
  <1>7. ASSUME NEW c \in Consumers, GiveUp(c) PROVE Somewhere(n)'
    <2>1. UNCHANGED <<queue, effects>> /\ ended \subseteq ended'
      BY <1>7 DEF GiveUp
    <2>2. leased[c] /\ cur[c] = n => n \in ended'
      BY <1>7 DEF GiveUp
    <2>3. \A d \in Consumers \ {c} : leased'[d] = leased[d] /\ cur'[d] = cur[d]
      BY <1>7 DEF GiveUp
    <2> HIDE DEF PTypeOK
    <2> QED BY <2>1, <2>2, <2>3
  <1>8. ASSUME NEW c \in Consumers, Lapse(c) \/ Crash(c) PROVE Somewhere(n)'
    <2>1. \A a \in Attempts : queue[<<n, a>>] > 0 => queue'[<<n, a>>] > 0
      BY <1>8, ReturnGrows, QueueNat DEF Grown, Grows
    <2>2. leased[c] /\ cur[c] = n => \E a \in Attempts : queue'[<<n, a>>] > 0
      BY <1>8, ReturnGrows, QueueNat DEF Grown, Grows
    <2>3. UNCHANGED <<effects, ended>>
      BY <1>8 DEF Lapse, Crash
    <2>4. \A d \in Consumers \ {c} : leased'[d] = leased[d] /\ cur'[d] = cur[d]
      BY <1>8 DEF Lapse, Crash
    <2> HIDE DEF PTypeOK
    <2> QED BY <2>1, <2>2, <2>3, <2>4
  <1>9. ASSUME NEW c \in Consumers, Wrapped(c) PROVE Somewhere(n)'
    <2>1. UNCHANGED <<queue, ended, leased, cur>>
      BY <1>9 DEF Wrapped, Seen, HandlerReturns, HandlerRaises, Remember, StoreFails
    <2>2. effects[n] > 0 => effects'[n] > 0
      <3>1. CASE HandlerReturns(c)
        BY <3>1 DEF HandlerReturns
      <3>2. CASE ~HandlerReturns(c)
        BY <1>9, <3>2 DEF Wrapped, Seen, HandlerRaises, Remember, StoreFails
      <3> QED BY <3>1, <3>2
    <2> HIDE DEF PTypeOK
    <2> QED BY <2>1, <2>2
  <1> QED BY <1>1, <1>2, <1>3, <1>4, <1>5, <1>6, <1>7, <1>8, <1>9 DEF PNext

LEMMA PlacedKept ==
  ASSUME PTypeOK, PTypeOK', EffectFirst, Placed, PNext
  PROVE  Placed'
  <1>1. \A n \in Rows : Somewhere(n) => Somewhere(n)'
    BY StaysSomewhere
  <1>2. CASE UNCHANGED <<published, accepted>>
    BY <1>1, <1>2 DEF PTypeOK, Placed
  <1>3. ASSUME NEW r \in Relays, Relay(r) PROVE Placed'
    <2>1. CASE Accept(r) /\ Published(r)
      <3>1. PICK n \in Rows : n = Current(r)
        BY <2>1, CurrentFetched DEF Accept
      <3>2. Somewhere(n)'
        <4>1. queue' = More(queue, <<n, 0>>) /\ 0 \in Attempts /\ queue \in [Copies -> Nat]
          BY <2>1, <3>1, AttemptsAre DEF Published, PTypeOK
        <4>2. queue'[<<n, 0>>] > 0
          BY <4>1, OneMore DEF Grows
        <4> QED BY <4>1, <4>2 DEF Somewhere
      <3>3. published' = published /\ accepted' = [accepted EXCEPT ![r] = @ \cup {n}]
        BY <2>1, <3>1 DEF Accept
      <3> QED BY <1>1, <3>2, <3>3 DEF PTypeOK, Placed
    <2>2. CASE Reject(r) \/ StartDrain(r) \/ Fetch(r)
      BY <1>2, <2>2 DEF Reject, StartDrain, Fetch
    <2>3. CASE MarkPublished(r) \/ Abort(r)
      BY <1>1, <2>3 DEF PTypeOK, Placed, MarkPublished, Marked, Abort, Leave
    <2> QED BY <1>3, <2>1, <2>2, <2>3 DEF Relay
  <1>4. ASSUME NEW n \in Rows, Commit(n) PROVE UNCHANGED <<published, accepted>>
    BY <1>4 DEF Commit, Write
  <1>5. ASSUME NEW s \in Stores, NEW n \in Rows, Forget(s, n) PROVE UNCHANGED <<published, accepted>>
    BY <1>5 DEF Forget
  <1>6. ASSUME NEW c \in Consumers,
               Take(c) \/ Wrapped(c) \/ Ack(c) \/ Retry(c) \/ GiveUp(c) \/ Lapse(c) \/ Crash(c)
        PROVE  UNCHANGED <<published, accepted>>
    BY <1>6 DEF Take, Wrapped, Seen, HandlerReturns, HandlerRaises, Remember, StoreFails, Ack, Retry,
                GiveUp, Lapse, Crash
  <1> QED BY <1>2, <1>3, <1>4, <1>5, <1>6 DEF PNext

-----------------------------------------------------------------------------
(* The attempts of a copy                                                       *)

(* Failures are only added.                                                     *)
LEMMA FailuresGrow ==
  ASSUME PTypeOK, PNext
  PROVE  \A n \in Rows : failures'[n] \in Nat /\ failures'[n] >= failures[n]
  <1> USE DEF PTypeOK
  <1>1. CASE UNCHANGED failures
    BY <1>1
  <1>2. ASSUME NEW c \in Consumers, cur[c] \in Rows, failures' = More(failures, cur[c])
        PROVE  \A n \in Rows : failures'[n] \in Nat /\ failures'[n] >= failures[n]
    BY <1>2
  <1>3. ASSUME NEW c \in Consumers, Lapse(c) \/ Crash(c)
        PROVE  failures' = failures \/ (cur[c] \in Rows /\ failures' = More(failures, cur[c]))
    BY <1>3 DEF Lapse, Crash, AttemptCounted
  <1>4. ASSUME NEW c \in Consumers, HandlerRaises(c) \/ StoreFails(c)
        PROVE  cur[c] \in Rows /\ failures' = More(failures, cur[c])
    BY <1>4 DEF HandlerRaises, StoreFails
  <1>5. ASSUME NEW c \in Consumers,
               Take(c) \/ Seen(c) \/ HandlerReturns(c) \/ Remember(c) \/ Ack(c) \/ Retry(c) \/ GiveUp(c)
        PROVE  UNCHANGED failures
    BY <1>5 DEF Take, Seen, HandlerReturns, Remember, Ack, Retry, GiveUp
  <1>6. ASSUME NEW r \in Relays, Relay(r) PROVE UNCHANGED failures
    BY <1>6 DEF Relay
  <1>7. ASSUME NEW n \in Rows, Commit(n) PROVE UNCHANGED failures
    BY <1>7 DEF Commit
  <1>8. ASSUME NEW s \in Stores, NEW n \in Rows, Forget(s, n) PROVE UNCHANGED failures
    BY <1>8 DEF Forget
  <1> QED BY <1>1, <1>2, <1>3, <1>4, <1>5, <1>6, <1>7, <1>8 DEF PNext, Wrapped

(* A copy put in whose attempts have failed keeps the account of the queue.      *)
LEMMA QueueCounted ==
  ASSUME PTypeOK, FailuresCounted, \A n \in Rows : failures'[n] \in Nat /\ failures'[n] >= failures[n],
         NEW m \in Rows, NEW b \in Attempts, b <= failures'[m], Grown(m, b)
  PROVE  \A n \in Rows, a \in Attempts : queue'[<<n, a>>] > 0 => a <= failures'[n]
  <1> SUFFICES ASSUME NEW n \in Rows, NEW a \in Attempts, queue'[<<n, a>>] > 0 PROVE a <= failures'[n]
    OBVIOUS
  <1>1. a \in Nat /\ failures[n] \in Nat /\ failures'[n] \in Nat /\ failures'[n] >= failures[n]
    BY AttemptsAre DEF PTypeOK
  <1>2. CASE n = m /\ a = b
    BY <1>2
  <1>3. CASE ~(n = m /\ a = b)
    <2>1. queue'[<<n, a>>] = queue[<<n, a>>]
      BY <1>3 DEF Grown, Grows
    <2>2. queue[<<n, a>>] > 0
      BY <2>1, QueueNat
    <2> QED BY <1>1, <2>2 DEF FailuresCounted
  <1> QED BY <1>2, <1>3

LEMMA FailuresKept ==
  ASSUME PTypeOK, PTypeOK', FailuresCounted, PNext
  PROVE  FailuresCounted'
  <1>a. \A n \in Rows : /\ failures[n] \in Nat /\ failures'[n] \in Nat
                        /\ failures'[n] >= failures[n]
    BY FailuresGrow DEF PTypeOK
  <1>b. MaxAttempts \in Nat /\ 0 \in Attempts /\ Attempts \subseteq Nat
    BY AttemptsAre
  <1>c. \A c \in Consumers : tries[c] \in Nat
    BY <1>b DEF PTypeOK
  <1> DEFINE OfQueue    == \A n \in Rows, a \in Attempts : queue[<<n, a>>] > 0 => a <= failures[n]
             OfConsumer(c) ==
               cpc[c] # "idle" => tries[c] + (IF cpc[c] = "retry" THEN 1 ELSE 0) <= failures[cur[c]]
             OfEnded    == \A n \in ended : failures[n] >= MaxAttempts
  <1>d. OfQueue /\ OfEnded /\ \A c \in Consumers : OfConsumer(c)
    BY DEF FailuresCounted
  <1>e. ended' = ended => OfEnded'
    BY <1>a, <1>b, <1>d DEF PTypeOK
  <1>f. queue' = queue => OfQueue'
    BY <1>a, <1>b, <1>d DEF PTypeOK
  <1>g. ASSUME NEW d \in Consumers, UNCHANGED <<cpc[d], cur[d], tries[d]>> PROVE OfConsumer(d)'
    BY <1>a, <1>c, <1>d, <1>g DEF PTypeOK
  <1>h. OfQueue' /\ OfEnded' /\ (\A c \in Consumers : OfConsumer(c)') => FailuresCounted'
    BY DEF FailuresCounted
  <1>1. CASE UNCHANGED <<consumer, ended>> /\ OfQueue'
    BY <1>1, <1>e, <1>g, <1>h
  <1>2. ASSUME NEW r \in Relays, Relay(r) PROVE UNCHANGED <<consumer, ended>> /\ OfQueue'
    <2>1. queue' = queue \/ (Current(r) \in Rows /\ Grown(Current(r), 0))
      BY <1>2, RelayGrows
    <2>2. ASSUME Current(r) \in Rows, Grown(Current(r), 0) PROVE OfQueue'
      <3>1. 0 <= failures'[Current(r)]
        BY <1>a, <2>2
      <3> QED BY <1>a, <1>b, <2>2, <3>1, QueueCounted
    <2> QED BY <1>2, <1>f, <2>1, <2>2 DEF Relay
  <1>3. ASSUME NEW n \in Rows, Commit(n) PROVE UNCHANGED <<consumer, ended>> /\ OfQueue'
    BY <1>3, <1>f DEF Commit
  <1>4. ASSUME NEW s \in Stores, NEW n \in Rows, Forget(s, n) PROVE UNCHANGED <<consumer, ended>> /\ OfQueue'
    BY <1>4, <1>f DEF Forget
  <1>5. ASSUME NEW c \in Consumers, Take(c) PROVE FailuresCounted'
    <2>1. PICK n \in Rows, a \in Attempts :
            /\ queue[<<n, a>>] > 0 /\ queue' = [queue EXCEPT ![<<n, a>>] = @ - 1]
            /\ cur' = [cur EXCEPT ![c] = n] /\ tries' = [tries EXCEPT ![c] = a]
      BY <1>5 DEF Take
    <2>2. UNCHANGED <<ended, failures>> /\ cpc' = [cpc EXCEPT ![c] = "seen"]
      BY <1>5 DEF Take
    <2>3. \A m \in Rows, b \in Attempts : queue'[<<m, b>>] <= queue[<<m, b>>]
      <3> SUFFICES ASSUME NEW m \in Rows, NEW b \in Attempts PROVE queue'[<<m, b>>] <= queue[<<m, b>>]
        OBVIOUS
      <3>1. queue[<<m, b>>] \in Nat /\ <<m, b>> \in Copies
        BY QueueNat DEF Copies
      <3>2. CASE m = n /\ b = a
        <4>1. queue'[<<m, b>>] = queue[<<m, b>>] - 1
          BY <2>1, <3>1, <3>2 DEF PTypeOK
        <4> QED BY <3>1, <4>1
      <3>3. CASE ~(m = n /\ b = a)
        <4>1. queue'[<<m, b>>] = queue[<<m, b>>]
          BY <2>1, <3>3 DEF PTypeOK
        <4> QED BY <3>1, <4>1
      <3> QED BY <3>2, <3>3
    <2>4. OfQueue'
      <3> SUFFICES ASSUME NEW m \in Rows, NEW b \in Attempts, queue'[<<m, b>>] > 0
                   PROVE  b <= failures'[m]
        OBVIOUS
      <3>1. queue[<<m, b>>] \in Nat /\ queue'[<<m, b>>] \in Int
        BY QueueNat, <2>1 DEF PTypeOK, Copies
      <3>2. queue[<<m, b>>] > 0
        BY <2>3, <3>1
      <3> QED BY <1>d, <2>2, <3>2
    <2>5. OfConsumer(c)'
      <3>1. a <= failures[n]
        BY <1>d, <2>1
      <3> QED BY <1>a, <1>b, <2>1, <2>2, <3>1 DEF PTypeOK
    <2>6. \A d \in Consumers \ {c} : OfConsumer(d)'
      BY <1>g, <2>1, <2>2 DEF PTypeOK
    <2> QED BY <1>e, <1>h, <2>2, <2>4, <2>5, <2>6
  <1>6. ASSUME NEW c \in Consumers, Ack(c) \/ GiveUp(c) PROVE FailuresCounted'
    <2>1. OfQueue'
      BY <1>6, <1>f DEF Ack, GiveUp
    <2>2. \A d \in Consumers : OfConsumer(d)'
      <3>1. OfConsumer(c)'
        BY <1>6 DEF Ack, GiveUp, PTypeOK
      <3>2. \A d \in Consumers \ {c} : OfConsumer(d)'
        BY <1>6, <1>g DEF Ack, GiveUp, PTypeOK
      <3> QED BY <3>1, <3>2
    <2>3. OfEnded'
      <3>1. CASE UNCHANGED ended
        BY <1>e, <3>1
      <3>2. CASE GiveUp(c)
        <4>1. failures[cur[c]] >= MaxAttempts /\ ended' \subseteq ended \cup {cur[c]} /\ failures' = failures
          <5>1. cpc[c] = "retry" /\ tries[c] + 1 >= MaxAttempts
            BY <3>2 DEF GiveUp, LastAttempt
          <5>2. tries[c] + 1 <= failures[cur[c]] /\ cur[c] \in Rows
            BY <1>d, <5>1 DEF PTypeOK
          <5> QED BY <1>a, <1>b, <1>c, <3>2, <5>1, <5>2 DEF GiveUp
        <4> QED BY <1>d, <4>1
      <3> QED BY <1>6, <3>1, <3>2 DEF Ack
    <2> QED BY <1>h, <2>1, <2>2, <2>3
  <1>7. ASSUME NEW c \in Consumers, Retry(c) PROVE FailuresCounted'
    <2>1. OfQueue'
      <3>1. tries[c] + 1 <= failures'[cur[c]] /\ cur[c] \in Rows /\ tries[c] + 1 \in Attempts
        BY <1>7, <1>d, RetryGrows DEF Retry
      <3>2. Grown(cur[c], tries[c] + 1) => OfQueue'
        BY <1>a, <3>1, QueueCounted
      <3> QED BY <1>7, <1>f, <3>2, RetryGrows
    <2>2. \A d \in Consumers : OfConsumer(d)'
      <3>1. OfConsumer(c)'
        BY <1>7 DEF Retry, PTypeOK
      <3>2. \A d \in Consumers \ {c} : OfConsumer(d)'
        BY <1>7, <1>g DEF Retry, PTypeOK
      <3> QED BY <3>1, <3>2
    <2> QED BY <1>7, <1>e, <1>h, <2>1, <2>2 DEF Retry
  <1>8. ASSUME NEW c \in Consumers, Lapse(c) \/ Crash(c) PROVE FailuresCounted'
    <2>1. OfQueue'
      <3>1. CASE ~leased[c]
        BY <1>8, <1>f, <3>1, ReturnGrows
      <3>2. CASE leased[c]
        <4>1. cur[c] \in Rows /\ Unsettled(c) \in Attempts /\ Grown(cur[c], Unsettled(c))
          BY <1>8, <3>2, ReturnGrows
        <4>2. cpc[c] # "idle" /\ tries[c] <= failures[cur[c]] /\ tries[c] \in Attempts
          BY <1>a, <1>c, <1>d, <3>2 DEF PTypeOK
        <4>3. failures'[cur[c]] = failures[cur[c]] + (IF counts THEN 1 ELSE 0)
          BY <1>8, <3>2, <4>1 DEF Lapse, Crash, AttemptCounted, PTypeOK
        <4>4. Unsettled(c) <= tries[c] + (IF counts THEN 1 ELSE 0)
          BY <1>c, <4>2, PipelineAssumption DEF Unsettled, Counted
        <4>5. Unsettled(c) <= failures'[cur[c]]
          <5>1. Unsettled(c) \in Nat /\ tries[c] \in Nat /\ failures[cur[c]] \in Nat
            BY <1>a, <1>b, <4>1, <4>2
          <5> HIDE <1>a, <1>b, <1>c
          <5> QED BY <5>1, <4>2, <4>3, <4>4
        <4> QED BY <1>a, <4>1, <4>5, QueueCounted
      <3> QED BY <3>1, <3>2
    <2>2. \A d \in Consumers : OfConsumer(d)'
      <3>1. CASE Lapse(c)
        BY <1>g, <3>1 DEF Lapse, PTypeOK
      <3>2. CASE Crash(c)
        <4>1. OfConsumer(c)'
          BY <3>2 DEF Crash, PTypeOK
        <4>2. \A d \in Consumers \ {c} : OfConsumer(d)'
          BY <1>g, <3>2 DEF Crash, PTypeOK
        <4> QED BY <4>1, <4>2
      <3> QED BY <1>8, <3>1, <3>2
    <2> QED BY <1>8, <1>e, <1>h, <2>1, <2>2 DEF Lapse, Crash
  <1>9. ASSUME NEW c \in Consumers, Seen(c) \/ HandlerReturns(c) \/ Remember(c) PROVE FailuresCounted'
    <2>1. /\ UNCHANGED <<queue, ended, failures, cur, tries>> /\ cpc[c] \notin {"idle", "retry"}
          /\ cpc'[c] # "retry" /\ \A d \in Consumers \ {c} : cpc'[d] = cpc[d]
      BY <1>9 DEF Seen, HandlerReturns, Remember, PTypeOK
    <2>2. OfConsumer(c)'
      BY <1>d, <2>1
    <2>3. \A d \in Consumers \ {c} : OfConsumer(d)'
      BY <1>g, <2>1
    <2> QED BY <1>e, <1>f, <1>h, <2>1, <2>2, <2>3
  <1>10. ASSUME NEW c \in Consumers, HandlerRaises(c) \/ StoreFails(c) PROVE FailuresCounted'
    <2>1. /\ UNCHANGED <<queue, ended, cur, tries>> /\ cpc[c] \notin {"idle", "retry"}
          /\ cpc'[c] = "retry" /\ \A d \in Consumers \ {c} : cpc'[d] = cpc[d]
          /\ cur[c] \in Rows /\ failures'[cur[c]] = failures[cur[c]] + 1
      BY <1>10 DEF HandlerRaises, StoreFails, PTypeOK
    <2>2. OfConsumer(c)'
      <3>1. tries[c] + 0 <= failures[cur[c]]
        BY <1>d, <2>1
      <3> QED BY <1>a, <1>c, <2>1, <3>1
    <2>3. \A d \in Consumers \ {c} : OfConsumer(d)'
      BY <1>g, <2>1
    <2> QED BY <1>e, <1>f, <1>h, <2>1, <2>2, <2>3
  <1> QED BY <1>1, <1>2, <1>3, <1>4, <1>5, <1>6, <1>7, <1>8, <1>9, <1>10 DEF PNext, Wrapped

-----------------------------------------------------------------------------
(* The account of runs                                                          *)

LEMMA RunningFinite ==
  ASSUME NEW n
  PROVE  /\ IsFiniteSet(Running(n)) /\ Cardinality(Running(n)) \in Nat
         /\ Cardinality(Running(n)') \in Nat
  <1>1. Running(n) \in SUBSET Consumers /\ Running(n)' \in SUBSET Consumers
    BY DEF Running
  <1>2. IsFiniteSet(Running(n)) /\ IsFiniteSet(Running(n)')
    BY <1>1, FS_Subset, PipelineAssumption
  <1> QED BY <1>2, FS_CardinalityType

(* Only the consumer that steps can stop running its handler ...                *)
LEMMA Stops ==
  ASSUME NEW c \in Consumers, cpc'[c] # "handle",
         \A d \in Consumers \ {c} : cpc'[d] = cpc[d] /\ cur'[d] = cur[d], NEW n
  PROVE  Cardinality(Running(n)') =
           IF cpc[c] = "handle" /\ cur[c] = n THEN Cardinality(Running(n)) - 1 ELSE Cardinality(Running(n))
  <1>1. Running(n)' = Running(n) \ {c}
    BY DEF Running
  <1>2. c \in Running(n) <=> cpc[c] = "handle" /\ cur[c] = n
    BY DEF Running
  <1> QED BY <1>1, <1>2, RunningFinite, FS_RemoveElement

(* ... or start it.                                                             *)
LEMMA Starts ==
  ASSUME NEW c \in Consumers, cpc[c] # "handle", cpc'[c] = "handle", cur' = cur,
         \A d \in Consumers \ {c} : cpc'[d] = cpc[d], NEW n
  PROVE  Cardinality(Running(n)') =
           IF cur[c] = n THEN Cardinality(Running(n)) + 1 ELSE Cardinality(Running(n))
  <1>1. Running(n)' = IF cur[c] = n THEN Running(n) \cup {c} ELSE Running(n)
    BY DEF Running
  <1>2. c \notin Running(n)
    BY DEF Running
  <1> QED BY <1>1, <1>2, RunningFinite, FS_AddElement

LEMMA RunsKept ==
  ASSUME PTypeOK, PTypeOK', EffectFirst, RunsAccounted, PNext
  PROVE  RunsAccounted'
  <1> SUFFICES ASSUME NEW n \in Rows \ noId'
               PROVE  effects'[n] + Cardinality(Running(n)') <= excuse'[n] + (IF Known(n)' THEN 1 ELSE 0)
    BY DEF RunsAccounted
  <1>a. n \in Rows \ noId
    BY DEF PNext, Commit, Relay, Take, Wrapped, Seen, HandlerReturns, HandlerRaises, Remember,
           StoreFails, Ack, Retry, GiveUp, Lapse, Crash, Forget
  <1>b. effects[n] + Cardinality(Running(n)) <= excuse[n] + (IF Known(n) THEN 1 ELSE 0)
    BY <1>a DEF RunsAccounted
  <1>c. Cardinality(Running(n)) \in Nat /\ Cardinality(Running(n)') \in Nat
    BY RunningFinite
  <1>d. effects[n] \in Nat /\ excuse[n] \in Nat /\ Common \notin Consumers
    BY <1>a, PipelineAssumption DEF PTypeOK
  <1> USE <1>a, <1>b, <1>c, <1>d DEF PTypeOK
  <1>1. CASE UNCHANGED <<config, remembered, consumer, effects, excuse>>
    BY <1>1 DEF Known, Running
  <1>2. ASSUME NEW s \in Stores, NEW m \in Rows, Forget(s, m)
        PROVE  effects'[n] + Cardinality(Running(n)') <= excuse'[n] + (IF Known(n)' THEN 1 ELSE 0)
    <2>1. Running(n)' = Running(n)
      BY <1>2 DEF Forget, Running
    <2>2. CASE m = n
      BY <1>2, <2>1, <2>2 DEF Forget
    <2>3. CASE m # n
      BY <1>2, <2>1, <2>3 DEF Forget, Known
    <2> QED BY <2>2, <2>3
  <1>3. ASSUME NEW c \in Consumers, Take(c) \/ Ack(c) \/ Retry(c) \/ GiveUp(c) \/ Lapse(c)
        PROVE  effects'[n] + Cardinality(Running(n)') <= excuse'[n] + (IF Known(n)' THEN 1 ELSE 0)
    <2>1. Running(n)' = Running(n)
      BY <1>3 DEF Take, Ack, Retry, GiveUp, Lapse, Running
    <2>2. Known(n)' <=> Known(n)
      <3>1. UNCHANGED <<shared, remembered, effects>>
        BY <1>3 DEF Take, Ack, Retry, GiveUp, Lapse
      <3>2. \A d \in Consumers :
              /\ cpc'[d] \in {"handle", "remember"} <=> cpc[d] \in {"handle", "remember"}
              /\ cpc[d] \in {"handle", "remember"} => cur'[d] = cur[d]
        BY <1>3 DEF Take, Ack, Retry, GiveUp, Lapse
      <3>3. (\E d \in Consumers : cpc[d] \in {"handle", "remember"} /\ cur[d] = n)
              <=> (\E d \in Consumers : cpc'[d] \in {"handle", "remember"} /\ cur'[d] = n)
        BY <3>2
      <3> QED BY <3>1, <3>3, Zenon DEF Known
    <2> QED BY <1>3, <2>1, <2>2 DEF Take, Ack, Retry, GiveUp, Lapse
  <1>4. ASSUME NEW c \in Consumers, Crash(c)
        PROVE  effects'[n] + Cardinality(Running(n)') <= excuse'[n] + (IF Known(n)' THEN 1 ELSE 0)
    <2>1. Cardinality(Running(n)') =
            IF cpc[c] = "handle" /\ cur[c] = n THEN Cardinality(Running(n)) - 1 ELSE Cardinality(Running(n))
      BY <1>4, Stops DEF Crash
    <2>2. CASE cur[c] = n /\ cpc[c] \in {"handle", "remember"}
      BY <1>4, <2>1, <2>2 DEF Crash
    <2>3. CASE ~(cur[c] = n /\ cpc[c] \in {"handle", "remember"})
      <3>1. Known(n)' <=> Known(n)
        BY <1>4, <2>3 DEF Crash, Known
      <3>2. effects'[n] = effects[n] /\ excuse'[n] >= excuse[n]
        BY <1>4 DEF Crash
      <3> QED BY <2>1, <2>3, <3>1, <3>2
    <2> QED BY <2>2, <2>3
  <1>5. ASSUME NEW c \in Consumers, Seen(c)
        PROVE  effects'[n] + Cardinality(Running(n)') <= excuse'[n] + (IF Known(n)' THEN 1 ELSE 0)
    <2>1. CASE cpc'[c] = "ack"
      <3>1. Running(n)' = Running(n) /\ (Known(n)' <=> Known(n))
        BY <1>5, <2>1 DEF Seen, Running, Known
      <3> QED BY <1>5, <2>1, <3>1 DEF Seen
    <2>2. CASE cpc'[c] = "handle" /\ cur[c] # n
      <3>1. Cardinality(Running(n)') = Cardinality(Running(n))
        BY <1>5, <2>2, Starts DEF Seen
      <3>2. Known(n)' <=> Known(n)
        BY <1>5, <2>2 DEF Seen, Known
      <3> QED BY <1>5, <2>2, <3>1, <3>2 DEF Seen
    <2>3. CASE cpc'[c] = "handle" /\ cur[c] = n
      <3>1. Cardinality(Running(n)') = Cardinality(Running(n)) + 1
        BY <1>5, <2>3, Starts DEF Seen
      <3>2. Known(n)'
        BY <1>5, <2>3 DEF Seen, Known
      <3>3. Known(n) => Unseen(c)
        BY <1>5, <2>3 DEF Seen, Known, Unseen, StoreOf
      <3> QED BY <1>5, <2>3, <3>1, <3>2, <3>3 DEF Seen
    <2> QED BY <1>5, <2>1, <2>2, <2>3 DEF Seen
  <1>6. ASSUME NEW c \in Consumers, HandlerReturns(c)
        PROVE  effects'[n] + Cardinality(Running(n)') <= excuse'[n] + (IF Known(n)' THEN 1 ELSE 0)
    <2>1. Cardinality(Running(n)') =
            IF cur[c] = n THEN Cardinality(Running(n)) - 1 ELSE Cardinality(Running(n))
      BY <1>6, Stops DEF HandlerReturns
    <2>2. CASE cur[c] = n
      <3>1. Known(n)'
        BY <1>6, <2>2 DEF HandlerReturns, Known
      <3> QED BY <1>6, <2>1, <2>2, <3>1 DEF HandlerReturns
    <2>3. CASE cur[c] # n
      <3>1. Known(n)' <=> Known(n)
        BY <1>6, <2>3 DEF HandlerReturns, Known
      <3> QED BY <1>6, <2>1, <2>3, <3>1 DEF HandlerReturns
    <2> QED BY <2>2, <2>3
  <1>7. ASSUME NEW c \in Consumers, HandlerRaises(c) \/ StoreFails(c)
        PROVE  effects'[n] + Cardinality(Running(n)') <= excuse'[n] + (IF Known(n)' THEN 1 ELSE 0)
    <2>1. Cardinality(Running(n)') =
            IF cpc[c] = "handle" /\ cur[c] = n THEN Cardinality(Running(n)) - 1 ELSE Cardinality(Running(n))
      BY <1>7, Stops DEF HandlerRaises, StoreFails
    <2>2. CASE cur[c] = n /\ cpc[c] \in {"handle", "remember"}
      BY <1>7, <2>1, <2>2 DEF HandlerRaises, StoreFails
    <2>3. CASE ~(cur[c] = n /\ cpc[c] \in {"handle", "remember"})
      <3>1. Known(n)' <=> Known(n)
        BY <1>7, <2>3 DEF HandlerRaises, StoreFails, Known
      <3>2. effects'[n] = effects[n] /\ excuse'[n] = excuse[n]
        BY <1>7, <2>3 DEF HandlerRaises, StoreFails
      <3> QED BY <2>1, <2>3, <3>1, <3>2
    <2> QED BY <2>2, <2>3
  <1>8. ASSUME NEW c \in Consumers, Remember(c)
        PROVE  effects'[n] + Cardinality(Running(n)') <= excuse'[n] + (IF Known(n)' THEN 1 ELSE 0)
    <2>1. Running(n)' = Running(n)
      BY <1>8 DEF Remember, Running
    <2>2. Known(n) => Known(n)'
      <3>1. CASE cur[c] = n
        BY <1>8, <3>1 DEF Remember, Known, StoreOf, EffectFirst
      <3>2. CASE cur[c] # n
        BY <1>8, <3>2 DEF Remember, Known, StoreOf
      <3> QED BY <3>1, <3>2
    <2> QED BY <1>8, <2>1, <2>2 DEF Remember
  <1>9. ASSUME NEW r \in Relays, Relay(r) PROVE UNCHANGED <<config, remembered, consumer, effects, excuse>>
    BY <1>9 DEF Relay
  <1>10. ASSUME NEW m \in Rows, Commit(m) PROVE UNCHANGED <<config, remembered, consumer, effects, excuse>>
    BY <1>10 DEF Commit
  <1> QED BY <1>1, <1>2, <1>3, <1>4, <1>5, <1>6, <1>7, <1>8, <1>9, <1>10 DEF PNext, Wrapped

-----------------------------------------------------------------------------
(* Theorems                                                                     *)

(* The inductive invariant of outbox, broker and idempotent consumers.          *)
THEOREM PipelineInvariant == PSpec => []PInv
  <1>1. PInit => PInv
    <2> SUFFICES ASSUME PInit PROVE PInv
      OBVIOUS
    <2>a. noId \subseteq Rows /\ shared \in BOOLEAN
      BY PipelineAssumption DEF PInit
    <2>1. PTypeOK
      BY <2>a, AttemptsAre DEF PInit, Init, PTypeOK
    <2>2. Placed /\ EffectFirst /\ FailuresCounted
      BY QueueNat, <2>1 DEF PInit, Init, Placed, EffectFirst, FailuresCounted, Copies
    <2>3. \A n \in Rows : Running(n) = {}
      BY DEF PInit, Running
    <2>4. RunsAccounted
      BY <2>3, FS_EmptySet DEF PInit, RunsAccounted
    <2> QED BY <2>1, <2>2, <2>4 DEF PInv
  <1>2. PInv /\ [PNext]_allVars => PInv'
    <2> SUFFICES ASSUME PInv, [PNext]_allVars PROVE PInv'
      OBVIOUS
    <2>1. CASE PNext
      BY <2>1, TypesKept, EffectFirstKept, PlacedKept, FailuresKept, RunsKept DEF PInv
    <2>2. CASE UNCHANGED allVars
      <3>1. PTypeOK' /\ Placed' /\ EffectFirst'
        BY <2>2 DEF allVars, PInv, PTypeOK, Placed, Somewhere, EffectFirst
      <3>2. FailuresCounted'
        BY <2>2 DEF allVars, PInv, FailuresCounted
      <3>3. \A n \in Rows : Running(n)' = Running(n) /\ (Known(n)' <=> Known(n))
        BY <2>2 DEF allVars, Running, Known
      <3>4. RunsAccounted'
        BY <2>2, <3>3 DEF allVars, PInv, RunsAccounted
      <3> QED BY <3>1, <3>2, <3>4 DEF PInv
    <2> QED BY <2>1, <2>2
  <1> QED BY <1>1, <1>2, PTL DEF PSpec

(* No message whose row is marked published is gone before its handler returned,  *)
(* but for one of which max_attempts attempts failed.                           *)
THEOREM PublishedIsHandled == PSpec => []NothingUnhandled
  <1>1. PInv => NothingUnhandled
    BY DEF PInv, PTypeOK, Placed, Somewhere, FailuresCounted, NothingUnhandled, GivenUp
  <1> QED BY <1>1, PipelineInvariant, PTL

(* A handler's effect is repeated only for a cause the store cannot see.        *)
THEOREM EffectsAccounted == PSpec => []EffectsHaveACause
  <1>1. PInv => EffectsHaveACause
    <2> SUFFICES ASSUME PInv, NEW n \in Rows \ noId PROVE effects[n] <= 1 + excuse[n]
      BY DEF EffectsHaveACause
    <2>1. effects[n] \in Nat /\ excuse[n] \in Nat /\ Cardinality(Running(n)) \in Nat
      BY RunningFinite DEF PInv, PTypeOK
    <2> QED BY <2>1 DEF PInv, RunsAccounted
  <1> QED BY <1>1, PipelineInvariant, PTL

(* Whatever the consumers and the broker do, the relays keep to Outbox.         *)
THEOREM RelaysKeepOutbox == PSpec => Spec
  <1>1. PInit => Init
    BY DEF PInit
  <1> QED BY <1>1, StepKeepsOutbox, PTL DEF PSpec, Spec

=============================================================================
