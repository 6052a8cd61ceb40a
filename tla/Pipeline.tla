------------------------------ MODULE Pipeline ------------------------------
(***************************************************************************)
(* From the business transaction to the effect of the handler: the outbox  *)
(* and its relays (module Outbox) publish each row at least once, a broker  *)
(* delivers each copy at least once, and the consumers' handlers are wrapped *)
(* by idempotency.wrap(), which asks the store, runs the handler and tells  *)
(* the store in three separate steps.  An attempt that fails is retried; the *)
(* copy that has failed max_attempts times is dead-lettered or dropped.      *)
(*                                                                         *)
(* The broker is what module LeasedQueue promises, without its order: a     *)
(* copy is available or leased, a lapsed lease makes it available again and *)
(* an ack under a lapsed lease does nothing.  A settlement that fails leaves *)
(* its delivery to the broker, as one whose lease lapsed before.  A row      *)
(* stands for the message it holds and for its meta.id; a copy is its row    *)
(* and its attempts.                                                        *)
(***************************************************************************)
EXTENDS Outbox

CONSTANTS
  Consumers,
  MayLackId,    (* rows whose message may have no usable meta.id                *)
  Nobody,       (* the row a consumer without a delivery works on               *)
  Common,       (* the store a fleet shares; a consumer names its own           *)
                (* InMemoryStore                                                *)
  MaxAttempts,  (* max_attempts                                                 *)
  MaxFaults     (* bound: handlers and stores that fail, lapses, crashes,       *)
                (* forget()                                                     *)

ASSUME PipelineAssumption ==
  /\ MayLackId \subseteq Rows /\ Nobody \notin Rows /\ Common \notin Consumers
  /\ IsFiniteSet(Consumers) /\ {MaxAttempts, MaxFaults} \subseteq Nat

VARIABLES
  noId,         (* the rows without a usable meta.id; never changes              *)
  shared,       (* one persistent store for all, or an InMemoryStore in each    *)
                (* process; never changes                                       *)
  counts,       (* the broker counts a delivery that lapses as an attempt;      *)
                (* never changes                                                *)
  remembered,   (* stores -> ids remembered                                     *)
  queue,        (* Copies -> how many are available                             *)
  cpc,          (* Consumers -> "idle", in wrapped() "seen", "handle",          *)
                (* "remember"; then the runtime's "ack" or "retry"              *)
  cur,          (* Consumers -> the row delivered                               *)
  tries,        (* Consumers -> the attempts of the copy delivered              *)
  leased,       (* Consumers -> its lease stands                                *)
  ended,        (* rows of which a copy was dead-lettered or dropped            *)
  effects,      (* Rows -> handlers that returned                               *)
  failures,     (* history: Rows -> attempts that failed                        *)
  excuse,       (* history: Rows -> runs the store could not prevent            *)
  faults

consumer == <<cpc, cur, tries, leased>>
config == <<noId, shared, counts>>
delivery == <<config, remembered, queue, consumer, ended, effects, failures, excuse, faults>>
relayVars == vars
allVars == <<relayVars, delivery>>

(* From MaxAttempts on, one count is like another.                              *)
Attempts == 0 .. MaxAttempts
Copies == Rows \X Attempts
Counted(a) == IF a < MaxAttempts THEN a + 1 ELSE a

PInit ==
  /\ Init
  /\ noId \in SUBSET MayLackId
  /\ shared \in BOOLEAN /\ (noId # {} => shared)
  /\ counts \in BOOLEAN
  /\ remembered = [s \in Consumers \cup {Common} |-> {}]
  /\ queue = [copy \in Copies |-> 0]
  /\ cpc = [c \in Consumers |-> "idle"]
  /\ cur = [c \in Consumers |-> Nobody]
  /\ tries = [c \in Consumers |-> 0]
  /\ leased = [c \in Consumers |-> FALSE]
  /\ ended = {} /\ failures = [n \in Rows |-> 0]
  /\ effects = [n \in Rows |-> 0] /\ excuse = [n \in Rows |-> 0]
  /\ faults = 0

StoreOf(c) == IF shared THEN Common ELSE c
More(f, n) == [f EXCEPT ![n] = @ + 1]
Fault == faults < MaxFaults /\ faults' = faults + 1
Goto(c, place) == cpc' = [cpc EXCEPT ![c] = place]

(* The relays; publish() puts a copy into the broker, and a publish() that      *)
(* raised may have done so too.                                                 *)
Published(r) == queue' = More(queue, <<Current(r), 0>>)

Relay(r) ==
  /\ \/ Accept(r) /\ Published(r)
     \/ Reject(r) /\ (UNCHANGED queue \/ (Current(r) \notin Poison /\ Published(r)))
     \/ (StartDrain(r) \/ Fetch(r) \/ MarkPublished(r) \/ Abort(r)) /\ UNCHANGED queue
  /\ UNCHANGED <<config, remembered, consumer, ended, effects, failures, excuse, faults>>

Commit(n) == Write(n) /\ UNCHANGED delivery

-----------------------------------------------------------------------------
(* wrapped()                                                                    *)

Take(c) ==
  /\ cpc[c] = "idle"
  /\ \E n \in Rows, a \in Attempts :
       /\ queue[<<n, a>>] > 0
       /\ queue' = [queue EXCEPT ![<<n, a>>] = @ - 1]
       /\ cur' = [cur EXCEPT ![c] = n]
       /\ tries' = [tries EXCEPT ![c] = a]
  /\ leased' = [leased EXCEPT ![c] = TRUE]
  /\ Goto(c, "seen")
  /\ UNCHANGED <<relayVars, config, remembered, ended, effects, failures, excuse, faults>>

(* The store cannot know of a run that is still going on, nor of one another    *)
(* process remembered for itself.                                               *)
Unseen(c) ==
  \/ \E d \in Consumers \ {c} : cur[d] = cur[c] /\ cpc[d] \in {"handle", "remember"}
  \/ ~shared /\ effects[cur[c]] > 0

Seen(c) ==
  /\ cpc[c] = "seen"
  /\ IF cur[c] \notin noId /\ cur[c] \in remembered[StoreOf(c)]
     THEN Goto(c, "ack") /\ UNCHANGED excuse
     ELSE /\ Goto(c, "handle")
          /\ excuse' = IF Unseen(c) THEN More(excuse, cur[c]) ELSE excuse
  /\ UNCHANGED <<relayVars, config, remembered, queue, cur, tries, leased, ended, effects, failures, faults>>

HandlerReturns(c) ==
  /\ cpc[c] = "handle"
  /\ effects' = More(effects, cur[c])
  /\ Goto(c, IF cur[c] \in noId THEN "ack" ELSE "remember")
  /\ UNCHANGED <<relayVars, config, remembered, queue, cur, tries, leased, ended, failures, excuse, faults>>

MutHandlerRaises(c) ==
  /\ cpc[c] = "handle"
  /\ Goto(c, "retry") /\ Fault /\ failures' = More(failures, cur[c])
  /\ remembered' = [remembered EXCEPT ![StoreOf(c)] = @ \cup ({cur[c]} \ noId)]
  /\ UNCHANGED <<relayVars, config, queue, cur, tries, leased, ended, effects, excuse>>
HandlerRaises(c) ==
  /\ cpc[c] = "handle"
  /\ Goto(c, "retry") /\ Fault /\ failures' = More(failures, cur[c])
  /\ UNCHANGED <<relayVars, config, remembered, queue, cur, tries, leased, ended, effects, excuse>>

MutRemember(c) ==
  /\ cpc[c] = "remember"
  /\ Goto(c, "ack")
  /\ UNCHANGED <<relayVars, config, remembered, queue, cur, tries, leased, ended, effects, failures,
                 excuse, faults>>
Remember(c) ==
  /\ cpc[c] = "remember"
  /\ remembered' = [remembered EXCEPT ![StoreOf(c)] = @ \cup {cur[c]}]
  /\ Goto(c, "ack")
  /\ UNCHANGED <<relayVars, config, queue, cur, tries, leased, ended, effects, failures, excuse, faults>>

(* seen() or remember() raises: to the runtime a failed handler.                *)
StoreFails(c) ==
  /\ cpc[c] \in {"seen", "remember"} /\ cur[c] \notin noId
  /\ Goto(c, "retry") /\ Fault /\ failures' = More(failures, cur[c])
  /\ excuse' = IF cpc[c] = "remember" THEN More(excuse, cur[c]) ELSE excuse
  /\ UNCHANGED <<relayVars, config, remembered, queue, cur, tries, leased, ended, effects>>

(* forget(): an operator evicts an id, or the backend expires it.               *)
Forget(s, n) ==
  /\ n \in remembered[s]
  /\ remembered' = [remembered EXCEPT ![s] = @ \ {n}]
  /\ excuse' = More(excuse, n) /\ Fault
  /\ UNCHANGED <<relayVars, config, queue, consumer, ended, effects, failures>>

-----------------------------------------------------------------------------
(* The runtime and the broker                                                   *)

Done(c) ==
  /\ Goto(c, "idle")
  /\ cur' = [cur EXCEPT ![c] = Nobody] /\ tries' = [tries EXCEPT ![c] = 0]
  /\ leased' = [leased EXCEPT ![c] = FALSE]

(* The queue once the copy is back with these attempts, if it is still leased.   *)
Back(c, attempts) == IF leased[c] THEN More(queue, <<cur[c], attempts>>) ELSE queue

(* The handler returned, or the id was seen: the runtime acks.                  *)
Ack(c) ==
  /\ cpc[c] = "ack" /\ Done(c)
  /\ UNCHANGED <<relayVars, config, remembered, queue, ended, effects, failures, excuse, faults>>

(* _retry_or_dead_letter().  With attempts left the message is released; a late  *)
(* release does nothing, or publishes the copy before its ack finds no lease.    *)
MutLastAttempt(c) == Counted(tries[c]) + 1 >= MaxAttempts
LastAttempt(c) == tries[c] + 1 >= MaxAttempts

Retry(c) ==
  /\ cpc[c] = "retry" /\ ~LastAttempt(c) /\ Done(c)
  /\ \/ queue' = Back(c, tries[c] + 1)
     \/ ~leased[c] /\ queue' = More(queue, <<cur[c], tries[c] + 1>>)
  /\ UNCHANGED <<relayVars, config, remembered, ended, effects, failures, excuse, faults>>

(* Dead-lettered, or dropped where no dead-letter queue is configured; late, so  *)
(* may the write be.                                                            *)
GiveUp(c) ==
  /\ cpc[c] = "retry" /\ LastAttempt(c) /\ Done(c)
  /\ \/ ended' = ended \cup {cur[c]}
     \/ ~leased[c] /\ UNCHANGED ended
  /\ UNCHANGED <<relayVars, config, remembered, queue, effects, failures, excuse, faults>>

(* A delivery that ends without a settlement: the attempts its copy comes back   *)
(* with.                                                                        *)
Unsettled(c) == IF counts THEN Counted(tries[c]) ELSE tries[c]
AttemptCounted(c) == failures' = IF counts /\ leased[c] THEN More(failures, cur[c]) ELSE failures

Lapse(c) ==
  /\ leased[c] /\ Fault
  /\ queue' = Back(c, Unsettled(c))
  /\ leased' = [leased EXCEPT ![c] = FALSE]
  /\ AttemptCounted(c)
  /\ UNCHANGED <<relayVars, config, remembered, cpc, cur, tries, ended, effects, excuse>>

(* The process dies: its lease lapses in time, its own store is gone.  What it   *)
(* had handled and remembered nowhere else may be handled again.                *)
Crash(c) ==
  /\ cpc[c] # "idle" \/ (~shared /\ remembered[c] # {})
  /\ Fault
  /\ queue' = Back(c, Unsettled(c))
  /\ remembered' = [remembered EXCEPT ![c] = {}]
  /\ excuse' = [n \in Rows |->
       excuse[n] + (IF (cpc[c] = "remember" /\ cur[c] = n) \/ n \in remembered[c] THEN 1 ELSE 0)]
  /\ AttemptCounted(c)
  /\ Done(c)
  /\ UNCHANGED <<relayVars, config, ended, effects>>

Wrapped(c) ==
  \/ Seen(c) \/ HandlerReturns(c) \/ HandlerRaises(c) \/ Remember(c) \/ StoreFails(c)

PNext ==
  \/ \E n \in Rows : Commit(n)
  \/ \E r \in Relays : Relay(r)
  \/ \E c \in Consumers : 
       Take(c) \/ Wrapped(c) \/ Ack(c) \/ Retry(c) \/ GiveUp(c) \/ Lapse(c) \/ Crash(c)
  \/ \E s \in Consumers \cup {Common}, n \in Rows : Forget(s, n)

PSpec == PInit /\ [][PNext]_allVars

(* Relays are run again and again, consumers keep polling, a handler returns or  *)
(* raises.                                                                      *)
PFairSpec ==
  /\ PSpec
  /\ \A r \in Relays : WF_allVars(Relay(r) /\ (StartDrain(r) \/ Flush(r)))
  /\ \A c \in Consumers : WF_allVars(Take(c) \/ Wrapped(c) \/ Ack(c) \/ Retry(c) \/ GiveUp(c))

-----------------------------------------------------------------------------
(* Properties                                                                   *)

(* No message whose row is marked published is gone without its handler having  *)
(* returned, but for one that failed max_attempts times and was dead-lettered or *)
(* dropped ("retry / dead-letter still apply"): not by a skip of an id whose run *)
(* failed, not by the death of the relay, the consumer or its store, not by      *)
(* attempts that a repeated publish or a lapse counts twice (flush, wrap,        *)
(* _retry_or_dead_letter).                                                      *)
GivenUp(n) == n \in ended /\ failures[n] >= MaxAttempts

NothingUnhandled ==
  \A n \in published :
    \/ effects[n] > 0 \/ GivenUp(n)
    \/ \E a \in Attempts : queue[<<n, a>>] > 0
    \/ \E c \in Consumers : leased[c] /\ cur[c] = n

(* The handler's effect happens once, however often relays and broker repeat    *)
(* the message; a second time only for a cause the store cannot see: two runs   *)
(* at the same time, a crash or a failed remember() between handler and store,  *)
(* a store of another process, an id forgotten.                                 *)
EffectsHaveACause == \A n \in Rows \ noId : effects[n] <= 1 + excuse[n]

(* While the rows the transport always rejects leave room in a batch, every row  *)
(* it accepts is published and marked, and its handler returns or max_attempts   *)
(* attempts have failed (drain, wrap, _retry_or_dead_letter).  Rejected rows     *)
(* that fill the batch do hide those behind them; of that nothing is claimed.    *)
RoomInBatch == Cardinality(Poison) < BatchSize

EventuallyHandled ==
  RoomInBatch =>
    \A n \in Rows \ Poison : (n \in pending) ~> (n \in published /\ (effects[n] > 0 \/ GivenUp(n)))

=============================================================================
