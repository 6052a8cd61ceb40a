---------------------------- MODULE RedisLaravel ----------------------------
(***************************************************************************)
(* The Laravel-compatible layout of the Redis transport (redis_transport.py *)
(* with laravel_compat): a ready list and two sorted sets, :reserved and     *)
(* :delayed, shared by several workers.  Each Lua script is one atomic step. *)
(*                                                                         *)
(* A reservation has no token: its member of :reserved is the job with its  *)
(* attempts advanced, so two equal jobs reserved at the same time are ONE   *)
(* member, and only some of the settle scripts ask whether the member was   *)
(* still there.                                                             *)
(*                                                                         *)
(* A stored value is <<b, n>>: envelope b with n attempts.  Two encodings   *)
(* of the same envelope (cjson's in the reserve script, json.dumps in       *)
(* release) are the same value here: the case in which members coincide.    *)
(* A score is kept as the whole seconds left, 0 once it is due.  The notify *)
(* list only wakes a blocked pop() up, which looks again every second       *)
(* anyway; it is left out.                                                  *)
(***************************************************************************)
EXTENDS Integers, Sequences, FiniteSets, Functions

CONSTANTS
  Workers,
  Bodies,
  Poison,        (* bodies the reserve script cannot count or the worker cannot  *)
                 (* decode                                                       *)
  None,
  MaxAttempts,   (* max_attempts of the runtime                                  *)
  Lifetimes,     (* values of retry_after in seconds; Never stands for None      *)
  Delays,        (* delays of publish_delayed() and of a retry, in whole seconds *)
  Batch,         (* migration_batch_size; All is -1                              *)
  MaxPublished,  (* bound: Bodies -> publish() and publish_delayed() calls        *)
  MaxTrouble     (* bound: crashes, handlers that outlive their reservation,     *)
                 (* lost answers and releases at shutdown                        *)

Never == -1
Absent == -2
All == -1

Raws == Bodies \X (0 .. MaxAttempts + MaxTrouble)

ASSUME LaravelAssumption ==
  /\ IsFiniteSet(Bodies) /\ Poison \subseteq Bodies
  /\ None \notin Raws
  /\ MaxAttempts \in Nat \ {0} /\ MaxPublished \in [Bodies -> Nat] /\ MaxTrouble \in Nat
  /\ Lifetimes \subseteq (Nat \ {0}) \cup {Never}
  /\ Delays \subseteq Nat
  /\ Batch \in Nat \cup {All} /\ Batch # 0

VARIABLES
  retryAfter,  (* retry_after of the workers; never changes                      *)
  ready,       (* the list queues:<queue>                                        *)
  reserved,    (* the zset :reserved, Raws -> seconds left, Never or Absent      *)
  delayed,     (* the zset :delayed                                              *)
  dlq,         (* Bodies -> copies in the dead-letter list                       *)
  pc,          (* Workers -> "idle", inside pop() "reserved" or "pop" (the       *)
               (* script to run next), "busy"                                    *)
  job,         (* Workers -> the raw job handed to the handler, or None          *)
  handle,      (* Workers -> its member of :reserved, or None                    *)
  published, acked,  (* history: Bodies -> publishes, acks that removed a member *)
  delivered, returned,  (* history: Bodies -> deliveries, those handed back unprocessed *)
  late,        (* history: Bodies -> releases whose member was gone              *)
  excuse,      (* history: Bodies -> outlived reservations and lost answers      *)
  trouble

zsets == <<reserved, delayed>>
worker == <<pc, job, handle>>
history == <<published, acked, delivered, returned, late, excuse>>
vars == <<retryAfter, ready, zsets, dlq, worker, history, trouble>>

Empty == [r \in Raws |-> Absent]
Zero == [b \in Bodies |-> 0]
Plus(f, b) == [f EXCEPT ![b] = @ + 1]
Zadd(z, r, s) == [z EXCEPT ![r] = s]
Zrem(z, S) == [r \in Raws |-> IF r \in S THEN Absent ELSE z[r]]

Init ==
  /\ retryAfter \in Lifetimes
  /\ ready = <<>> /\ reserved = Empty /\ delayed = Empty /\ dlq = Zero
  /\ pc = [w \in Workers |-> "idle"]
  /\ job = [w \in Workers |-> None] /\ handle = [w \in Workers |-> None]
  /\ published = Zero /\ acked = Zero /\ delivered = Zero /\ returned = Zero /\ late = Zero /\ excuse = Zero
  /\ trouble = 0

Trouble == trouble < MaxTrouble /\ trouble' = trouble + 1

(* publish() and publish_delayed(): a delayed copy of a value already delayed   *)
(* only moves its time.                                                         *)
Publish(b) ==
  /\ published[b] < MaxPublished[b]
  /\ published' = Plus(published, b)
  /\ \/ ready' = Append(ready, <<b, 0>>) /\ UNCHANGED delayed
     \/ \E d \in Delays : delayed' = Zadd(delayed, <<b, 0>>, d) /\ UNCHANGED ready
  /\ UNCHANGED <<retryAfter, reserved, dlq, worker, acked, delivered, returned, late, excuse, trouble>>

(* A second passes.  A reservation its worker still holds may become due: the   *)
(* handler has outlived it.                                                     *)
Elapse(z) == [r \in Raws |-> IF z[r] > 0 THEN z[r] - 1 ELSE z[r]]
Outlived == {r \in Raws : reserved[r] = 1 /\ \E w \in Workers : handle[w] = r}

Tick ==
  /\ \E r \in Raws : reserved[r] > 0 \/ delayed[r] > 0
  /\ trouble + Cardinality(Outlived) <= MaxTrouble
  /\ trouble' = trouble + Cardinality(Outlived)
  /\ excuse' = [b \in Bodies |-> excuse[b] + Cardinality({r \in Outlived : r[1] = b})]
  /\ reserved' = Elapse(reserved) /\ delayed' = Elapse(delayed)
  /\ UNCHANGED <<retryAfter, ready, dlq, worker, published, acked, delivered, returned, late>>

-----------------------------------------------------------------------------
(* Definitions named Mut... are the mutants of the definition that follows them: *)
(* bugs the properties must find.  No specification uses them.                  *)

(* pop(): _MIGRATE of :delayed, _MIGRATE of :reserved unless retry_after is     *)
(* None, then _POP.                                                             *)
Due(z) == {r \in Raws : z[r] = 0}
Selections(z) ==
  IF Batch = All \/ Cardinality(Due(z)) <= Batch THEN {Due(z)}
  ELSE {S \in SUBSET Due(z) : Cardinality(S) = Batch}
Orders(S) == Bijection(1 .. Cardinality(S), S)

Step(w, place) == pc' = [pc EXCEPT ![w] = place]

MigrateDelayed(w) ==
  /\ pc[w] = "idle" /\ Step(w, "reserved")
  /\ \E S \in Selections(delayed) : \E order \in Orders(S) :
       delayed' = Zrem(delayed, S) /\ ready' = ready \o order
  /\ UNCHANGED <<retryAfter, reserved, dlq, job, handle, history, trouble>>

MutRecovers == FALSE
Recovers == retryAfter # Never

MigrateReserved(w) ==
  /\ pc[w] = "reserved" /\ Step(w, "pop")
  /\ IF Recovers
     THEN \E S \in Selections(reserved) : \E order \in Orders(S) :
            reserved' = Zrem(reserved, S) /\ ready' = ready \o order
     ELSE UNCHANGED <<reserved, ready>>
  /\ UNCHANGED <<retryAfter, delayed, dlq, job, handle, history, trouble>>

(* The member _POP reserves: the job with the attempt counted; a poison body is *)
(* reserved raw.                                                                *)
Counted(r) == IF r[1] \in Poison THEN r ELSE <<r[1], r[2] + 1>>

(* A guard that only covers the decode: the re-encode raises after the LPOP.    *)
MutReserve(r) == IF r[1] \in Poison THEN reserved ELSE Zadd(reserved, Counted(r), retryAfter)
Reserve(r) == Zadd(reserved, Counted(r), retryAfter)

(* The handler is given the raw job; the member is only its handle.             *)
MutDelivered(r) == Counted(r)
Delivered(r) == r

Pop(w) ==
  /\ pc[w] = "pop"
  /\ \/ /\ ready = <<>>
        /\ Step(w, "idle")
        /\ UNCHANGED <<ready, reserved, job, handle, delivered>>
     \/ /\ ready # <<>>
        /\ Step(w, "busy")
        /\ reserved' = Reserve(Head(ready))
        /\ job' = [job EXCEPT ![w] = Delivered(Head(ready))]
        /\ handle' = [handle EXCEPT ![w] = Counted(Head(ready))]
        /\ delivered' = Plus(delivered, Head(ready)[1])
        /\ ready' = Tail(ready)
  /\ UNCHANGED <<retryAfter, delayed, dlq, published, acked, returned, late, excuse, trouble>>

-----------------------------------------------------------------------------
(* Settlement                                                                   *)

Body(w) == job[w][1]
Stands(w) == reserved[handle[w]] # Absent
Removal(w) == reserved' = Zrem(reserved, {handle[w]})

Idle(w) ==
  /\ Step(w, "idle")
  /\ job' = [job EXCEPT ![w] = None] /\ handle' = [handle EXCEPT ![w] = None]

(* The worker learns that the script ran, or it does not (the connection breaks, *)
(* a shutdown interrupts the call) and the same message is settled once more.   *)
Answered(w) ==
  \/ Idle(w) /\ UNCHANGED <<excuse, trouble>>
  \/ Trouble /\ excuse' = Plus(excuse, Body(w)) /\ UNCHANGED worker

(* ack(): also the drop of a job that is out of attempts.                       *)
Ack(w) ==
  /\ pc[w] = "busy" /\ Body(w) \notin Poison
  /\ Removal(w)
  /\ acked' = IF Stands(w) THEN Plus(acked, Body(w)) ELSE acked
  /\ Answered(w)
  /\ UNCHANGED <<retryAfter, ready, delayed, dlq, published, delivered, returned, late>>

(* redeliver(): _RELEASE puts the body into :delayed whether or not the         *)
(* reservation was still there.                                                 *)
PutBack(w, r, d) ==
  /\ Removal(w)
  /\ delayed' = Zadd(delayed, r, d)
  /\ late' = IF Stands(w) THEN late ELSE Plus(late, Body(w))

(* A failed handler, while attempts are left: the body counts the attempt.      *)
Retried(r) == <<r[1], r[2] + 1>>
Retry(w) ==
  /\ pc[w] = "busy" /\ Body(w) \notin Poison
  /\ job[w][2] + 1 < MaxAttempts
  /\ \E d \in Delays : PutBack(w, Retried(job[w]), d)
  /\ Answered(w)
  /\ UNCHANGED <<retryAfter, ready, dlq, published, acked, delivered, returned>>

(* A shutdown gives an unprocessed message back unchanged and at once.          *)
ReleaseUnprocessed(w) ==
  /\ pc[w] = "busy"
  /\ PutBack(w, job[w], 0)
  /\ Idle(w) /\ Trouble
  /\ returned' = Plus(returned, Body(w))
  /\ UNCHANGED <<retryAfter, ready, dlq, published, acked, delivered, excuse>>

(* dead_letter(): _DEAD_LETTER writes only while the member is there.           *)
MutWrites(w) == TRUE
Writes(w) == Stands(w)
DeadLetter(w) ==
  /\ pc[w] = "busy"
  /\ Removal(w)
  /\ dlq' = IF Writes(w) THEN Plus(dlq, Body(w)) ELSE dlq
  /\ Answered(w)
  /\ UNCHANGED <<retryAfter, ready, delayed, published, acked, delivered, returned, late>>

(* The worker dies or loses the connection; its member of :reserved stays.      *)
LetGo(w) ==
  /\ pc[w] # "idle"
  /\ Idle(w) /\ Trouble
  /\ UNCHANGED <<retryAfter, ready, zsets, dlq, history>>

Settle(w) == Ack(w) \/ Retry(w) \/ DeadLetter(w)
Poll(w) == MigrateDelayed(w) \/ MigrateReserved(w) \/ Pop(w)

Next ==
  \/ \E b \in Bodies : Publish(b)
  \/ Tick
  \/ \E w \in Workers : Poll(w) \/ Settle(w) \/ ReleaseUnprocessed(w) \/ LetGo(w)

Spec == Init /\ [][Next]_vars

(* The clock runs; workers are restarted, keep polling, and handlers return.    *)
FairSpec ==
  /\ Spec
  /\ WF_vars(Tick)
  /\ \A w \in Workers : WF_vars(Poll(w)) /\ WF_vars(Settle(w) /\ pc'[w] = "idle")

-----------------------------------------------------------------------------
(* Properties                                                                   *)

InReady(b) == {i \in DOMAIN ready : ready[i][1] = b}
In(z, b) == {r \in Raws : r[1] = b /\ z[r] # Absent}
Copies(b) ==
  Cardinality(InReady(b)) + Cardinality(In(reserved, b)) + Cardinality(In(delayed, b)) + dlq[b]

(* Type invariant of the keys, the workers and the history.                     *)
TypeOK ==
  /\ retryAfter \in Lifetimes
  /\ ready \in Seq(Raws)
  /\ reserved \in [Raws -> Nat \cup {Never, Absent}] /\ delayed \in [Raws -> Nat \cup {Absent}]
  /\ pc \in [Workers -> {"idle", "reserved", "pop", "busy"}]
  /\ job \in [Workers -> Raws \cup {None}] /\ handle \in [Workers -> Raws \cup {None}]
  /\ \A f \in {dlq, published, acked, delivered, returned, late, excuse} : f \in [Bodies -> Nat]
  /\ trouble \in 0 .. MaxTrouble
  /\ \A w \in Workers :
       IF pc[w] = "busy" THEN job[w] # None /\ handle[w] = Counted(job[w])
       ELSE job[w] = None /\ handle[w] = None

(* A published job is in one of the lists or sets until some worker acked it,   *)
(* although equal jobs share one reservation, stale workers remove members and  *)
(* push copies, and workers die between any two scripts.                        *)
NothingLost ==
  \A b \in Bodies : published[b] > 0 =>
    \/ acked[b] > 0 \/ dlq[b] > 0
    \/ \E i \in DOMAIN ready : ready[i][1] = b
    \/ \E r \in Raws : r[1] = b /\ (reserved[r] # Absent \/ delayed[r] # Absent)

(* There are more copies of a job than were published only because a release    *)
(* came after its reservation had gone (the only script that is not gated), and *)
(* that only because a handler outlived its reservation or an answer was lost.  *)
CopiesHaveACause ==
  \A b \in Bodies :
    /\ Copies(b) + acked[b] <= published[b] + late[b]
    /\ Copies(b) + acked[b] <= published[b] + excuse[b]

(* The attempts of a job never exceed the deliveries it really had, and where   *)
(* no second copy came into being they are exactly that: a crashed delivery     *)
(* counts, a failed one counts once, one handed back at shutdown does not.      *)
AttemptsHonest ==
  \A b \in Bodies \ Poison :
    LET stored == {ready[i] : i \in InReady(b)} \cup In(reserved, b) \cup In(delayed, b) IN
      \A r \in stored :
        IF published[b] = 1 /\ excuse[b] = 0
        THEN r[2] = delivered[b] - returned[b] ELSE r[2] <= delivered[b]

(* No job stays behind: whatever crashed, every copy with a finite deadline is  *)
(* delivered again until it is acked or dead-lettered.                          *)
Drains == <>[](ready = <<>> /\ \A r \in Raws : reserved[r] \in {Absent, Never} /\ delayed[r] = Absent)

=============================================================================
