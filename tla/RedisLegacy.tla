---------------------------- MODULE RedisLegacy ----------------------------
(***************************************************************************)
(* The legacy layout of the Redis transport (redis_transport.py): one ready *)
(* list, a <queue>:processing list and a <queue>:processing:deadlines zset  *)
(* with a member "<token>:<raw>" per reservation, shared by several         *)
(* workers.  Each Lua script is one atomic step; between two scripts every  *)
(* other worker, the clock and a crash may come in.                         *)
(*                                                                         *)
(* A stored value is <<b, n>>: body b with n attempts.  Values are not      *)
(* unique (two producers may store the same bytes), tokens are: a token is  *)
(* fresh when no reservation and no worker remembers it.  A deadline is kept *)
(* as the whole seconds left: 0 once it is in the past, Never for +inf.     *)
(* The clock a script is given is read just before the script runs.         *)
(***************************************************************************)
EXTENDS Integers, Sequences, FiniteSets, Functions

CONSTANTS
  Workers,
  Live,          (* the workers that never crash (FairSpec)                    *)
  Tokens,
  Bodies,
  None,
  MaxAttempts,   (* max_attempts of the runtime                                *)
  RetryAfter,    (* Workers -> retry_after in seconds; Never stands for None   *)
  Batch,         (* migration_batch_size: members a sweep looks at; All (-1)     *)
  MaxPublished   (* bound: publish() calls                                     *)

Never == -1
All == -1

Raws == Bodies \X (0 .. MaxAttempts - 1)

ASSUME RedisAssumption ==
  /\ IsFiniteSet(Tokens)
  /\ None \notin Tokens /\ None \notin Raws
  /\ Live \subseteq Workers
  /\ MaxAttempts \in Nat \ {0}
  /\ RetryAfter \in [Workers -> Nat \cup {Never}]
  /\ Batch \in Nat \cup {All} /\ Batch # 0
  /\ MaxPublished \in Nat

VARIABLES
  ready,       (* the list <queue>                                             *)
  processing,  (* the list <queue>:processing, as Raws -> Nat: it is only ever *)
               (* searched by value                                            *)
  member,      (* the deadline zset: Tokens -> the raw value of its member     *)
  left,        (* Tokens -> seconds until the member's score                   *)
  dlq,         (* the dead-letter list                                         *)
  acked,       (* number of effective acks (history)                           *)
  published,   (* number of publish() calls (history, bound)                   *)
  handle,      (* Workers -> token of the reservation it works on, or None     *)
  body,        (* Workers -> raw value of that handle, or None                 *)
  swept        (* Workers -> inside pop(), between the sweep and the reserve   *)

worker == <<handle, body, swept>>
vars == <<ready, processing, member, left, dlq, acked, published, worker>>

Reserved == {t \in Tokens : member[t] # None}
Holding(r) == {t \in Tokens : member[t] = r}
Busy(w) == handle[w] # None

Init ==
  /\ ready = <<>> /\ dlq = <<>>
  /\ processing = [r \in Raws |-> 0]
  /\ member = [t \in Tokens |-> None]
  /\ left = [t \in Tokens |-> 0]
  /\ acked = 0 /\ published = 0
  /\ handle = [w \in Workers |-> None]
  /\ body = [w \in Workers |-> None]
  /\ swept = [w \in Workers |-> FALSE]

Publish(b) ==
  /\ published < MaxPublished
  /\ published' = published + 1
  /\ ready' = Append(ready, <<b, 0>>)
  /\ UNCHANGED <<processing, member, left, dlq, acked, worker>>

(* A second passes.  A standing reservation comes closer to its deadline.       *)
Tick ==
  /\ \E t \in Reserved : left[t] > 0
  /\ left' = [t \in Tokens |-> IF left[t] > 0 THEN left[t] - 1 ELSE left[t]]
  /\ UNCHANGED <<ready, processing, member, dlq, acked, published, worker>>

-----------------------------------------------------------------------------
(* Definitions named Mut... are the mutants of the definition that follows them: *)
(* bugs the properties must find.  No specification uses them.                  *)

(* pop(): _SWEEP, then _RESERVE_LEGACY; the two scripts repeat while the queue  *)
(* is empty and the time budget lasts.                                          *)

MutExpired == Reserved
Expired == {t \in Reserved : left[t] = 0}

(* What ZRANGEBYSCORE with LIMIT returns.                                       *)
Selections ==
  IF Batch = All \/ Cardinality(Expired) <= Batch THEN {Expired}
  ELSE {S \in SUBSET Expired : Cardinality(S) = Batch}

Count(S, r) == Cardinality(S \cap Holding(r))
Least(a, b) == IF a < b THEN a ELSE b

(* LREM looks each selected value up in :processing: M are the members whose    *)
(* value it found.  Only those are pushed, every selected member is removed.    *)
FoundIn(S, M) == \A r \in Raws : Count(M, r) = Least(processing[r], Count(S, r))

MutSwept(S) == [t \in Tokens |-> member[t]]
Dropped(S) == [t \in Tokens |-> IF t \in S THEN None ELSE member[t]]

Sweep(w) ==
  /\ ~Busy(w) /\ ~swept[w]
  /\ swept' = [swept EXCEPT ![w] = TRUE]
  /\ \E S \in Selections : \E M \in SUBSET S : \E order \in Bijection(1 .. Cardinality(M), M) :
       /\ FoundIn(S, M)
       /\ processing' = [r \in Raws |-> processing[r] - Count(M, r)]
       /\ ready' = ready \o [i \in 1 .. Cardinality(M) |-> member[order[i]]]
       /\ member' = Dropped(S)
  /\ UNCHANGED <<left, dlq, acked, published, handle, body>>

Fresh(t) == t \notin Reserved /\ \A w \in Workers : handle[w] # t

(* _RESERVE_LEGACY: the head moves to :processing and its member is added.      *)
MutMove(t) == processing' = processing
Move(t) == processing' = [processing EXCEPT ![Head(ready)] = @ + 1]

Reserve(w) ==
  /\ swept[w]
  /\ swept' = [swept EXCEPT ![w] = FALSE]
  /\ \/ /\ ready = <<>>
        /\ UNCHANGED <<ready, processing, member, left, handle, body>>
     \/ /\ ready # <<>>
        /\ \E t \in Tokens :
             /\ Fresh(t)
             /\ Move(t)
             /\ member' = [member EXCEPT ![t] = Head(ready)]
             /\ left' = [left EXCEPT ![t] = RetryAfter[w]]
             /\ handle' = [handle EXCEPT ![w] = t]
        /\ body' = [body EXCEPT ![w] = Head(ready)]
        /\ ready' = Tail(ready)
  /\ UNCHANGED <<dlq, acked, published>>

-----------------------------------------------------------------------------
(* Settlement: every path runs _SETTLE, which acts only while the reservation's *)
(* own member exists, and else touches nothing.                                 *)

MutStands(w) == processing[body[w]] > 0
Stands(w) == member[handle[w]] = body[w]

Removal(w) ==
  /\ member' = [member EXCEPT ![handle[w]] = None]
  /\ processing' = [processing EXCEPT ![body[w]] = @ - 1]

(* The worker learns the answer and forgets the handle, or the answer is lost   *)
(* and the runtime (a retry of the client, a release after an error) may settle *)
(* the same handle once more.                                                   *)
Answered(w) ==
  \/ handle' = [handle EXCEPT ![w] = None] /\ body' = [body EXCEPT ![w] = None]
  \/ UNCHANGED <<handle, body>>

Ack(w) ==
  /\ Busy(w)
  /\ IF Stands(w) THEN Removal(w) /\ acked' = acked + 1
     ELSE UNCHANGED <<processing, member, acked>>
  /\ Answered(w)
  /\ UNCHANGED <<ready, left, dlq, published, swept>>

(* redeliver() pushes the body it is given: the delivered one (a shutdown       *)
(* release) or the one with attempts advanced (a retry, release()).             *)
Again(r) == {r} \cup ({<<r[1], r[2] + 1>>} \cap Raws)

Redeliver(w) ==
  /\ Busy(w)
  /\ IF Stands(w)
     THEN Removal(w) /\ \E r \in Again(body[w]) : ready' = Append(ready, r)
     ELSE UNCHANGED <<processing, member, ready>>
  /\ Answered(w)
  /\ UNCHANGED <<left, dlq, acked, published, swept>>

DeadLetter(w) ==
  /\ Busy(w)
  /\ IF Stands(w) THEN Removal(w) /\ dlq' = Append(dlq, body[w])
     ELSE UNCHANGED <<processing, member, dlq>>
  /\ Answered(w)
  /\ UNCHANGED <<ready, left, acked, published, swept>>

(* The worker crashes and restarts, or an error takes the reservation out of    *)
(* its hands: the member and the :processing entry stay behind.                 *)
LetGo(w) ==
  /\ Busy(w) \/ swept[w]
  /\ handle' = [handle EXCEPT ![w] = None]
  /\ body' = [body EXCEPT ![w] = None]
  /\ swept' = [swept EXCEPT ![w] = FALSE]
  /\ UNCHANGED <<ready, processing, member, left, dlq, acked, published>>

Settle(w) == Ack(w) \/ Redeliver(w) \/ DeadLetter(w)

Next ==
  \/ \E b \in Bodies : Publish(b)
  \/ Tick
  \/ \E w \in Workers : Sweep(w) \/ Reserve(w) \/ Settle(w) \/ LetGo(w)

Spec == Init /\ [][Next]_vars

(* The clock runs, and a live worker keeps polling and returns from its handler. *)
FairSpec ==
  /\ Spec
  /\ WF_vars(Tick)
  /\ \A w \in Live :
       /\ WF_vars(Sweep(w)) /\ WF_vars(Reserve(w))
       /\ WF_vars(Busy(w) /\ (Settle(w) \/ LetGo(w)) /\ ~Busy(w)')

-----------------------------------------------------------------------------
(* Type invariant of the broker's keys and of what the workers remember.        *)
TypeOK ==
  /\ ready \in Seq(Raws) /\ dlq \in Seq(Raws)
  /\ processing \in [Raws -> Nat]
  /\ member \in [Tokens -> Raws \cup {None}]
  /\ left \in [Tokens -> Nat \cup {Never}]
  /\ acked \in Nat /\ published \in 0 .. MaxPublished
  /\ handle \in [Workers -> Tokens \cup {None}]
  /\ body \in [Workers -> Raws \cup {None}]
  /\ swept \in [Workers -> BOOLEAN]
  /\ \A w \in Workers : Busy(w) <=> body[w] # None

(* :processing and the deadline zset, written by different scripts and searched *)
(* by different keys (value and token), always agree: a value is in :processing *)
(* once per standing reservation of it.  An entry without a member could never  *)
(* be recovered, a member without an entry is swept without its message.        *)
ProcessingMatches == \A r \in Raws : processing[r] = Cardinality(Holding(r))

(* Every stored value is in exactly one place: ready, reserved, acked or dead-  *)
(* lettered.  Late, repeated and concurrent settles of equal bodies, sweeps and *)
(* crashes neither lose nor copy one (_SETTLE, _SWEEP, _RESERVE_LEGACY).        *)
Conservation ==
  Len(ready) + Cardinality(Reserved) + acked + Len(dlq) = published

(* No worker ends the reservation of another one: a standing reservation is     *)
(* ended by the worker that holds its token or, once its deadline has passed,   *)
(* by a sweep, even when another reservation holds the very same bytes.         *)
NoTheft ==
  [][\A t \in Reserved :
       t \notin Reserved' => left[t] = 0 \/ \E w \in Workers : handle[w] = t]_vars

(* The transport implements the leased queue its callers are promised           *)
(* (Transport, Redeliverer and DeadLetterWriter in transport.py).               *)
Abs == INSTANCE LeasedQueue WITH
  Leases <- Tokens, avail <- ready, leased <- member, buried <- dlq, finished <- acked,
  MaxLapse <- Cardinality(Tokens)
IsLeasedQueue == Abs!Spec

(* While one worker lives, no reservation outlives its deadline for ever: a     *)
(* crashed or hung worker's message becomes available again (_sweep before      *)
(* every reserve).                                                              *)
LapsedReturns ==
  \A t \in Tokens : (t \in Reserved /\ left[t] # Never) ~> t \notin Reserved

=============================================================================
