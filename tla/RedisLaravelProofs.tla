------------------------- MODULE RedisLaravelProofs -------------------------
(***************************************************************************)
(* Proofs about RedisLaravel, for any workers, finite set of jobs, retry    *)
(* limit, deadlines and batch size.  That nothing is lost needs to know how *)
(* far attempts can grow: a crash or an outlived reservation adds one that  *)
(* no retry limit sees (Counts).  Copies are bounded by counting the workers *)
(* in the middle of a job as copies to come, unless a member stands behind   *)
(* them (AllCaused); where that leaves one copy, its attempts are exact      *)
(* (AllHonest).                                                             *)
(***************************************************************************)
EXTENDS RedisLaravel, FiniteSetTheorems, TLAPS

(* No stored job has more attempts than its retries and the trouble explain; a  *)
(* reservation that has one more is still held and not due.                     *)
Limit == MaxAttempts - 1 + trouble
Counts ==
  /\ \A i \in 1 .. Len(ready) : ready[i][2] <= Limit
  /\ \A r \in Raws : delayed[r] # Absent => r[2] <= Limit
  /\ \A w \in Workers : pc[w] = "busy" => job[w][2] <= Limit
  /\ \A r \in Raws : reserved[r] # Absent =>
       r[2] <= Limit \/ (reserved[r] # 0 /\ \E w \in Workers : handle[w] = r)

IInv == TypeOK /\ Counts /\ NothingLost

-----------------------------------------------------------------------------
LEMMA RawsFinite == IsFiniteSet(Raws)
<1>1. IsFiniteSet(0 .. MaxAttempts + MaxTrouble)
  BY LaravelAssumption, FS_Interval
<1> QED BY <1>1, LaravelAssumption, FS_Product DEF Raws

LEMMA RawsType == \A r \in Raws :
  r = <<r[1], r[2]>> /\ r[1] \in Bodies /\ r[2] \in 0 .. MaxAttempts + MaxTrouble /\ r[2] \in Nat
BY LaravelAssumption DEF Raws

LEMMA RawOf == ASSUME NEW b \in Bodies, NEW n \in Nat, n <= MaxAttempts + MaxTrouble PROVE <<b, n>> \in Raws
BY LaravelAssumption DEF Raws

(* A migration moves exactly the members it selected.                           *)
LEMMA MigrationOrder ==
  ASSUME NEW z \in [Raws -> Int], NEW S \in Selections(z), NEW order \in Orders(S)
  PROVE  /\ S \subseteq Due(z) /\ S \subseteq Raws
         /\ order \in Seq(Raws) /\ \A i \in 1 .. Len(order) : order[i] \in S
         /\ \A r \in S : \E i \in 1 .. Len(order) : order[i] = r
<1>1. S \subseteq Due(z) /\ S \subseteq Raws
  BY DEF Selections, Due
<1>2. Cardinality(S) \in Nat
  BY <1>1, RawsFinite, FS_Subset, FS_CardinalityType
<1>3. /\ order \in [1 .. Cardinality(S) -> S]
      /\ \A r \in S : \E i \in 1 .. Cardinality(S) : order[i] = r
  BY DEF Orders, Bijection, Surjection
<1>4. order \in Seq(Raws) /\ Len(order) = Cardinality(S)
  BY <1>1, <1>2, <1>3
<1> QED BY <1>1, <1>3, <1>4

LEMMA Joined ==
  ASSUME NEW s \in Seq(Raws), NEW e \in Seq(Raws)
  PROVE  /\ s \o e \in Seq(Raws) /\ Len(s \o e) = Len(s) + Len(e)
         /\ \A i \in 1 .. Len(s) : i \in 1 .. Len(s \o e) /\ (s \o e)[i] = s[i]
         /\ \A i \in 1 .. Len(e) : Len(s) + i \in 1 .. Len(s \o e) /\ (s \o e)[Len(s) + i] = e[i]
         /\ \A i \in 1 .. Len(s \o e) :
              \/ i \in 1 .. Len(s) /\ (s \o e)[i] = s[i]
              \/ \E j \in 1 .. Len(e) : i = Len(s) + j /\ (s \o e)[i] = e[j]
<1>1. /\ s \o e \in Seq(Raws) /\ Len(s \o e) = Len(s) + Len(e) /\ Len(s) \in Nat /\ Len(e) \in Nat
      /\ \A i \in 1 .. Len(s) + Len(e) : (s \o e)[i] = IF i <= Len(s) THEN s[i] ELSE e[i - Len(s)]
  OBVIOUS
<1>2. \A i \in 1 .. Len(s) : i \in 1 .. Len(s) + Len(e) /\ i <= Len(s)
  BY <1>1
<1>3. \A j \in 1 .. Len(e) : /\ Len(s) + j \in 1 .. Len(s) + Len(e) /\ ~ Len(s) + j <= Len(s)
                             /\ (Len(s) + j) - Len(s) = j
  BY <1>1
<1>4. \A i \in 1 .. Len(s) + Len(e) : i \notin 1 .. Len(s) =>
        ~ i <= Len(s) /\ i - Len(s) \in 1 .. Len(e) /\ i = Len(s) + (i - Len(s))
  BY <1>1
<1> QED BY <1>1, <1>2, <1>3, <1>4

(* What NothingLost says, in one place.                                         *)
Somewhere(b) ==
  \/ \E i \in 1 .. Len(ready) : ready[i][1] = b
  \/ \E r \in Raws : r[1] = b /\ (reserved[r] # Absent \/ delayed[r] # Absent)

LEMMA Accounted ==
  ASSUME TypeOK
  PROVE  NothingLost <=>
           \A b \in Bodies : published[b] > 0 => acked[b] > 0 \/ dlq[b] > 0 \/ Somewhere(b)
<1>1. DOMAIN ready = 1 .. Len(ready)
  BY DEF TypeOK
<1> QED BY <1>1 DEF NothingLost, Somewhere

LEMMA InitInv == Init => IInv
<1> SUFFICES ASSUME Init PROVE IInv
  OBVIOUS
<1>1. TypeOK
  BY LaravelAssumption DEF Init, TypeOK, Zero, Empty, Absent
<1>2. Counts
  BY DEF Init, Counts, Empty
<1>3. NothingLost
  BY DEF Init, NothingLost, Zero
<1> QED BY <1>1, <1>2, <1>3 DEF IInv

LEMMA AccountedNext ==
  ASSUME TypeOK'
  PROVE  NothingLost' <=>
           \A b \in Bodies : published'[b] > 0 => acked'[b] > 0 \/ dlq'[b] > 0 \/ Somewhere(b)'
<1>1. DOMAIN ready' = 1 .. Len(ready')
  BY DEF TypeOK
<1> QED BY <1>1 DEF NothingLost, Somewhere

(* The types, one by one.                                                       *)
LEMMA Types ==
  ASSUME TypeOK
  PROVE  /\ ready \in Seq(Raws) /\ Len(ready) \in Nat
         /\ \A i \in 1 .. Len(ready) : ready[i] \in Raws
         /\ reserved \in [Raws -> Int] /\ delayed \in [Raws -> Int]
         /\ \A r \in Raws : reserved[r] \in Nat \cup {Never, Absent} /\ delayed[r] \in Nat \cup {Absent}
         /\ dlq \in [Bodies -> Nat] /\ published \in [Bodies -> Nat] /\ acked \in [Bodies -> Nat]
         /\ delivered \in [Bodies -> Nat] /\ returned \in [Bodies -> Nat]
         /\ late \in [Bodies -> Nat] /\ excuse \in [Bodies -> Nat]
         /\ trouble \in Nat /\ trouble <= MaxTrouble /\ Limit \in Nat /\ Limit + 1 <= MaxAttempts + MaxTrouble
<1>1. ready \in Seq(Raws) /\ Len(ready) \in Nat /\ \A i \in 1 .. Len(ready) : ready[i] \in Raws
  <2>1. ready \in Seq(Raws)
    BY DEF TypeOK
  <2> QED BY <2>1
<1>2. /\ reserved \in [Raws -> Int] /\ delayed \in [Raws -> Int]
      /\ \A r \in Raws : reserved[r] \in Nat \cup {Never, Absent} /\ delayed[r] \in Nat \cup {Absent}
  <2>1. reserved \in [Raws -> Nat \cup {Never, Absent}] /\ delayed \in [Raws -> Nat \cup {Absent}]
    BY DEF TypeOK
  <2>2. Nat \cup {Never, Absent} \subseteq Int /\ Nat \cup {Absent} \subseteq Int
    BY DEF Never, Absent
  <2> QED BY <2>1, <2>2
<1>3. \A f \in {dlq, published, acked, delivered, returned, late, excuse} : f \in [Bodies -> Nat]
  BY DEF TypeOK
<1>4. trouble \in Nat /\ trouble <= MaxTrouble
  BY LaravelAssumption DEF TypeOK
<1>5. Limit \in Nat /\ Limit + 1 <= MaxAttempts + MaxTrouble
  BY <1>4, LaravelAssumption DEF Limit
<1> QED BY <1>1, <1>2, <1>3, <1>4, <1>5

LEMMA PlusType ==
  ASSUME NEW f \in [Bodies -> Nat], NEW b \in Bodies
  PROVE  /\ Plus(f, b) \in [Bodies -> Nat] /\ Plus(f, b)[b] = f[b] + 1
         /\ \A x \in Bodies : Plus(f, b)[x] >= f[x]
BY DEF Plus

(* The member a busy worker holds is its job with the attempt counted.          *)
LEMMA Busy ==
  ASSUME IInv, NEW w \in Workers, pc[w] = "busy"
  PROVE  /\ job[w] \in Raws /\ Body(w) \in Bodies /\ job[w][2] \in Nat /\ job[w][2] <= Limit
         /\ job[w] = <<Body(w), job[w][2]>>
         /\ handle[w] = Counted(job[w]) /\ handle[w] \in Raws /\ handle[w][1] = Body(w)
         /\ handle[w][2] \in Nat /\ handle[w][2] <= Limit + 1
<1>1. job[w] \in Raws /\ handle[w] = Counted(job[w]) /\ job[w][2] <= Limit
  BY DEF IInv, TypeOK, Counts
<1>2. job[w] = <<job[w][1], job[w][2]>> /\ job[w][1] \in Bodies /\ job[w][2] \in Nat
  BY <1>1, RawsType
<1>3. Limit \in Nat /\ Limit + 1 <= MaxAttempts + MaxTrouble
  BY Types DEF IInv
<1>4. <<job[w][1], job[w][2] + 1>> \in Raws
  <2>1. job[w][2] + 1 \in Nat /\ job[w][2] + 1 <= MaxAttempts + MaxTrouble
    BY <1>1, <1>2, <1>3, LaravelAssumption
  <2> QED BY <1>2, <2>1, RawOf
<1>5. CASE job[w][1] \in Poison
  BY <1>1, <1>2, <1>3, <1>5 DEF Counted, Body
<1>6. CASE job[w][1] \notin Poison
  BY <1>1, <1>2, <1>3, <1>4, <1>6 DEF Counted, Body
<1> QED BY <1>5, <1>6

LEMMA TroubleType ==
  ASSUME TypeOK, Trouble \/ UNCHANGED trouble
  PROVE  trouble' \in 0 .. MaxTrouble /\ trouble' >= trouble /\ Limit' >= Limit /\ Limit' \in Nat
BY LaravelAssumption DEF TypeOK, Trouble, Limit

LEMMA WorkerIdle ==
  ASSUME TypeOK, NEW w \in Workers, Idle(w)
  PROVE  /\ pc' \in [Workers -> {"idle", "reserved", "pop", "busy"}] /\ pc'[w] = "idle"
         /\ job' \in [Workers -> Raws \cup {None}] /\ handle' \in [Workers -> Raws \cup {None}]
         /\ job'[w] = None /\ handle'[w] = None
         /\ \A v \in Workers \ {w} : pc'[v] = pc[v] /\ job'[v] = job[v] /\ handle'[v] = handle[v]
         /\ \A v \in Workers : IF pc'[v] = "busy" THEN job'[v] # None /\ handle'[v] = Counted(job'[v])
                               ELSE job'[v] = None /\ handle'[v] = None
BY DEF TypeOK, Idle, Step

-----------------------------------------------------------------------------
(* Settlement                                                                   *)

(* A settlement removes the worker's own member, keeps the rest, and accounts   *)
(* for the job unless the member had gone already.                              *)
LEMMA Settled ==
  ASSUME IInv, NEW w \in Workers, pc[w] = "busy", Removal(w), TypeOK',
         Idle(w) \/ UNCHANGED worker, Trouble \/ UNCHANGED trouble,
         UNCHANGED <<ready, published>>,
         \A b \in Bodies : acked'[b] >= acked[b] /\ dlq'[b] >= dlq[b],
         \A r \in Raws : delayed'[r] # Absent => delayed[r] # Absent \/ r[2] <= Limit,
         \A r \in Raws : delayed[r] # Absent => delayed'[r] # Absent,
         \/ acked'[Body(w)] > 0 \/ dlq'[Body(w)] > 0 \/ ~ Stands(w)
         \/ \E r \in Raws : r[1] = Body(w) /\ delayed'[r] # Absent
  PROVE  IInv'
<1> USE DEF IInv
<1>1. \A r \in Raws : reserved'[r] = IF r = handle[w] THEN Absent ELSE reserved[r]
  <2>1. reserved' = Zrem(reserved, {handle[w]})
    BY DEF Removal
  <2>2. \A r \in Raws : Zrem(reserved, {handle[w]})[r] = IF r \in {handle[w]} THEN Absent ELSE reserved[r]
    BY DEF Zrem
  <2> QED BY <2>1, <2>2
<1>2. /\ handle[w] \in Raws /\ handle[w][1] = Body(w) /\ Body(w) \in Bodies
      /\ Limit' >= Limit /\ Limit \in Nat /\ Limit' \in Nat
  BY Busy, TroubleType, Types
<1>3. \A r \in Raws : r[2] \in Nat
  BY RawsType
<1>4. \A v \in Workers : /\ pc'[v] = "busy" => pc[v] = "busy" /\ job'[v] = job[v]
                         /\ v # w => handle'[v] = handle[v]
  <2>1. CASE Idle(w)
    <3>1. /\ pc'[w] = "idle"
          /\ \A v \in Workers \ {w} : pc'[v] = pc[v] /\ job'[v] = job[v] /\ handle'[v] = handle[v]
      BY <2>1, WorkerIdle
    <3> QED BY <3>1
  <2>2. CASE UNCHANGED worker
    BY <2>2 DEF worker
  <2> QED BY <2>1, <2>2
<1>5. Counts'
  <2>1. \A i \in 1 .. Len(ready') : ready'[i][2] <= Limit'
    <3> SUFFICES ASSUME NEW i \in 1 .. Len(ready) PROVE ready[i][2] <= Limit'
      OBVIOUS
    <3>1. ready[i][2] <= Limit /\ ready[i][2] \in Nat
      BY <1>3, Types DEF Counts
    <3> QED BY <1>2, <3>1
  <2>2. \A r \in Raws : delayed'[r] # Absent => r[2] <= Limit'
    <3> SUFFICES ASSUME NEW r \in Raws, delayed'[r] # Absent PROVE r[2] <= Limit'
      OBVIOUS
    <3>1. r[2] <= Limit /\ r[2] \in Nat
      BY <1>3 DEF Counts
    <3> QED BY <1>2, <3>1
  <2>3. \A v \in Workers : pc'[v] = "busy" => job'[v][2] <= Limit'
    <3> SUFFICES ASSUME NEW v \in Workers, pc'[v] = "busy" PROVE job'[v][2] <= Limit'
      OBVIOUS
    <3>1. job'[v][2] <= Limit /\ job'[v][2] \in Nat
      BY <1>4, Busy
    <3> QED BY <1>2, <3>1
  <2>4. \A r \in Raws : reserved'[r] # Absent =>
          r[2] <= Limit' \/ (reserved'[r] # 0 /\ \E v \in Workers : handle'[v] = r)
    <3> SUFFICES ASSUME NEW r \in Raws, reserved'[r] # Absent
                 PROVE  r[2] <= Limit' \/ (reserved'[r] # 0 /\ \E v \in Workers : handle'[v] = r)
      OBVIOUS
    <3>1. r # handle[w] /\ reserved'[r] = reserved[r] /\ reserved[r] # Absent
      BY <1>1
    <3>2. CASE r[2] <= Limit
      BY <1>2, <1>3, <3>2
    <3>3. CASE reserved[r] # 0 /\ \E v \in Workers : handle[v] = r
      BY <1>4, <3>1, <3>3
    <3> QED BY <3>1, <3>2, <3>3 DEF Counts
  <2> QED BY <2>1, <2>2, <2>3, <2>4 DEF Counts
<1>6. NothingLost'
  <2> SUFFICES ASSUME NEW b \in Bodies, published[b] > 0
               PROVE  acked'[b] > 0 \/ dlq'[b] > 0 \/ Somewhere(b)'
    BY AccountedNext
  <2>1. acked[b] > 0 \/ dlq[b] > 0 \/ Somewhere(b)
    BY Accounted
  <2>2. CASE acked[b] > 0 \/ dlq[b] > 0
    <3>1. /\ acked[b] \in Nat /\ dlq[b] \in Nat /\ acked'[b] \in Nat /\ dlq'[b] \in Nat
          /\ acked'[b] >= acked[b] /\ dlq'[b] >= dlq[b]
      BY DEF TypeOK
    <3> QED BY <2>2, <3>1
  <2>3. CASE Somewhere(b)
    <3>1. CASE \E i \in 1 .. Len(ready) : ready[i][1] = b
      BY <3>1 DEF Somewhere
    <3>2. CASE \E r \in Raws : r[1] = b /\ delayed[r] # Absent
      BY <3>2 DEF Somewhere
    <3>3. CASE \E r \in Raws : r[1] = b /\ reserved[r] # Absent
      <4>1. PICK r \in Raws : r[1] = b /\ reserved[r] # Absent
        BY <3>3
      <4>2. CASE r = handle[w]
        <5>1. b = Body(w) /\ Stands(w)
          BY <1>2, <4>1, <4>2 DEF Stands
        <5> QED BY <5>1 DEF Somewhere
      <4>3. CASE r # handle[w]
        BY <1>1, <4>1, <4>3 DEF Somewhere
      <4> QED BY <4>2, <4>3
    <3> QED BY <2>3, <3>1, <3>2, <3>3 DEF Somewhere
  <2> QED BY <2>1, <2>2, <2>3
<1> QED BY <1>5, <1>6

(* The type invariant in parts, for the steps that leave some alone.            *)
StoreOK ==
  /\ retryAfter \in Lifetimes /\ ready \in Seq(Raws)
  /\ reserved \in [Raws -> Nat \cup {Never, Absent}] /\ delayed \in [Raws -> Nat \cup {Absent}]
HistoryOK == \A f \in {dlq, published, acked, delivered, returned, late, excuse} : f \in [Bodies -> Nat]
WorkerOK ==
  /\ pc \in [Workers -> {"idle", "reserved", "pop", "busy"}]
  /\ job \in [Workers -> Raws \cup {None}] /\ handle \in [Workers -> Raws \cup {None}]
  /\ \A w \in Workers :
       IF pc[w] = "busy" THEN job[w] # None /\ handle[w] = Counted(job[w])
       ELSE job[w] = None /\ handle[w] = None

LEMMA Parts == TypeOK => StoreOK /\ HistoryOK /\ WorkerOK /\ trouble \in 0 .. MaxTrouble
BY DEF TypeOK, StoreOK, HistoryOK, WorkerOK

LEMMA PartsNext ==
  ASSUME StoreOK', HistoryOK', WorkerOK', trouble' \in 0 .. MaxTrouble PROVE TypeOK'
BY DEF TypeOK, StoreOK, HistoryOK, WorkerOK

LEMMA HistoryTypes ==
  ASSUME dlq' \in [Bodies -> Nat], published' \in [Bodies -> Nat], acked' \in [Bodies -> Nat],
         delivered' \in [Bodies -> Nat], returned' \in [Bodies -> Nat], late' \in [Bodies -> Nat],
         excuse' \in [Bodies -> Nat]
  PROVE  HistoryOK'
BY DEF HistoryOK

LEMMA AnsweredTypes ==
  ASSUME IInv, NEW w \in Workers, pc[w] = "busy", Answered(w)
  PROVE  /\ WorkerOK' /\ excuse' \in [Bodies -> Nat] /\ trouble' \in 0 .. MaxTrouble
         /\ Trouble \/ UNCHANGED trouble
         /\ Idle(w) \/ UNCHANGED worker
<1> USE DEF IInv
<1>1. CASE Idle(w) /\ UNCHANGED <<excuse, trouble>>
  BY <1>1, WorkerIdle, Types, TroubleType DEF WorkerOK
<1>2. CASE Trouble /\ excuse' = Plus(excuse, Body(w)) /\ UNCHANGED worker
  <2>1. excuse' \in [Bodies -> Nat]
    BY <1>2, Busy, Types, PlusType
  <2>2. WorkerOK'
    BY <1>2, Parts DEF worker, WorkerOK
  <2> QED BY <1>2, <2>1, <2>2, TroubleType
<1> QED BY <1>1, <1>2 DEF Answered

LEMMA RemovalType ==
  ASSUME TypeOK, NEW w, Removal(w)
  PROVE  reserved' \in [Raws -> Nat \cup {Never, Absent}]
BY DEF TypeOK, Removal, Zrem

LEMMA AckInv ==
  ASSUME IInv, NEW w \in Workers, Ack(w)
  PROVE  IInv'
<1> USE DEF IInv
<1>1. pc[w] = "busy" /\ Removal(w) /\ Body(w) \in Bodies
  BY Busy DEF Ack
<1>2. /\ WorkerOK' /\ excuse' \in [Bodies -> Nat] /\ trouble' \in 0 .. MaxTrouble
      /\ Trouble \/ UNCHANGED trouble
      /\ Idle(w) \/ UNCHANGED worker
  BY <1>1, AnsweredTypes DEF Ack
<1>3. /\ acked' \in [Bodies -> Nat] /\ \A b \in Bodies : acked'[b] >= acked[b]
      /\ Stands(w) => acked'[Body(w)] > 0
  <2>1. acked \in [Bodies -> Nat]
    BY Types
  <2>2. CASE Stands(w)
    <3>1. acked' = Plus(acked, Body(w))
      BY <2>2 DEF Ack
    <3> QED BY <1>1, <2>1, <3>1, PlusType
  <2>3. CASE ~ Stands(w)
    BY <2>1, <2>3 DEF Ack
  <2> QED BY <2>2, <2>3
<1>4. TypeOK'
  <2>1. HistoryOK'
    BY <1>2, <1>3, Types, HistoryTypes DEF Ack
  <2>2. StoreOK'
    BY <1>1, RemovalType, Parts DEF StoreOK, Ack
  <2> QED BY <1>2, <2>1, <2>2, PartsNext
<1>5. \A b \in Bodies : dlq'[b] >= dlq[b]
  BY Types DEF Ack
<1> QED BY <1>1, <1>2, <1>3, <1>4, <1>5, Settled DEF Ack

LEMMA DeadLetterInv ==
  ASSUME IInv, NEW w \in Workers, DeadLetter(w)
  PROVE  IInv'
<1> USE DEF IInv
<1>1. pc[w] = "busy" /\ Removal(w) /\ Body(w) \in Bodies
  BY Busy DEF DeadLetter
<1>2. /\ WorkerOK' /\ excuse' \in [Bodies -> Nat] /\ trouble' \in 0 .. MaxTrouble
      /\ Trouble \/ UNCHANGED trouble
      /\ Idle(w) \/ UNCHANGED worker
  BY <1>1, AnsweredTypes DEF DeadLetter
<1>3. /\ dlq' \in [Bodies -> Nat] /\ \A b \in Bodies : dlq'[b] >= dlq[b]
      /\ Stands(w) => dlq'[Body(w)] > 0
  <2>1. dlq \in [Bodies -> Nat]
    BY Types
  <2>2. CASE Stands(w)
    <3>1. dlq' = Plus(dlq, Body(w))
      BY <2>2 DEF DeadLetter, Writes
    <3> QED BY <1>1, <2>1, <3>1, PlusType
  <2>3. CASE ~ Stands(w)
    BY <2>1, <2>3 DEF DeadLetter, Writes
  <2> QED BY <2>2, <2>3
<1>4. TypeOK'
  <2>1. HistoryOK'
    BY <1>2, <1>3, Types, HistoryTypes DEF DeadLetter
  <2>2. StoreOK'
    BY <1>1, RemovalType, Parts DEF StoreOK, DeadLetter
  <2> QED BY <1>2, <2>1, <2>2, PartsNext
<1>5. \A b \in Bodies : acked'[b] >= acked[b]
  BY Types DEF DeadLetter
<1> QED BY <1>1, <1>2, <1>3, <1>4, <1>5, Settled DEF DeadLetter

(* _RELEASE: the job is in :delayed, whatever became of the reservation.        *)
LEMMA PutBackFacts ==
  ASSUME IInv, NEW w \in Workers, pc[w] = "busy", NEW r \in Raws, r[1] = Body(w), r[2] <= Limit,
         NEW d \in Delays \cup {0}, PutBack(w, r, d)
  PROVE  /\ delayed' \in [Raws -> Nat \cup {Absent}] /\ late' \in [Bodies -> Nat]
         /\ \A x \in Raws : delayed'[x] # Absent => delayed[x] # Absent \/ x[2] <= Limit
         /\ \A x \in Raws : delayed[x] # Absent => delayed'[x] # Absent
         /\ \E x \in Raws : x[1] = Body(w) /\ delayed'[x] # Absent
<1> USE DEF IInv
<1>1. d \in Nat /\ d # Absent
  BY LaravelAssumption DEF Absent
<1>2. delayed' = [delayed EXCEPT ![r] = d] /\ delayed \in [Raws -> Nat \cup {Absent}]
  BY Parts DEF PutBack, Zadd, StoreOK
<1>3. late' \in [Bodies -> Nat]
  <2>1. late \in [Bodies -> Nat] /\ Body(w) \in Bodies
    BY Types, Busy
  <2>2. late' = late \/ late' = Plus(late, Body(w))
    BY DEF PutBack
  <2> QED BY <2>1, <2>2, PlusType
<1>4. delayed'[r] = d /\ \A x \in Raws \ {r} : delayed'[x] = delayed[x]
  BY <1>2
<1> QED BY <1>1, <1>2, <1>3, <1>4

LEMMA RetryInv ==
  ASSUME IInv, NEW w \in Workers, Retry(w)
  PROVE  IInv'
<1> USE DEF IInv
<1>1. /\ pc[w] = "busy" /\ Body(w) \in Bodies
      /\ job[w] = <<Body(w), job[w][2]>> /\ job[w][2] \in Nat
  BY Busy DEF Retry
<1>2. PICK d \in Delays : PutBack(w, Retried(job[w]), d)
  BY DEF Retry
<1>3. Retried(job[w]) \in Raws /\ Retried(job[w])[1] = Body(w) /\ Retried(job[w])[2] <= Limit
  <2>1. job[w][2] + 1 \in Nat /\ job[w][2] + 1 <= MaxAttempts - 1
    BY <1>1, LaravelAssumption DEF Retry
  <2>2. job[w][2] + 1 <= MaxAttempts + MaxTrouble /\ job[w][2] + 1 <= Limit
    BY <2>1, Types, LaravelAssumption DEF Limit
  <2>3. Retried(job[w]) = <<Body(w), job[w][2] + 1>>
    BY DEF Retried, Body
  <2> QED BY <1>1, <2>1, <2>2, <2>3, RawOf
<1> HIDE DEF IInv
<1>4. /\ delayed' \in [Raws -> Nat \cup {Absent}] /\ late' \in [Bodies -> Nat]
      /\ \A x \in Raws : delayed'[x] # Absent => delayed[x] # Absent \/ x[2] <= Limit
      /\ \A x \in Raws : delayed[x] # Absent => delayed'[x] # Absent
      /\ \E x \in Raws : x[1] = Body(w) /\ delayed'[x] # Absent
  BY <1>1, <1>2, <1>3, PutBackFacts
<1> USE DEF IInv
<1>5. /\ WorkerOK' /\ excuse' \in [Bodies -> Nat] /\ trouble' \in 0 .. MaxTrouble
      /\ Trouble \/ UNCHANGED trouble
      /\ Idle(w) \/ UNCHANGED worker
  BY <1>1, AnsweredTypes DEF Retry
<1>6. TypeOK'
  <2>1. HistoryOK'
    BY <1>4, <1>5, Types, HistoryTypes DEF Retry
  <2>2. StoreOK'
    BY <1>2, <1>4, RemovalType, Parts DEF StoreOK, Retry, PutBack
  <2> QED BY <1>5, <2>1, <2>2, PartsNext
<1>7. \A b \in Bodies : acked'[b] >= acked[b] /\ dlq'[b] >= dlq[b]
  BY Types DEF Retry
<1> QED BY <1>1, <1>2, <1>4, <1>5, <1>6, <1>7, Settled DEF Retry, PutBack

LEMMA ReleaseUnprocessedInv ==
  ASSUME IInv, NEW w \in Workers, ReleaseUnprocessed(w)
  PROVE  IInv'
<1> USE DEF IInv
<1>1. /\ pc[w] = "busy" /\ Body(w) \in Bodies /\ job[w] \in Raws /\ job[w][1] = Body(w)
      /\ job[w][2] <= Limit /\ PutBack(w, job[w], 0)
  BY Busy DEF ReleaseUnprocessed, Body
<1>2. /\ delayed' \in [Raws -> Nat \cup {Absent}] /\ late' \in [Bodies -> Nat]
      /\ \A x \in Raws : delayed'[x] # Absent => delayed[x] # Absent \/ x[2] <= Limit
      /\ \A x \in Raws : delayed[x] # Absent => delayed'[x] # Absent
      /\ \E x \in Raws : x[1] = Body(w) /\ delayed'[x] # Absent
  <2>1. 0 \in Delays \cup {0}
    OBVIOUS
  <2> QED BY <1>1, <2>1, PutBackFacts
<1>3. WorkerOK' /\ trouble' \in 0 .. MaxTrouble /\ Idle(w) /\ Trouble
  BY WorkerIdle, TroubleType DEF ReleaseUnprocessed, WorkerOK
<1>4. TypeOK'
  <2>1. returned' \in [Bodies -> Nat]
    BY <1>1, Types, PlusType DEF ReleaseUnprocessed
  <2>2. HistoryOK'
    BY <1>2, <2>1, Types, HistoryTypes DEF ReleaseUnprocessed
  <2>3. StoreOK'
    BY <1>1, <1>2, RemovalType, Parts DEF StoreOK, ReleaseUnprocessed, PutBack
  <2> QED BY <1>3, <2>2, <2>3, PartsNext
<1>5. \A b \in Bodies : acked'[b] >= acked[b] /\ dlq'[b] >= dlq[b]
  BY Types DEF ReleaseUnprocessed
<1> QED BY <1>1, <1>2, <1>3, <1>4, <1>5, Settled DEF ReleaseUnprocessed, PutBack

-----------------------------------------------------------------------------
(* Crashes, publishes and the clock                                             *)

(* A member nobody holds any more has cost one trouble.                         *)
LEMMA LetGoInv ==
  ASSUME IInv, NEW w \in Workers, LetGo(w)
  PROVE  IInv'
<1> USE DEF IInv
<1>1. /\ Idle(w) /\ Trouble /\ UNCHANGED <<retryAfter, ready, reserved, delayed>>
      /\ UNCHANGED <<dlq, published, acked, delivered, returned, late, excuse>>
  BY DEF LetGo, zsets, history
<1>2. TypeOK'
  <2>1. WorkerOK' /\ trouble' \in 0 .. MaxTrouble
    BY <1>1, WorkerIdle, TroubleType DEF WorkerOK
  <2>2. StoreOK' /\ HistoryOK'
    BY <1>1, Parts DEF StoreOK, HistoryOK
  <2> QED BY <2>1, <2>2, PartsNext
<1>3. Limit' = Limit + 1 /\ Limit \in Nat
  BY <1>1, Types, LaravelAssumption DEF Limit, Trouble
<1>4. \A r \in Raws : r[2] \in Nat
  BY RawsType
<1>5. /\ pc'[w] = "idle"
      /\ \A v \in Workers \ {w} : pc'[v] = pc[v] /\ job'[v] = job[v] /\ handle'[v] = handle[v]
  BY <1>1, WorkerIdle
<1>6. Counts'
  <2>1. \A i \in 1 .. Len(ready) : ready[i][2] <= Limit'
    <3> SUFFICES ASSUME NEW i \in 1 .. Len(ready) PROVE ready[i][2] <= Limit'
      OBVIOUS
    <3>1. ready[i][2] <= Limit /\ ready[i][2] \in Nat
      BY <1>4, Types DEF Counts
    <3> QED BY <1>3, <3>1
  <2>2. \A r \in Raws : delayed[r] # Absent => r[2] <= Limit'
    <3> SUFFICES ASSUME NEW r \in Raws, delayed[r] # Absent PROVE r[2] <= Limit'
      OBVIOUS
    <3>1. r[2] <= Limit /\ r[2] \in Nat
      BY <1>4 DEF Counts
    <3> QED BY <1>3, <3>1
  <2>3. \A v \in Workers : pc'[v] = "busy" => job'[v][2] <= Limit'
    <3> SUFFICES ASSUME NEW v \in Workers, pc'[v] = "busy" PROVE job'[v][2] <= Limit'
      OBVIOUS
    <3>1. v # w /\ pc[v] = "busy" /\ job'[v] = job[v]
      BY <1>5
    <3>2. job'[v][2] <= Limit /\ job'[v][2] \in Nat
      BY <3>1, Busy
    <3> QED BY <1>3, <3>2
  <2>4. \A r \in Raws : reserved[r] # Absent =>
          r[2] <= Limit' \/ (reserved[r] # 0 /\ \E v \in Workers : handle'[v] = r)
    <3> SUFFICES ASSUME NEW r \in Raws, reserved[r] # Absent
                 PROVE  r[2] <= Limit' \/ (reserved[r] # 0 /\ \E v \in Workers : handle'[v] = r)
      OBVIOUS
    <3>1. r[2] \in Nat
      BY <1>4
    <3>2. CASE r[2] <= Limit
      BY <1>3, <3>1, <3>2
    <3>3. CASE reserved[r] # 0 /\ \E v \in Workers : handle[v] = r
      <4>1. PICK v \in Workers : handle[v] = r
        BY <3>3
      <4>2. CASE v = w
        <5>1. pc[w] = "busy"
          BY <4>1, <4>2, LaravelAssumption DEF TypeOK
        <5>2. r[2] <= Limit + 1
          BY <4>1, <4>2, <5>1, Busy
        <5> QED BY <1>3, <5>2
      <4>3. CASE v # w
        BY <1>5, <3>3, <4>1, <4>3
      <4> QED BY <4>2, <4>3
    <3> QED BY <3>2, <3>3 DEF Counts
  <2> QED BY <1>1, <2>1, <2>2, <2>3, <2>4 DEF Counts
<1>7. NothingLost'
  BY <1>1 DEF NothingLost
<1> QED BY <1>2, <1>6, <1>7

LEMMA PublishInv ==
  ASSUME IInv, NEW b \in Bodies, Publish(b)
  PROVE  IInv'
<1> USE DEF IInv
<1> DEFINE n == <<b, 0>>
<1>1. n \in Raws /\ n[1] = b /\ n[2] = 0
  BY RawOf, LaravelAssumption
<1> HIDE DEF n
<1>2. /\ UNCHANGED <<retryAfter, reserved, dlq, worker, acked, delivered, returned, late, excuse, trouble>>
      /\ published' = Plus(published, b) /\ published' \in [Bodies -> Nat]
      /\ \A x \in Bodies \ {b} : published'[x] = published[x]
  BY Types, PlusType DEF Publish, Plus
<1>3. PICK more \in Seq(Raws) :
        /\ ready' = ready \o more
        /\ delayed' \in [Raws -> Nat \cup {Absent}]
        /\ \A x \in Raws : delayed'[x] # Absent => delayed[x] # Absent \/ x = n
        /\ \A x \in Raws : delayed[x] # Absent => delayed'[x] # Absent
        /\ \A i \in 1 .. Len(more) : more[i] = n
        /\ (\E i \in 1 .. Len(more) : more[i] = n) \/ delayed'[n] # Absent
  <2>0. delayed \in [Raws -> Nat \cup {Absent}] /\ ready \in Seq(Raws)
    BY Parts DEF StoreOK
  <2>1. CASE ready' = Append(ready, n) /\ UNCHANGED delayed
    <3>1. /\ <<n>> \in Seq(Raws) /\ ready' = ready \o <<n>> /\ Len(<<n>>) = 1 /\ <<n>>[1] = n
          /\ 1 \in 1 .. Len(<<n>>) /\ \A i \in 1 .. Len(<<n>>) : <<n>>[i] = n
      BY <1>1, <2>0, <2>1
    <3> QED BY <2>0, <2>1, <3>1
  <2>2. CASE \E d \in Delays : delayed' = Zadd(delayed, n, d) /\ UNCHANGED ready
    <3>1. PICK d \in Delays : delayed' = [delayed EXCEPT ![n] = d] /\ ready' = ready
      BY <2>2 DEF Zadd
    <3>2. d \in Nat /\ d # Absent
      BY LaravelAssumption DEF Absent
    <3>3. <<>> \in Seq(Raws) /\ ready' = ready \o <<>> /\ Len(<<>>) = 0
      BY <2>0, <3>1
    <3>4. /\ delayed' \in [Raws -> Nat \cup {Absent}] /\ delayed'[n] = d
          /\ \A x \in Raws \ {n} : delayed'[x] = delayed[x]
      BY <1>1, <2>0, <3>1, <3>2
    <3> WITNESS <<>> \in Seq(Raws)
    <3> QED BY <3>2, <3>3, <3>4
  <2> QED BY <2>1, <2>2 DEF Publish, n
<1>4. /\ ready' \in Seq(Raws)
      /\ \A i \in 1 .. Len(ready) : i \in 1 .. Len(ready') /\ ready'[i] = ready[i]
      /\ \A i \in 1 .. Len(more) : Len(ready) + i \in 1 .. Len(ready') /\ ready'[Len(ready) + i] = more[i]
      /\ \A i \in 1 .. Len(ready') : (i \in 1 .. Len(ready) /\ ready'[i] = ready[i]) \/ ready'[i] = n
  <2>1. ready \in Seq(Raws) /\ more \in Seq(Raws) /\ ready' = ready \o more
    BY <1>3, Types
  <2>2. /\ ready' \in Seq(Raws)
        /\ \A i \in 1 .. Len(ready) : i \in 1 .. Len(ready') /\ ready'[i] = ready[i]
        /\ \A i \in 1 .. Len(more) : Len(ready) + i \in 1 .. Len(ready') /\ ready'[Len(ready) + i] = more[i]
        /\ \A i \in 1 .. Len(ready') :
             \/ i \in 1 .. Len(ready) /\ ready'[i] = ready[i]
             \/ \E j \in 1 .. Len(more) : i = Len(ready) + j /\ ready'[i] = more[j]
    BY <2>1, Joined
  <2> QED BY <1>3, <2>2
<1>5. TypeOK'
  <2>1. HistoryOK'
    BY <1>2, Types, HistoryTypes
  <2>2. StoreOK' /\ WorkerOK' /\ trouble' \in 0 .. MaxTrouble
    BY <1>2, <1>3, <1>4, Parts DEF StoreOK, WorkerOK, worker
  <2> QED BY <2>1, <2>2, PartsNext
<1>6. Counts'
  <2>1. 0 <= Limit /\ Limit' = Limit
    BY <1>2, Types DEF Limit
  <2>2. /\ \A i \in 1 .. Len(ready') : ready'[i][2] <= Limit
        /\ \A r \in Raws : delayed'[r] # Absent => r[2] <= Limit
    BY <1>1, <1>3, <1>4, <2>1 DEF Counts
  <2> QED BY <1>2, <2>1, <2>2 DEF Counts, worker
<1>7. NothingLost'
  <2> SUFFICES ASSUME NEW x \in Bodies, published'[x] > 0
               PROVE  acked'[x] > 0 \/ dlq'[x] > 0 \/ Somewhere(x)'
    BY <1>5, AccountedNext
  <2>1. CASE x = b
    <3>1. CASE \E i \in 1 .. Len(more) : more[i] = n
      BY <1>1, <1>4, <2>1, <3>1 DEF Somewhere
    <3>2. CASE delayed'[n] # Absent
      BY <1>1, <2>1, <3>2 DEF Somewhere
    <3> QED BY <1>3, <3>1, <3>2
  <2>2. CASE x # b
    <3>1. acked[x] > 0 \/ dlq[x] > 0 \/ Somewhere(x)
      BY <1>2, <2>2, Accounted
    <3>2. Somewhere(x) => Somewhere(x)'
      BY <1>2, <1>3, <1>4 DEF Somewhere
    <3> QED BY <1>2, <3>1, <3>2
  <2> QED BY <2>1, <2>2
<1> QED BY <1>5, <1>6, <1>7

(* A reservation that runs out under its worker costs one trouble.              *)
LEMMA TickInv ==
  ASSUME IInv, Tick
  PROVE  IInv'
<1> USE DEF IInv
<1>1. /\ trouble' = trouble + Cardinality(Outlived) /\ trouble + Cardinality(Outlived) <= MaxTrouble
      /\ reserved' = Elapse(reserved) /\ delayed' = Elapse(delayed)
      /\ UNCHANGED <<retryAfter, ready, dlq, pc, job, handle, published, acked, delivered, returned, late>>
  BY DEF Tick, worker
<1>2. IsFiniteSet(Outlived) /\ Cardinality(Outlived) \in Nat
      /\ \A b \in Bodies : Cardinality({r \in Outlived : r[1] = b}) \in Nat
  BY RawsFinite, FS_Subset, FS_CardinalityType DEF Outlived
<1>3. /\ \A r \in Raws : reserved'[r] = IF reserved[r] > 0 THEN reserved[r] - 1 ELSE reserved[r]
      /\ \A r \in Raws : delayed'[r] = IF delayed[r] > 0 THEN delayed[r] - 1 ELSE delayed[r]
      /\ \A r \in Raws : reserved[r] \in Nat \cup {Never, Absent} /\ delayed[r] \in Nat \cup {Absent}
  BY <1>1, Types DEF Elapse
<1>4. \A r \in Raws : /\ reserved'[r] \in Nat \cup {Never, Absent} /\ delayed'[r] \in Nat \cup {Absent}
                      /\ reserved'[r] = Absent <=> reserved[r] = Absent
                      /\ delayed'[r] = Absent <=> delayed[r] = Absent
  BY <1>3 DEF Never, Absent
<1>5. TypeOK'
  <2>1. StoreOK'
    <3>1. reserved' \in [Raws -> Nat \cup {Never, Absent}] /\ delayed' \in [Raws -> Nat \cup {Absent}]
      BY <1>1, <1>4 DEF Elapse
    <3> QED BY <1>1, <3>1, Parts DEF StoreOK
  <2>2. excuse' \in [Bodies -> Nat]
    <3>1. \A b \in Bodies : excuse[b] + Cardinality({r \in Outlived : r[1] = b}) \in Nat
      <4> SUFFICES ASSUME NEW b \in Bodies
                   PROVE  excuse[b] + Cardinality({r \in Outlived : r[1] = b}) \in Nat
        OBVIOUS
      <4> DEFINE k == Cardinality({r \in Outlived : r[1] = b})
      <4>1. k \in Nat
        BY <1>2
      <4>2. excuse[b] \in Nat
        BY Types
      <4> HIDE DEF k
      <4>3. excuse[b] + k \in Nat
        BY <4>1, <4>2
      <4> QED BY <4>3 DEF k
    <3> QED BY <3>1 DEF Tick
  <2>3. HistoryOK'
    BY <1>1, <2>2, Types, HistoryTypes
  <2>4. WorkerOK' /\ trouble' \in 0 .. MaxTrouble
    BY <1>1, <1>2, Parts, Types, LaravelAssumption DEF WorkerOK
  <2> QED BY <2>1, <2>3, <2>4, PartsNext
<1>6. Limit' = Limit + Cardinality(Outlived) /\ Limit \in Nat /\ Limit' >= Limit /\ Limit' \in Nat
  <2>1. Limit' = (MaxAttempts - 1) + (trouble + Cardinality(Outlived)) /\ Limit = (MaxAttempts - 1) + trouble
    BY <1>1 DEF Limit
  <2>2. trouble \in Nat /\ MaxAttempts \in Nat \ {0}
    BY Types, LaravelAssumption
  <2> QED BY <1>2, <2>1, <2>2
<1>7. \A r \in Raws : r[2] \in Nat
  BY RawsType
<1>8. Counts'
  <2>1. \A i \in 1 .. Len(ready) : ready[i][2] <= Limit'
    <3> SUFFICES ASSUME NEW i \in 1 .. Len(ready) PROVE ready[i][2] <= Limit'
      OBVIOUS
    <3>1. ready[i][2] <= Limit /\ ready[i][2] \in Nat
      BY <1>7, Types DEF Counts
    <3> QED BY <1>6, <3>1
  <2>2. \A r \in Raws : delayed'[r] # Absent => r[2] <= Limit'
    <3> SUFFICES ASSUME NEW r \in Raws, delayed'[r] # Absent PROVE r[2] <= Limit'
      OBVIOUS
    <3>1. r[2] <= Limit /\ r[2] \in Nat
      BY <1>4, <1>7 DEF Counts
    <3> QED BY <1>6, <3>1
  <2>3. \A v \in Workers : pc[v] = "busy" => job[v][2] <= Limit'
    <3> SUFFICES ASSUME NEW v \in Workers, pc[v] = "busy" PROVE job[v][2] <= Limit'
      OBVIOUS
    <3>1. job[v][2] <= Limit /\ job[v][2] \in Nat
      BY Busy
    <3> QED BY <1>6, <3>1
  <2>4. \A r \in Raws : reserved'[r] # Absent =>
          r[2] <= Limit' \/ (reserved'[r] # 0 /\ \E v \in Workers : handle[v] = r)
    <3> SUFFICES ASSUME NEW r \in Raws, reserved'[r] # Absent
                 PROVE  r[2] <= Limit' \/ (reserved'[r] # 0 /\ \E v \in Workers : handle[v] = r)
      OBVIOUS
    <3>1. r[2] \in Nat /\ reserved[r] # Absent
      BY <1>4, <1>7
    <3>2. CASE r[2] <= Limit
      BY <1>6, <3>1, <3>2
    <3>3. CASE reserved[r] # 0 /\ \E v \in Workers : handle[v] = r
      <4>1. PICK v \in Workers : handle[v] = r
        BY <3>3
      <4>2. CASE reserved[r] = 1
        <5>1. r \in Outlived
          BY <4>1, <4>2 DEF Outlived
        <5>2. Cardinality(Outlived) # 0
          BY <1>2, <5>1, FS_EmptySet
        <5>3. pc[v] = "busy"
          BY <4>1, LaravelAssumption DEF TypeOK
        <5>4. r[2] <= Limit + 1
          BY <4>1, <5>3, Busy
        <5> QED BY <1>2, <1>6, <3>1, <5>2, <5>4
      <4>3. CASE reserved[r] # 1
        <5>1. reserved'[r] # 0
          BY <1>3, <3>3, <4>3 DEF Never, Absent
        <5> QED BY <4>1, <5>1
      <4> QED BY <4>2, <4>3
    <3> QED BY <3>1, <3>2, <3>3 DEF Counts
  <2> QED BY <1>1, <2>1, <2>2, <2>3, <2>4 DEF Counts
<1>9. NothingLost'
  BY <1>1, <1>4 DEF NothingLost
<1> QED BY <1>5, <1>8, <1>9

-----------------------------------------------------------------------------
(* pop()                                                                        *)

(* A migration keeps every job: what left the set is at the end of the list.    *)
LEMMA Migrated ==
  ASSUME IInv, NEW S \in SUBSET Raws, NEW order \in Seq(Raws), ready' = ready \o order,
         \A i \in 1 .. Len(order) : order[i] \in S,
         \A r \in S : \E i \in 1 .. Len(order) : order[i] = r,
         \A r \in S : r[2] <= Limit,
         TypeOK',
         \A r \in Raws : /\ reserved'[r] = reserved[r] \/ (r \in S /\ reserved'[r] = Absent)
                         /\ delayed'[r] = delayed[r] \/ (r \in S /\ delayed'[r] = Absent),
         UNCHANGED <<job, handle, published, acked, dlq, trouble>>,
         \A w \in Workers : pc'[w] = "busy" => pc[w] = "busy"
  PROVE  IInv'
<1> USE DEF IInv
<1>1. Limit' = Limit
  BY DEF Limit
<1>2. ready \in Seq(Raws)
  BY Types
<1>3. /\ \A i \in 1 .. Len(ready) : i \in 1 .. Len(ready') /\ ready'[i] = ready[i]
      /\ \A i \in 1 .. Len(order) : Len(ready) + i \in 1 .. Len(ready') /\ ready'[Len(ready) + i] = order[i]
      /\ \A i \in 1 .. Len(ready') :
           \/ i \in 1 .. Len(ready) /\ ready'[i] = ready[i]
           \/ \E j \in 1 .. Len(order) : i = Len(ready) + j /\ ready'[i] = order[j]
  BY <1>2, Joined
<1>4. \A r \in S : \E i \in 1 .. Len(ready') : ready'[i] = r
  <2> SUFFICES ASSUME NEW r \in S PROVE \E i \in 1 .. Len(ready') : ready'[i] = r
    OBVIOUS
  <2>1. PICK j \in 1 .. Len(order) : order[j] = r
    OBVIOUS
  <2> QED BY <1>3, <2>1
<1>5. Counts'
  <2>1. \A i \in 1 .. Len(ready') : ready'[i][2] <= Limit
    <3> SUFFICES ASSUME NEW i \in 1 .. Len(ready') PROVE ready'[i][2] <= Limit
      OBVIOUS
    <3>1. CASE i \in 1 .. Len(ready) /\ ready'[i] = ready[i]
      BY <3>1 DEF Counts
    <3>2. CASE \E j \in 1 .. Len(order) : i = Len(ready) + j /\ ready'[i] = order[j]
      BY <3>2
    <3> QED BY <1>3, <3>1, <3>2
  <2>2. \A r \in Raws : delayed'[r] # Absent => r[2] <= Limit
    BY DEF Counts
  <2>3. \A w \in Workers : pc'[w] = "busy" => job'[w][2] <= Limit
    BY DEF Counts
  <2>4. \A r \in Raws : reserved'[r] # Absent =>
          r[2] <= Limit \/ (reserved'[r] # 0 /\ \E w \in Workers : handle'[w] = r)
    BY DEF Counts
  <2> QED BY <1>1, <2>1, <2>2, <2>3, <2>4 DEF Counts
<1>6. NothingLost'
  <2> SUFFICES ASSUME NEW b \in Bodies, published[b] > 0
               PROVE  acked[b] > 0 \/ dlq[b] > 0 \/ Somewhere(b)'
    BY AccountedNext
  <2>1. Somewhere(b) => Somewhere(b)'
    <3>1. CASE \E i \in 1 .. Len(ready) : ready[i][1] = b
      BY <1>3, <3>1 DEF Somewhere
    <3>2. CASE \E r \in Raws : r[1] = b /\ (reserved[r] # Absent \/ delayed[r] # Absent)
      <4>1. PICK r \in Raws : r[1] = b /\ (reserved[r] # Absent \/ delayed[r] # Absent)
        BY <3>2
      <4>2. CASE r \in S
        BY <1>4, <4>1, <4>2 DEF Somewhere
      <4>3. CASE r \notin S
        <5>1. reserved'[r] = reserved[r] /\ delayed'[r] = delayed[r]
          BY <4>3
        <5> QED BY <4>1, <5>1 DEF Somewhere
      <4> QED BY <4>2, <4>3
    <3> QED BY <3>1, <3>2 DEF Somewhere
  <2> QED BY <2>1, Accounted
<1> QED BY <1>5, <1>6

LEMMA Stepped ==
  ASSUME IInv, NEW w \in Workers, NEW place \in {"idle", "reserved", "pop"}, pc[w] # "busy",
         Step(w, place), UNCHANGED <<job, handle>>
  PROVE  WorkerOK' /\ \A v \in Workers : pc'[v] = "busy" => pc[v] = "busy"
BY Parts DEF IInv, Step, WorkerOK

LEMMA MigrateDelayedInv ==
  ASSUME IInv, NEW w \in Workers, MigrateDelayed(w)
  PROVE  IInv'
<1> USE DEF IInv
<1>8. PICK S \in Selections(delayed) : \E order \in Orders(S) :
        delayed' = Zrem(delayed, S) /\ ready' = ready \o order
  BY DEF MigrateDelayed
<1>1. PICK order \in Orders(S) : delayed' = Zrem(delayed, S) /\ ready' = ready \o order
  BY <1>8
<1>2. /\ S \subseteq Due(delayed) /\ S \subseteq Raws
      /\ order \in Seq(Raws) /\ \A i \in 1 .. Len(order) : order[i] \in S
      /\ \A r \in S : \E i \in 1 .. Len(order) : order[i] = r
  <2>1. delayed \in [Raws -> Int]
    BY Types
  <2> QED BY <2>1, MigrationOrder
<1>3. \A r \in Raws : delayed'[r] = IF r \in S THEN Absent ELSE delayed[r]
  BY <1>1 DEF Zrem
<1>4. \A r \in S : r[2] <= Limit
  BY <1>2 DEF Counts, Due, Absent
<1>5. WorkerOK' /\ \A v \in Workers : pc'[v] = "busy" => pc[v] = "busy"
  BY Stepped DEF MigrateDelayed
<1>6. TypeOK'
  <2>1. ready' \in Seq(Raws)
    BY <1>1, <1>2, Types, Joined
  <2>2. delayed' \in [Raws -> Nat \cup {Absent}]
    BY <1>1, Parts DEF Zrem, StoreOK
  <2>3. StoreOK' /\ HistoryOK' /\ trouble' \in 0 .. MaxTrouble
    BY <2>1, <2>2, Parts DEF StoreOK, HistoryOK, MigrateDelayed, history
  <2> QED BY <1>5, <2>3, PartsNext
<1>7. UNCHANGED <<job, handle, published, acked, dlq, trouble, reserved>>
  BY DEF MigrateDelayed, history
<1>9. \A r \in Raws : /\ reserved'[r] = reserved[r] \/ (r \in S /\ reserved'[r] = Absent)
                      /\ delayed'[r] = delayed[r] \/ (r \in S /\ delayed'[r] = Absent)
  BY <1>3, <1>7
<1> HIDE DEF IInv
<1> QED BY <1>1, <1>2, <1>4, <1>5, <1>6, <1>7, <1>9, Migrated

LEMMA MigrateReservedInv ==
  ASSUME IInv, NEW w \in Workers, MigrateReserved(w)
  PROVE  IInv'
<1> USE DEF IInv
<1>5. WorkerOK' /\ \A v \in Workers : pc'[v] = "busy" => pc[v] = "busy"
  BY Stepped DEF MigrateReserved
<1>7. UNCHANGED <<retryAfter, job, handle, published, acked, dlq, trouble, delayed>> /\ HistoryOK'
  BY Parts DEF MigrateReserved, history, HistoryOK
<1>8. CASE Recovers
  <2>6. PICK S \in Selections(reserved) : \E order \in Orders(S) :
          reserved' = Zrem(reserved, S) /\ ready' = ready \o order
    BY <1>8 DEF MigrateReserved
  <2>1. PICK order \in Orders(S) : reserved' = Zrem(reserved, S) /\ ready' = ready \o order
    BY <2>6
  <2>2. /\ S \subseteq Due(reserved) /\ S \subseteq Raws
        /\ order \in Seq(Raws) /\ \A i \in 1 .. Len(order) : order[i] \in S
        /\ \A r \in S : \E i \in 1 .. Len(order) : order[i] = r
    <3>1. reserved \in [Raws -> Int]
      BY Types
    <3> QED BY <3>1, MigrationOrder
  <2>3. \A r \in Raws : reserved'[r] = IF r \in S THEN Absent ELSE reserved[r]
    BY <2>1 DEF Zrem
  <2>4. \A r \in S : r[2] <= Limit
    BY <2>2 DEF Counts, Due, Absent
  <2>5. TypeOK'
    <3>1. ready' \in Seq(Raws)
      BY <2>1, <2>2, Types, Joined
    <3>2. reserved' \in [Raws -> Nat \cup {Never, Absent}]
      BY <2>1, Parts DEF Zrem, StoreOK
    <3>3. StoreOK' /\ trouble' \in 0 .. MaxTrouble
      BY <1>7, <3>1, <3>2, Parts DEF StoreOK
    <3> QED BY <1>5, <1>7, <3>3, PartsNext
  <2>7. \A r \in Raws : /\ reserved'[r] = reserved[r] \/ (r \in S /\ reserved'[r] = Absent)
                        /\ delayed'[r] = delayed[r] \/ (r \in S /\ delayed'[r] = Absent)
    BY <1>7, <2>3
  <2> HIDE DEF IInv
  <2> QED BY <1>5, <1>7, <2>1, <2>2, <2>4, <2>5, <2>7, Migrated
<1>9. CASE ~ Recovers
  <2>1. UNCHANGED <<reserved, ready>>
    BY <1>9 DEF MigrateReserved
  <2>2. TypeOK'
    BY <1>5, <1>7, <2>1, Parts, PartsNext DEF StoreOK
  <2>3. Counts'
    BY <1>5, <1>7, <2>1 DEF Counts, Limit
  <2>4. NothingLost'
    BY <1>7, <2>1 DEF NothingLost
  <2> QED BY <2>2, <2>3, <2>4
<1> QED BY <1>8, <1>9

(* The head of the list is the new member of :reserved.                         *)
LEMMA PopInv ==
  ASSUME IInv, NEW w \in Workers, Pop(w)
  PROVE  IInv'
<1> USE DEF IInv
<1>1. /\ UNCHANGED <<retryAfter, delayed, dlq, published, acked, returned, late, excuse, trouble>>
      /\ pc[w] = "pop" /\ Limit' = Limit
  BY DEF Pop, Limit
<1>2. CASE ready = <<>> /\ Step(w, "idle") /\ UNCHANGED <<ready, reserved, job, handle, delivered>>
  <2>1. WorkerOK' /\ \A v \in Workers : pc'[v] = "busy" => pc[v] = "busy"
    BY <1>1, <1>2, Stepped
  <2>2. TypeOK'
    BY <1>1, <1>2, <2>1, Parts, PartsNext DEF StoreOK, HistoryOK
  <2>3. Counts'
    BY <1>1, <1>2, <2>1 DEF Counts
  <2>4. NothingLost'
    BY <1>1, <1>2 DEF NothingLost
  <2> QED BY <2>2, <2>3, <2>4
<1>3. CASE /\ ready # <<>> /\ Step(w, "busy")
           /\ reserved' = Reserve(Head(ready))
           /\ job' = [job EXCEPT ![w] = Delivered(Head(ready))]
           /\ handle' = [handle EXCEPT ![w] = Counted(Head(ready))]
           /\ delivered' = Plus(delivered, Head(ready)[1])
           /\ ready' = Tail(ready)
  <2>1. PICK h \in Raws : h = Head(ready) /\ h = ready[1] /\ 1 \in 1 .. Len(ready)
    BY <1>3, Types
  <2>2. /\ h[1] \in Bodies /\ h[2] \in Nat /\ h[2] <= Limit /\ h = <<h[1], h[2]>>
        /\ h # None
    BY <2>1, RawsType, LaravelAssumption DEF Counts
  <2>3. Counted(h) \in Raws /\ Counted(h)[1] = h[1] /\ Counted(h) # None
    <3>1. h[2] + 1 \in Nat /\ h[2] + 1 <= MaxAttempts + MaxTrouble
      <4>1. Limit \in Nat /\ Limit + 1 <= MaxAttempts + MaxTrouble
        BY Types
      <4>2. MaxAttempts + MaxTrouble \in Nat
        BY LaravelAssumption
      <4> HIDE DEF Limit, IInv
      <4> QED BY <2>2, <4>1, <4>2
    <3>2. <<h[1], h[2] + 1>> \in Raws
      BY <2>2, <3>1, RawOf
    <3> QED BY <2>1, <3>2, LaravelAssumption DEF Counted
  <2>4. /\ retryAfter \in Nat \cup {Never, Absent} /\ retryAfter # 0 /\ retryAfter # Absent
    <3>1. retryAfter \in (Nat \ {0}) \cup {Never}
      BY Parts, LaravelAssumption DEF StoreOK
    <3> QED BY <3>1 DEF Never, Absent
  <2>5. /\ reserved' \in [Raws -> Nat \cup {Never, Absent}]
        /\ reserved'[Counted(h)] = retryAfter
        /\ \A r \in Raws : r # Counted(h) => reserved'[r] = reserved[r]
    <3>1. reserved' = [reserved EXCEPT ![Counted(h)] = retryAfter]
      BY <1>3, <2>1 DEF Reserve, Zadd
    <3> QED BY <2>3, <2>4, <3>1, Parts DEF StoreOK
  <2>6. /\ ready' \in Seq(Raws) /\ Len(ready') = Len(ready) - 1
        /\ \A i \in 1 .. Len(ready') : i + 1 \in 1 .. Len(ready) /\ ready'[i] = ready[i + 1]
    <3>1. ready \in Seq(Raws) /\ ready # <<>> /\ ready' = Tail(ready)
      BY <1>3, Types
    <3> QED BY <3>1
  <2>7. /\ job'[w] = h /\ handle'[w] = Counted(h) /\ pc'[w] = "busy"
        /\ \A v \in Workers \ {w} : job'[v] = job[v] /\ handle'[v] = handle[v] /\ pc'[v] = pc[v]
        /\ handle[w] = None
    BY <1>1, <1>3, <2>1, Parts DEF WorkerOK, Step, Delivered
  <2>8. TypeOK'
    <3>1. WorkerOK'
      <4>1. job' \in [Workers -> Raws \cup {None}] /\ handle' \in [Workers -> Raws \cup {None}]
            /\ pc' \in [Workers -> {"idle", "reserved", "pop", "busy"}]
        BY <1>3, <2>1, <2>3, Parts DEF WorkerOK, Step, Delivered
      <4>2. \A v \in Workers :
              IF pc'[v] = "busy" THEN job'[v] # None /\ handle'[v] = Counted(job'[v])
              ELSE job'[v] = None /\ handle'[v] = None
        <5> SUFFICES ASSUME NEW v \in Workers
                     PROVE  IF pc'[v] = "busy" THEN job'[v] # None /\ handle'[v] = Counted(job'[v])
                            ELSE job'[v] = None /\ handle'[v] = None
          OBVIOUS
        <5>1. CASE v = w
          BY <2>2, <2>7, <5>1
        <5>2. CASE v # w
          BY <2>7, <5>2, Parts DEF WorkerOK
        <5> QED BY <5>1, <5>2
      <4> QED BY <4>1, <4>2 DEF WorkerOK
    <3>2. delivered' \in [Bodies -> Nat]
      BY <1>3, <2>1, <2>2, Types, PlusType
    <3>3. HistoryOK'
      BY <1>1, <3>2, Types, HistoryTypes
    <3>4. StoreOK' /\ trouble' \in 0 .. MaxTrouble
      BY <1>1, <2>5, <2>6, Parts DEF StoreOK
    <3> QED BY <3>1, <3>3, <3>4, PartsNext
  <2>9. Counts'
    <3>1. \A i \in 1 .. Len(ready') : ready'[i][2] <= Limit
      BY <2>6 DEF Counts
    <3>2. \A v \in Workers : pc'[v] = "busy" => job'[v][2] <= Limit
      BY <2>2, <2>7 DEF Counts
    <3>3. \A r \in Raws : reserved'[r] # Absent =>
            r[2] <= Limit \/ (reserved'[r] # 0 /\ \E v \in Workers : handle'[v] = r)
      <4> SUFFICES ASSUME NEW r \in Raws, reserved'[r] # Absent
                   PROVE  r[2] <= Limit \/ (reserved'[r] # 0 /\ \E v \in Workers : handle'[v] = r)
        OBVIOUS
      <4>1. CASE r = Counted(h)
        BY <2>4, <2>5, <2>7, <4>1
      <4>2. CASE r # Counted(h)
        <5>1. reserved'[r] = reserved[r]
          BY <2>5, <4>2
        <5>2. CASE reserved[r] # 0 /\ \E v \in Workers : handle[v] = r
          <6>1. PICK v \in Workers : handle[v] = r
            BY <5>2
          <6>2. v # w
            BY <2>7, <6>1, LaravelAssumption
          <6> QED BY <2>7, <5>1, <5>2, <6>1, <6>2
        <5> QED BY <5>1, <5>2 DEF Counts
      <4> QED BY <4>1, <4>2
    <3>4. \A r \in Raws : delayed'[r] # Absent => r[2] <= Limit
      BY <1>1 DEF Counts
    <3> QED BY <1>1, <3>1, <3>2, <3>3, <3>4 DEF Counts
  <2>10. NothingLost'
    <3> SUFFICES ASSUME NEW b \in Bodies, published[b] > 0
                 PROVE  acked[b] > 0 \/ dlq[b] > 0 \/ Somewhere(b)'
      BY <1>1, <2>8, AccountedNext
    <3>1. Somewhere(b) => Somewhere(b)'
      <4>1. CASE \E i \in 1 .. Len(ready) : ready[i][1] = b
        <5>1. PICK i \in 1 .. Len(ready) : ready[i][1] = b
          BY <4>1
        <5>2. CASE i = 1
          <6>1. Counted(h)[1] = b /\ reserved'[Counted(h)] # Absent
            BY <2>1, <2>3, <2>4, <2>5, <5>1, <5>2
          <6> QED BY <2>3, <6>1 DEF Somewhere
        <5>3. CASE i # 1
          <6>1. i - 1 \in 1 .. Len(ready') /\ (i - 1) + 1 = i
            BY <2>6, <5>3, Types
          <6> QED BY <2>6, <5>1, <6>1 DEF Somewhere
        <5> QED BY <5>2, <5>3
      <4>2. CASE \E r \in Raws : r[1] = b /\ (reserved[r] # Absent \/ delayed[r] # Absent)
        <5>1. PICK r \in Raws : r[1] = b /\ (reserved[r] # Absent \/ delayed[r] # Absent)
          BY <4>2
        <5>2. reserved'[r] # Absent \/ delayed'[r] # Absent
          BY <1>1, <2>4, <2>5, <5>1
        <5> QED BY <5>1, <5>2 DEF Somewhere
      <4> QED BY <4>1, <4>2 DEF Somewhere
    <3> QED BY <3>1, Accounted
  <2> QED BY <2>8, <2>9, <2>10
<1> QED BY <1>2, <1>3 DEF Pop

LEMMA NextInv ==
  ASSUME IInv, [Next]_vars
  PROVE  IInv'
<1>1. CASE \E b \in Bodies : Publish(b)
  BY <1>1, PublishInv
<1>2. CASE Tick
  BY <1>2, TickInv
<1>3. ASSUME NEW w \in Workers, Poll(w) \/ Settle(w) \/ ReleaseUnprocessed(w) \/ LetGo(w)
      PROVE  IInv'
  BY <1>3, MigrateDelayedInv, MigrateReservedInv, PopInv, AckInv, RetryInv, DeadLetterInv,
     ReleaseUnprocessedInv, LetGoInv DEF Poll, Settle
<1>4. CASE UNCHANGED vars
  BY <1>4 DEF IInv, TypeOK, Counts, NothingLost, Limit, vars, zsets, worker, history
<1> QED BY <1>1, <1>2, <1>3, <1>4 DEF Next

-----------------------------------------------------------------------------
(* The theorems                                                                 *)

(* The inductive invariant of the Laravel layout, whatever the workers, the     *)
(* scripts and the clock do (RedisTransport, laravel_compat).                   *)
THEOREM Invariants == Spec => []IInv
<1>1. Init => IInv
  BY InitInv
<1>2. IInv /\ [Next]_vars => IInv'
  BY NextInv
<1> QED BY <1>1, <1>2, PTL DEF Spec

(* The keys, the workers and the history keep their types: in particular no     *)
(* stored value has more attempts than the model can name.                      *)
THEOREM TypeCorrect == Spec => []TypeOK
<1>1. IInv => TypeOK
  BY DEF IInv
<1> QED BY <1>1, Invariants, PTL

(* A published job is in a list, in a set, dead-lettered or was acked, for any  *)
(* number of workers and equal jobs, any retry_after and any batch size.        *)
THEOREM NoJobLost == Spec => []NothingLost
<1>1. IInv => NothingLost
  BY DEF IInv
<1> QED BY <1>1, Invariants, PTL

-----------------------------------------------------------------------------
(* Where the copies of a job are                                                *)

(* The places of a list, and the members of a set, that hold b.                 *)
At(s, b) == {i \in 1 .. Len(s) : s[i][1] = b}
Of(S, b) == {r \in S : r[1] = b}
CopiesIn(list, resv, wait, dead, b) ==
  Cardinality(At(list, b)) + Cardinality(In(resv, b)) + Cardinality(In(wait, b)) + dead[b]

LEMMA AtType ==
  ASSUME NEW s \in Seq(Raws), NEW b
  PROVE  IsFiniteSet(At(s, b)) /\ Cardinality(At(s, b)) \in Nat
<1>1. IsFiniteSet(1 .. Len(s))
  <2>1. Len(s) \in Nat
    OBVIOUS
  <2> QED BY <2>1, FS_Interval
<1> QED BY <1>1, FS_Subset, FS_CardinalityType DEF At

LEMMA InType ==
  ASSUME NEW z, NEW b
  PROVE  In(z, b) \subseteq Raws /\ IsFiniteSet(In(z, b)) /\ Cardinality(In(z, b)) \in Nat
BY RawsFinite, FS_Subset, FS_CardinalityType DEF In

LEMMA OfType ==
  ASSUME NEW S \in SUBSET Raws, NEW b
  PROVE  IsFiniteSet(Of(S, b)) /\ Cardinality(Of(S, b)) \in Nat
BY RawsFinite, FS_Subset, FS_CardinalityType DEF Of

LEMMA CopiesAre ==
  ASSUME TypeOK, NEW b \in Bodies
  PROVE  /\ Copies(b) = CopiesIn(ready, reserved, delayed, dlq, b) /\ Copies(b) \in Nat
         /\ InReady(b) = At(ready, b)
<1>1. ready \in Seq(Raws) /\ dlq[b] \in Nat
  BY Types
<1>2. InReady(b) = At(ready, b)
  BY <1>1 DEF InReady, At
<1> DEFINE x == Cardinality(At(ready, b))
           y == Cardinality(In(reserved, b))
           z == Cardinality(In(delayed, b))
<1>3. x \in Nat /\ y \in Nat /\ z \in Nat
  BY <1>1, AtType, InType
<1>4. Copies(b) = x + y + z + dlq[b] /\ CopiesIn(ready, reserved, delayed, dlq, b) = x + y + z + dlq[b]
  BY <1>2 DEF Copies, CopiesIn
<1> HIDE DEF x, y, z
<1> QED BY <1>1, <1>2, <1>3, <1>4

LEMMA CopiesNext ==
  ASSUME TypeOK', NEW b \in Bodies
  PROVE  Copies(b)' = CopiesIn(ready', reserved', delayed', dlq', b) /\ Copies(b)' \in Nat
<1>1. ready' \in Seq(Raws) /\ dlq'[b] \in Nat
  BY DEF TypeOK
<1>2. InReady(b)' = At(ready', b)
  BY <1>1 DEF InReady, At
<1> DEFINE x == Cardinality(At(ready', b))
           y == Cardinality(In(reserved', b))
           z == Cardinality(In(delayed', b))
<1>3. x \in Nat /\ y \in Nat /\ z \in Nat
  BY <1>1, AtType, InType
<1>4. Copies(b)' = x + y + z + dlq'[b] /\ CopiesIn(ready', reserved', delayed', dlq', b) = x + y + z + dlq'[b]
  BY <1>2 DEF Copies, CopiesIn
<1> HIDE DEF x, y, z
<1> QED BY <1>1, <1>3, <1>4

(* A list that is extended holds what both parts hold.                          *)
LEMMA AtJoined ==
  ASSUME NEW s \in Seq(Raws), NEW e \in Seq(Raws), NEW b
  PROVE  Cardinality(At(s \o e, b)) = Cardinality(At(s, b)) + Cardinality(At(e, b))
<1> DEFINE n == Len(s)
           New == {i \in At(s \o e, b) : i > n}
           f == [j \in At(e, b) |-> n + j]
<1>1. /\ n \in Nat /\ Len(e) \in Nat
      /\ s \o e \in Seq(Raws) /\ Len(s \o e) = n + Len(e)
      /\ \A i \in 1 .. n + Len(e) : (s \o e)[i] = IF i <= n THEN s[i] ELSE e[i - n]
  OBVIOUS
<1>2. IsFiniteSet(At(s, b)) /\ IsFiniteSet(At(e, b)) /\ Cardinality(At(s, b)) \in Nat
  BY AtType
<1> HIDE DEF n
<1>3. At(s, b) \cap New = {} /\ At(s \o e, b) = At(s, b) \cup New
  <2>1. \A i \in At(s, b) : i \in Nat /\ i <= n /\ i \in At(s \o e, b)
    BY <1>1 DEF At, n
  <2>2. \A i \in At(s \o e, b) : i \in Nat /\ (i <= n => i \in At(s, b))
    BY <1>1 DEF At, n
  <2> QED BY <1>1, <2>1, <2>2
<1>4. f \in Bijection(At(e, b), New)
  <2>1. \A j \in At(e, b) : j \in Nat /\ n + j \in New
    <3> SUFFICES ASSUME NEW j \in At(e, b) PROVE j \in Nat /\ n + j \in New
      OBVIOUS
    <3>1. j \in 1 .. Len(e) /\ e[j][1] = b
      BY DEF At
    <3>2. j \in Nat /\ n + j \in 1 .. n + Len(e) /\ n + j > n /\ (n + j) - n = j
      BY <1>1, <3>1
    <3>3. (s \o e)[n + j] = e[j]
      BY <1>1, <3>2
    <3> QED BY <1>1, <3>1, <3>2, <3>3 DEF At
  <2>2. \A i \in New : \E j \in At(e, b) : n + j = i
    <3> SUFFICES ASSUME NEW i \in New PROVE \E j \in At(e, b) : n + j = i
      OBVIOUS
    <3>1. i \in 1 .. n + Len(e) /\ i > n /\ (s \o e)[i][1] = b
      BY <1>1 DEF At
    <3>2. i - n \in 1 .. Len(e) /\ n + (i - n) = i /\ ~ i <= n
      BY <1>1, <3>1
    <3>3. e[i - n][1] = b
      BY <1>1, <3>1, <3>2
    <3> QED BY <3>2, <3>3 DEF At
  <2>3. \A j, k \in At(e, b) : n + j = n + k => j = k
    BY <1>1, <2>1
  <2> QED BY <2>1, <2>2, <2>3 DEF Bijection, Injection, Surjection, IsInjective
<1>5. IsFiniteSet(New) /\ Cardinality(New) = Cardinality(At(e, b)) /\ Cardinality(New) \in Nat
  BY <1>2, <1>4, FS_Bijection, FS_CardinalityType DEF ExistsBijection
<1> HIDE DEF New
<1> DEFINE u == Cardinality(At(s, b))
           v == Cardinality(New)
<1>6. Cardinality(At(s, b) \cup New) = u + v - Cardinality(At(s, b) \cap New)
  BY <1>2, <1>5, FS_Union
<1>7. Cardinality(At(s, b) \cap New) = 0
  BY <1>3, FS_EmptySet
<1>8. u \in Nat /\ v \in Nat
  BY <1>2, <1>5
<1>9. Cardinality(At(s \o e, b)) = u + v
  <2> HIDE DEF u, v
  <2> QED BY <1>3, <1>6, <1>7, <1>8
<1> QED BY <1>5, <1>9

LEMMA AtOne ==
  ASSUME NEW r \in Raws, NEW b
  PROVE  <<r>> \in Seq(Raws) /\ Cardinality(At(<<r>>, b)) = IF r[1] = b THEN 1 ELSE 0
<1>1. <<r>> \in Seq(Raws) /\ Len(<<r>>) = 1 /\ <<r>>[1] = r /\ 1 .. 1 = {1}
  OBVIOUS
<1>2. At(<<r>>, b) = IF r[1] = b THEN {1} ELSE {}
  BY <1>1 DEF At
<1> QED BY <1>1, <1>2, FS_EmptySet, FS_Singleton

(* The order of a migration lists each member once.                             *)
LEMMA AtOrder ==
  ASSUME NEW S \in SUBSET Raws, NEW order \in Orders(S), NEW b
  PROVE  Cardinality(At(order, b)) = Cardinality(Of(S, b))
<1>1. Cardinality(S) \in Nat
  BY RawsFinite, FS_Subset, FS_CardinalityType
<1>2. /\ order \in [1 .. Cardinality(S) -> S]
      /\ \A r \in S : \E i \in 1 .. Cardinality(S) : order[i] = r
      /\ \A i, j \in 1 .. Cardinality(S) : order[i] = order[j] => i = j
  BY DEF Orders, Bijection, Surjection, Injection, IsInjective
<1>3. order \in Seq(Raws) /\ Len(order) = Cardinality(S)
  BY <1>1, <1>2
<1> DEFINE f == [i \in At(order, b) |-> order[i]]
<1>4. f \in Bijection(At(order, b), Of(S, b))
  <2>1. \A i \in At(order, b) : order[i] \in Of(S, b)
    BY <1>2, <1>3 DEF At, Of
  <2>2. \A r \in Of(S, b) : \E i \in At(order, b) : order[i] = r
    BY <1>2, <1>3 DEF At, Of
  <2>3. \A i, j \in At(order, b) : order[i] = order[j] => i = j
    BY <1>2, <1>3 DEF At
  <2> QED BY <2>1, <2>2, <2>3 DEF Bijection, Injection, Surjection, IsInjective
<1> QED BY <1>3, <1>4, AtType, FS_Bijection DEF ExistsBijection

(* ZADD: a copy more, unless the member was there.                              *)
LEMMA InAdded ==
  ASSUME NEW z \in [Raws -> Int], NEW r \in Raws, NEW s \in Int, s # Absent, NEW b
  PROVE  Cardinality(In(Zadd(z, r, s), b)) =
           Cardinality(In(z, b)) + (IF r[1] = b /\ z[r] = Absent THEN 1 ELSE 0)
<1>1. In(Zadd(z, r, s), b) = IF r[1] = b THEN In(z, b) \cup {r} ELSE In(z, b)
  BY DEF In, Zadd
<1>2. r[1] = b => (r \in In(z, b) <=> z[r] # Absent)
  BY DEF In
<1>3. /\ Cardinality(In(z, b) \cup {r}) =
           IF r \in In(z, b) THEN Cardinality(In(z, b)) ELSE Cardinality(In(z, b)) + 1
      /\ Cardinality(In(z, b)) \in Nat
  BY InType, FS_AddElement
<1> QED BY <1>1, <1>2, <1>3

(* ZREM of members that are there.                                              *)
LEMMA InRemoved ==
  ASSUME NEW z \in [Raws -> Int], NEW S \in SUBSET Raws, \A r \in S : z[r] # Absent, NEW b
  PROVE  Cardinality(In(Zrem(z, S), b)) + Cardinality(Of(S, b)) = Cardinality(In(z, b))
<1>1. In(Zrem(z, S), b) = In(z, b) \ Of(S, b)
  BY DEF In, Zrem, Of
<1>2. In(z, b) \cap Of(S, b) = Of(S, b)
  BY DEF In, Of
<1> DEFINE x == Cardinality(In(z, b))
           y == Cardinality(Of(S, b))
<1>3. x \in Nat /\ y \in Nat
  BY InType, OfType
<1>4. Cardinality(In(z, b) \ Of(S, b)) = x - y
  BY <1>2, InType, FS_Difference
<1> HIDE DEF x, y
<1>5. (x - y) + y = x
  BY <1>3
<1> QED BY <1>1, <1>4, <1>5 DEF x, y

(* ZREM of one member that may have gone.                                       *)
LEMMA InWithout ==
  ASSUME NEW z \in [Raws -> Int], NEW r \in Raws, NEW b
  PROVE  Cardinality(In(z, b)) =
           Cardinality(In(Zrem(z, {r}), b)) + (IF r[1] = b /\ z[r] # Absent THEN 1 ELSE 0)
<1>1. In(Zrem(z, {r}), b) = In(z, b) \ {r}
  BY DEF In, Zrem
<1>2. r \in In(z, b) <=> r[1] = b /\ z[r] # Absent
  BY DEF In
<1> DEFINE x == Cardinality(In(z, b))
           y == Cardinality(In(z, b) \ {r})
<1>3. y = (IF r \in In(z, b) THEN x - 1 ELSE x) /\ x \in Nat
  BY InType, FS_RemoveElement
<1> HIDE DEF x, y
<1>4. x = y + (IF r \in In(z, b) THEN 1 ELSE 0)
  BY <1>3
<1> QED BY <1>1, <1>2, <1>4 DEF x, y

-----------------------------------------------------------------------------
(* Causes: a worker that settles a job whose member is gone makes a copy.  Each *)
(* worker in the middle of a job is such a copy to come, unless a member that   *)
(* is not due stands behind it; equal jobs share one member, and then there is  *)
(* one copy less.                                                               *)
Hands(b) == {w \in Workers : pc[w] = "busy" /\ Body(w) = b}
Covered(b) == {r \in Raws : r[1] = b /\ reserved[r] \notin {0, Absent} /\ \E w \in Workers : handle[w] = r}

Caused(b) ==
  /\ IsFiniteSet(Hands(b))
  /\ Copies(b) + acked[b] <= published[b] + late[b]
  /\ Copies(b) + acked[b] + Cardinality(Hands(b)) <= published[b] + excuse[b] + Cardinality(Covered(b))

AllCaused == \A b \in Bodies : Caused(b)

LEMMA CoveredType ==
  ASSUME NEW b
  PROVE  /\ IsFiniteSet(Covered(b)) /\ Cardinality(Covered(b)) \in Nat
         /\ IsFiniteSet(Covered(b)') /\ Cardinality(Covered(b)') \in Nat
<1>1. Covered(b) \subseteq Raws /\ Covered(b)' \subseteq Raws
  BY DEF Covered
<1> QED BY <1>1, RawsFinite, FS_Subset, FS_CardinalityType

(* What a step must keep, as sums of naturals.                                  *)
LEMMA Weighed ==
  ASSUME TypeOK, TypeOK', NEW b \in Bodies, Caused(b), IsFiniteSet(Hands(b)'),
         Copies(b)' + acked'[b] + published[b] + late[b] <= Copies(b) + acked[b] + published'[b] + late'[b],
         Copies(b)' + acked'[b] + Cardinality(Hands(b)') + published[b] + excuse[b] + Cardinality(Covered(b))
           <= Copies(b) + acked[b] + Cardinality(Hands(b)) + published'[b] + excuse'[b] + Cardinality(Covered(b)')
  PROVE  Caused(b)'
<1> DEFINE c == Copies(b)
           d == Copies(b)'
           h == Cardinality(Hands(b))
           g == Cardinality(Hands(b)')
           v == Cardinality(Covered(b))
           u == Cardinality(Covered(b)')
<1>1. c \in Nat /\ d \in Nat /\ v \in Nat /\ u \in Nat
  BY CopiesAre, CopiesNext, CoveredType
<1>2. h \in Nat /\ g \in Nat
  BY FS_CardinalityType DEF Caused
<1>3. /\ acked[b] \in Nat /\ published[b] \in Nat /\ late[b] \in Nat /\ excuse[b] \in Nat
      /\ acked'[b] \in Nat /\ published'[b] \in Nat /\ late'[b] \in Nat /\ excuse'[b] \in Nat
  BY DEF TypeOK
<1>4. /\ c + acked[b] <= published[b] + late[b]
      /\ c + acked[b] + h <= published[b] + excuse[b] + v
      /\ d + acked'[b] + published[b] + late[b] <= c + acked[b] + published'[b] + late'[b]
      /\ d + acked'[b] + g + published[b] + excuse[b] + v <= c + acked[b] + h + published'[b] + excuse'[b] + u
  BY DEF Caused
<1> HIDE DEF c, d, h, g, v, u
<1>5. d + acked'[b] <= published'[b] + late'[b]
  BY <1>1, <1>3, <1>4
<1>6. d + acked'[b] + g <= published'[b] + excuse'[b] + u
  BY <1>1, <1>2, <1>3, <1>4
<1> QED BY <1>5, <1>6 DEF Caused, d, g, u

(* A step that only moves the copies of a job, or makes one that was published. *)
LEMMA Aside ==
  ASSUME TypeOK, TypeOK', NEW b \in Bodies, Caused(b), acked'[b] = acked[b],
         published'[b] >= published[b], Copies(b)' - Copies(b) <= published'[b] - published[b],
         late'[b] >= late[b], excuse'[b] >= excuse[b],
         Hands(b)' = Hands(b), Covered(b) \subseteq Covered(b)'
  PROVE  Caused(b)'
<1> DEFINE c == Copies(b)
           d == Copies(b)'
           h == Cardinality(Hands(b))
           v == Cardinality(Covered(b))
           u == Cardinality(Covered(b)')
<1>1. c \in Nat /\ d \in Nat /\ v \in Nat /\ u \in Nat /\ v <= u
  BY CopiesAre, CopiesNext, CoveredType, FS_Subset
<1>2. h \in Nat /\ IsFiniteSet(Hands(b)') /\ Cardinality(Hands(b)') = h
  BY FS_CardinalityType DEF Caused
<1>3. /\ acked[b] \in Nat /\ published[b] \in Nat /\ late[b] \in Nat /\ excuse[b] \in Nat
      /\ acked'[b] \in Nat /\ published'[b] \in Nat /\ late'[b] \in Nat /\ excuse'[b] \in Nat
  BY DEF TypeOK
<1>4. d - c <= published'[b] - published[b]
  OBVIOUS
<1> HIDE DEF c, d, h, v, u
<1>5. d + acked'[b] + published[b] + late[b] <= c + acked[b] + published'[b] + late'[b]
  BY <1>1, <1>3, <1>4
<1>6. d + acked'[b] + h + published[b] + excuse[b] + v <= c + acked[b] + h + published'[b] + excuse'[b] + u
  BY <1>1, <1>2, <1>3, <1>4
<1> QED BY <1>2, <1>5, <1>6, Weighed DEF c, d, h, v, u

LEMMA PublishCaused ==
  ASSUME IInv, IInv', AllCaused, NEW x \in Bodies, Publish(x)
  PROVE  AllCaused'
<1> SUFFICES ASSUME NEW b \in Bodies PROVE Caused(b)'
  BY DEF AllCaused
<1>1. TypeOK /\ TypeOK' /\ Caused(b)
  BY DEF IInv, AllCaused
<1>2. /\ Hands(b)' = Hands(b) /\ Covered(b)' = Covered(b)
      /\ UNCHANGED <<acked, late, excuse, dlq, reserved>>
  BY DEF Publish, Hands, Covered, Body, worker
<1>3. /\ acked[b] \in Nat /\ published[b] \in Nat /\ late[b] \in Nat /\ excuse[b] \in Nat /\ dlq[b] \in Nat
      /\ published'[b] = published[b] + (IF x = b THEN 1 ELSE 0)
  <2>1. published \in [Bodies -> Nat] /\ published' = [published EXCEPT ![x] = @ + 1]
    BY <1>1, Types DEF Publish, Plus
  <2>2. published'[b] = IF x = b THEN published[b] + 1 ELSE published[b]
    BY <2>1
  <2>3. published'[b] = published[b] + (IF x = b THEN 1 ELSE 0)
    <3>1. published[b] \in Nat
      BY <2>1
    <3> HIDE DEF IInv
    <3> QED BY <2>2, <3>1
  <2> QED BY <1>1, <2>3, Types
<1> DEFINE n == <<x, 0>>
<1>4. n \in Raws /\ n[1] = x
  BY RawOf, LaravelAssumption
<1> HIDE DEF n
<1>5. ready \in Seq(Raws) /\ delayed \in [Raws -> Int]
  BY <1>1, Types
<1> DEFINE p == Cardinality(At(ready, b))
           q == Cardinality(In(reserved, b))
           s == Cardinality(In(delayed, b))
           k == IF x = b THEN 1 ELSE 0
<1>6. p \in Nat /\ q \in Nat /\ s \in Nat
  BY <1>5, AtType, InType
<1>7. CopiesIn(ready', reserved', delayed', dlq', b) <= p + q + s + dlq[b] + k
  <2>1. CASE ready' = Append(ready, n) /\ UNCHANGED delayed
    <3>1. ready' = ready \o <<n>> /\ <<n>> \in Seq(Raws)
      BY <1>4, <1>5, <2>1
    <3>4. Cardinality(At(<<n>>, b)) = k
      BY <1>4, AtOne
    <3>5. Cardinality(At(ready \o <<n>>, b)) = p + Cardinality(At(<<n>>, b))
      BY <1>5, <3>1, AtJoined
    <3>2. Cardinality(At(ready', b)) = p + k
      BY <3>1, <3>4, <3>5
    <3>3. CopiesIn(ready', reserved', delayed', dlq', b) = p + k + q + s + dlq[b]
      BY <1>2, <2>1, <3>2 DEF CopiesIn
    <3> HIDE DEF p, q, s
    <3> QED BY <1>3, <1>6, <3>3
  <2>2. CASE \E d \in Delays : delayed' = Zadd(delayed, n, d) /\ UNCHANGED ready
    <3>1. PICK d \in Delays : delayed' = Zadd(delayed, n, d) /\ UNCHANGED ready
      BY <2>2
    <3>2. d \in Int /\ d # Absent
      BY LaravelAssumption DEF Absent
    <3>3. Cardinality(In(delayed', b)) = s + (IF n[1] = b /\ delayed[n] = Absent THEN 1 ELSE 0)
      BY <1>4, <1>5, <3>1, <3>2, InAdded
    <3> DEFINE j == IF n[1] = b /\ delayed[n] = Absent THEN 1 ELSE 0
    <3>4. CopiesIn(ready', reserved', delayed', dlq', b) = p + q + (s + j) + dlq[b]
      BY <1>2, <3>1, <3>3 DEF CopiesIn
    <3>5. j \in Nat /\ j <= k
      BY <1>4
    <3> HIDE DEF p, q, s, j, k
    <3>6. k \in Nat
      BY DEF k
    <3> QED BY <1>3, <1>6, <3>4, <3>5, <3>6
  <2> QED BY <2>1, <2>2 DEF Publish, n
<1>8. Copies(b) = p + q + s + dlq[b] /\ Copies(b)' = CopiesIn(ready', reserved', delayed', dlq', b) /\ Copies(b)' \in Nat
  BY <1>1, CopiesAre, CopiesNext DEF CopiesIn
<1> HIDE DEF p, q, s
<1>9. Copies(b)' - Copies(b) <= published'[b] - published[b] /\ published'[b] >= published[b]
  BY <1>3, <1>6, <1>7, <1>8
<1> QED BY <1>1, <1>2, <1>3, <1>9, Aside

LEMMA TickCaused ==
  ASSUME IInv, IInv', AllCaused, Tick
  PROVE  AllCaused'
<1> SUFFICES ASSUME NEW b \in Bodies PROVE Caused(b)'
  BY DEF AllCaused
<1>1. TypeOK /\ TypeOK' /\ Caused(b)
  BY DEF IInv, AllCaused
<1>2. /\ Hands(b)' = Hands(b) /\ UNCHANGED <<ready, dlq, published, acked, late, handle>>
      /\ excuse'[b] = excuse[b] + Cardinality(Of(Outlived, b))
      /\ reserved' = Elapse(reserved) /\ delayed' = Elapse(delayed)
  BY DEF Tick, Hands, Body, worker, Of
<1>3. \A r \in Raws : /\ reserved[r] \in Nat \cup {Never, Absent} /\ delayed[r] \in Nat \cup {Absent}
                      /\ reserved'[r] = IF reserved[r] > 0 THEN reserved[r] - 1 ELSE reserved[r]
                      /\ delayed'[r] = IF delayed[r] > 0 THEN delayed[r] - 1 ELSE delayed[r]
  BY <1>1, <1>2, Types DEF Elapse
<1>4. \A r \in Raws : /\ reserved'[r] = Absent <=> reserved[r] = Absent
                      /\ delayed'[r] = Absent <=> delayed[r] = Absent
                      /\ reserved'[r] = 0 => reserved[r] = 0 \/ reserved[r] = 1
  BY <1>3 DEF Never, Absent
<1>5. In(reserved', b) = In(reserved, b) /\ In(delayed', b) = In(delayed, b)
  BY <1>4 DEF In
<1>6. Copies(b)' = Copies(b)
  BY <1>1, <1>2, <1>5, CopiesAre, CopiesNext DEF CopiesIn
<1>7. Outlived \subseteq Raws
  BY DEF Outlived
<1>8. Covered(b) \subseteq Covered(b)' \cup Of(Outlived, b)
  <2> SUFFICES ASSUME NEW r \in Covered(b), r \notin Of(Outlived, b) PROVE r \in Covered(b)'
    OBVIOUS
  <2>1. r \in Raws /\ r[1] = b /\ reserved[r] \notin {0, Absent} /\ \E w \in Workers : handle[w] = r
    BY DEF Covered
  <2>2. reserved[r] # 1
    BY <2>1 DEF Of, Outlived
  <2> QED BY <1>2, <1>4, <2>1, <2>2 DEF Covered
<1> DEFINE u == Cardinality(Covered(b)')
           v == Cardinality(Covered(b))
           k == Cardinality(Of(Outlived, b))
           j == Cardinality(Covered(b)' \cap Of(Outlived, b))
           h == Cardinality(Hands(b))
           c == Copies(b)
<1>9. v <= u + k /\ v \in Nat /\ u \in Nat /\ k \in Nat
  <2>1. /\ IsFiniteSet(Covered(b)' \cup Of(Outlived, b))
        /\ Cardinality(Covered(b)' \cup Of(Outlived, b)) = u + k - j
    BY <1>7, CoveredType, OfType, FS_Union
  <2>2. v <= Cardinality(Covered(b)' \cup Of(Outlived, b))
    BY <1>8, <2>1, FS_Subset
  <2>3. j \in Nat
    BY CoveredType, FS_Subset, FS_CardinalityType
  <2>4. v \in Nat /\ u \in Nat /\ k \in Nat
    BY <1>7, CoveredType, OfType
  <2> HIDE DEF u, v, k, j
  <2> QED BY <2>1, <2>2, <2>3, <2>4
<1>10. /\ published[b] \in Nat /\ acked[b] \in Nat /\ late[b] \in Nat /\ excuse[b] \in Nat
       /\ c \in Nat /\ h \in Nat
  BY <1>1, Types, CopiesAre, FS_CardinalityType DEF Caused
<1>11. IsFiniteSet(Hands(b)')
  BY <1>1, <1>2 DEF Caused
<1> HIDE DEF u, v, k, j, h, c
<1>12. c + acked[b] + h + published[b] + excuse[b] + v <= c + acked[b] + h + published[b] + (excuse[b] + k) + u
  BY <1>9, <1>10
<1>13. c + acked[b] + published[b] + late[b] <= c + acked[b] + published[b] + late[b]
  BY <1>10
<1> QED BY <1>1, <1>2, <1>6, <1>11, <1>12, <1>13, Weighed DEF u, v, k, h, c

(* A migration moves copies and makes none.                                     *)
LEMMA MovedCopies ==
  ASSUME NEW s \in Seq(Raws), NEW z \in [Raws -> Int], NEW S \in Selections(z), NEW order \in Orders(S), NEW b
  PROVE  /\ Cardinality(At(s \o order, b)) + Cardinality(In(Zrem(z, S), b))
              = Cardinality(At(s, b)) + Cardinality(In(z, b))
         /\ Cardinality(At(s \o order, b)) \in Nat
<1>1. S \in SUBSET Raws /\ S \subseteq Due(z) /\ order \in Seq(Raws)
  BY MigrationOrder
<1>2. \A r \in S : z[r] # Absent
  BY <1>1 DEF Due, Absent
<1> DEFINE p == Cardinality(At(s, b))
           q == Cardinality(At(s \o order, b))
           k == Cardinality(Of(S, b))
           m == Cardinality(In(z, b))
           n == Cardinality(In(Zrem(z, S), b))
<1>3. q = p + k
  <2>1. Cardinality(At(order, b)) = k
    BY <1>1, AtOrder
  <2>2. q = p + Cardinality(At(order, b))
    BY <1>1, AtJoined
  <2> QED BY <2>1, <2>2
<1>4. n + k = m
  BY <1>1, <1>2, InRemoved
<1>5. p \in Nat /\ k \in Nat /\ m \in Nat /\ n \in Nat
  BY <1>1, AtType, OfType, InType
<1> HIDE DEF p, q, k, m, n
<1>6. q + n = p + m /\ q \in Nat
  BY <1>3, <1>4, <1>5
<1> QED BY <1>6 DEF p, q, m, n

LEMMA MigrateDelayedCaused ==
  ASSUME IInv, IInv', AllCaused, NEW w \in Workers, MigrateDelayed(w)
  PROVE  AllCaused'
<1> SUFFICES ASSUME NEW b \in Bodies PROVE Caused(b)'
  BY DEF AllCaused
<1>1. TypeOK /\ TypeOK' /\ Caused(b)
  BY DEF IInv, AllCaused
<1>2. /\ UNCHANGED <<reserved, dlq, job, handle, published, acked, late, excuse>>
      /\ \A v \in Workers : pc'[v] = "busy" <=> pc[v] = "busy"
  BY <1>1 DEF MigrateDelayed, history, Step, TypeOK
<1>3. Hands(b)' = Hands(b) /\ Covered(b)' = Covered(b)
  BY <1>2 DEF Hands, Covered, Body
<1>4. PICK S \in Selections(delayed) : \E order \in Orders(S) :
        delayed' = Zrem(delayed, S) /\ ready' = ready \o order
  BY DEF MigrateDelayed
<1>5. PICK order \in Orders(S) : delayed' = Zrem(delayed, S) /\ ready' = ready \o order
  BY <1>4
<1> DEFINE p == Cardinality(At(ready, b))
           q == Cardinality(At(ready', b))
           m == Cardinality(In(delayed, b))
           n == Cardinality(In(delayed', b))
           k == Cardinality(In(reserved, b))
<1>6. ready \in Seq(Raws) /\ delayed \in [Raws -> Int] /\ dlq[b] \in Nat
  BY <1>1, Types
<1>7. q + n = p + m /\ q \in Nat /\ p \in Nat /\ m \in Nat /\ n \in Nat /\ k \in Nat
  BY <1>5, <1>6, MovedCopies, AtType, InType
<1>8. Copies(b) = p + k + m + dlq[b] /\ Copies(b)' = q + k + n + dlq[b]
  BY <1>1, <1>2, CopiesAre, CopiesNext DEF CopiesIn
<1> HIDE DEF p, q, m, n, k
<1>9. Copies(b)' - Copies(b) <= 0
  BY <1>6, <1>7, <1>8
<1>10. published[b] - published[b] = 0 /\ published[b] >= published[b] /\ late[b] >= late[b] /\ excuse[b] >= excuse[b]
  BY <1>1, Types
<1> QED BY <1>1, <1>2, <1>3, <1>9, <1>10, Aside

LEMMA MigrateReservedCaused ==
  ASSUME IInv, IInv', AllCaused, NEW w \in Workers, MigrateReserved(w)
  PROVE  AllCaused'
<1> SUFFICES ASSUME NEW b \in Bodies PROVE Caused(b)'
  BY DEF AllCaused
<1>1. TypeOK /\ TypeOK' /\ Caused(b)
  BY DEF IInv, AllCaused
<1>2. /\ UNCHANGED <<delayed, dlq, job, handle, published, acked, late, excuse>>
      /\ \A v \in Workers : pc'[v] = "busy" <=> pc[v] = "busy"
  BY <1>1 DEF MigrateReserved, history, Step, TypeOK
<1>3. Hands(b)' = Hands(b)
  BY <1>2 DEF Hands, Body
<1>4. Copies(b)' - Copies(b) <= 0 /\ Covered(b) \subseteq Covered(b)'
  <2>1. CASE Recovers
    <3>1. PICK S \in Selections(reserved) : \E order \in Orders(S) :
            reserved' = Zrem(reserved, S) /\ ready' = ready \o order
      BY <2>1 DEF MigrateReserved
    <3>2. PICK order \in Orders(S) : reserved' = Zrem(reserved, S) /\ ready' = ready \o order
      BY <3>1
    <3> DEFINE p == Cardinality(At(ready, b))
               q == Cardinality(At(ready', b))
               m == Cardinality(In(reserved, b))
               n == Cardinality(In(reserved', b))
               k == Cardinality(In(delayed, b))
    <3>3. ready \in Seq(Raws) /\ reserved \in [Raws -> Int] /\ dlq[b] \in Nat
      BY <1>1, Types
    <3>4. q + n = p + m /\ q \in Nat /\ p \in Nat /\ m \in Nat /\ n \in Nat /\ k \in Nat
      BY <3>2, <3>3, MovedCopies, AtType, InType
    <3>5. Copies(b) = p + m + k + dlq[b] /\ Copies(b)' = q + n + k + dlq[b]
      BY <1>1, <1>2, CopiesAre, CopiesNext DEF CopiesIn
    <3>6. S \subseteq Due(reserved)
      BY <3>3, MigrationOrder
    <3>7. \A r \in Raws : reserved[r] # 0 => reserved'[r] = reserved[r]
      BY <3>2, <3>6 DEF Zrem, Due
    <3>8. Covered(b) \subseteq Covered(b)'
      BY <1>2, <3>7 DEF Covered
    <3> HIDE DEF p, q, m, n, k
    <3>9. Copies(b)' - Copies(b) <= 0
      BY <3>3, <3>4, <3>5
    <3> QED BY <3>8, <3>9
  <2>2. CASE ~ Recovers
    <3>1. UNCHANGED <<reserved, ready>>
      BY <2>2 DEF MigrateReserved
    <3>2. Copies(b)' = Copies(b) /\ Copies(b) \in Nat
      BY <1>1, <1>2, <3>1, CopiesAre, CopiesNext
    <3>3. Covered(b)' = Covered(b)
      BY <1>2, <3>1 DEF Covered
    <3> QED BY <3>2, <3>3
  <2> QED BY <2>1, <2>2
<1>5. published[b] - published[b] = 0 /\ published[b] >= published[b] /\ late[b] >= late[b] /\ excuse[b] >= excuse[b]
  BY <1>1, Types
<1> QED BY <1>1, <1>2, <1>3, <1>4, <1>5, Aside

(* A worker is done with its job, or learns nothing and has an excuse.          *)
Finished(w) ==
  \/ Idle(w) /\ UNCHANGED excuse
  \/ excuse' = Plus(excuse, Body(w)) /\ UNCHANGED worker

(* The worker leaves, or is excused, and the member behind it goes.             *)
LEMMA HandsOff ==
  ASSUME IInv, NEW w \in Workers, pc[w] = "busy", Removal(w), Finished(w),
         NEW b \in Bodies, b = Body(w), IsFiniteSet(Hands(b))
  PROVE  /\ IsFiniteSet(Hands(b)')
         /\ Cardinality(Hands(b)') + excuse[b] + Cardinality(Covered(b)) + 1
              <= Cardinality(Hands(b)) + excuse'[b] + Cardinality(Covered(b)') + (IF Stands(w) THEN 1 ELSE 0)
<1> DEFINE h == Cardinality(Hands(b))
           g == Cardinality(Hands(b)')
           v == Cardinality(Covered(b))
           u == Cardinality(Covered(b)')
           s == IF Stands(w) THEN 1 ELSE 0
<1>1. TypeOK /\ handle[w] \in Raws /\ handle[w][1] = b
  BY Busy DEF IInv
<1>2. excuse \in [Bodies -> Nat] /\ excuse[b] \in Nat
  BY <1>1, Types
<1>3. h \in Nat /\ u \in Nat /\ v \in Nat
  BY CoveredType, FS_CardinalityType
<1>4. v <= u + s
  <2>1. \A r \in Raws \ {handle[w]} : reserved'[r] = reserved[r]
    BY DEF Removal, Zrem
  <2>2. \A x \in Workers \ {w} : handle'[x] = handle[x]
    BY <1>1, WorkerIdle DEF Finished, worker
  <2>3. Covered(b) \ {handle[w]} \subseteq Covered(b)'
    BY <2>1, <2>2 DEF Covered
  <2>4. handle[w] \in Covered(b) => s = 1
    BY DEF Covered, Stands
  <2>5. /\ Cardinality(Covered(b) \ {handle[w]}) = IF handle[w] \in Covered(b) THEN v - 1 ELSE v
        /\ Cardinality(Covered(b) \ {handle[w]}) <= u
    BY <2>3, CoveredType, FS_RemoveElement, FS_Subset
  <2>6. s \in {0, 1}
    OBVIOUS
  <2> HIDE DEF v, u, s
  <2> QED BY <1>3, <2>4, <2>5, <2>6
<1>5. IsFiniteSet(Hands(b)') /\ g \in Nat /\ g + excuse[b] + 1 <= h + excuse'[b]
  <2>1. CASE Idle(w) /\ UNCHANGED excuse
    <3>1. /\ pc'[w] = "idle"
          /\ \A x \in Workers \ {w} : pc'[x] = pc[x] /\ job'[x] = job[x]
      BY <1>1, <2>1, WorkerIdle
    <3>2. Hands(b)' = Hands(b) \ {w} /\ w \in Hands(b)
      BY <3>1 DEF Hands, Body
    <3>3. IsFiniteSet(Hands(b)') /\ g = h - 1 /\ g \in Nat
      BY <3>2, FS_RemoveElement, FS_CardinalityType
    <3>4. excuse'[b] = excuse[b]
      BY <2>1
    <3> HIDE DEF h, g
    <3> QED BY <1>2, <1>3, <3>3, <3>4
  <2>2. CASE excuse' = Plus(excuse, Body(w)) /\ UNCHANGED worker
    <3>1. Hands(b)' = Hands(b)
      BY <2>2 DEF Hands, Body, worker
    <3>2. g = h /\ IsFiniteSet(Hands(b)')
      BY <3>1
    <3>3. excuse'[b] = excuse[b] + 1
      BY <1>2, <2>2, PlusType
    <3> HIDE DEF h, g
    <3> QED BY <1>2, <1>3, <3>2, <3>3
  <2> QED BY <2>1, <2>2 DEF Finished
<1>6. excuse'[b] \in Nat /\ s \in Nat
  <2>1. Plus(excuse, Body(w))[b] = excuse[b] + 1
    BY <1>2, PlusType
  <2>2. excuse'[b] = excuse[b] \/ excuse'[b] = excuse[b] + 1
    BY <2>1 DEF Finished
  <2> QED BY <1>2, <2>2
<1> HIDE DEF h, g, v, u, s
<1>7. g + excuse[b] + v + 1 <= h + excuse'[b] + u + s
  BY <1>2, <1>3, <1>4, <1>5, <1>6
<1> QED BY <1>5, <1>7 DEF h, g, v, u, s

(* The other jobs are not touched.                                              *)
LEMMA HandsElsewhere ==
  ASSUME IInv, NEW w \in Workers, pc[w] = "busy", Removal(w), Finished(w), NEW b \in Bodies, b # Body(w)
  PROVE  /\ Hands(b)' = Hands(b) /\ Covered(b) \subseteq Covered(b)' /\ excuse'[b] = excuse[b]
         /\ In(reserved', b) = In(reserved, b)
<1>1. TypeOK /\ handle[w][1] # b
  BY Busy DEF IInv
<1>2. \A r \in Raws : r[1] = b => reserved'[r] = reserved[r]
  BY <1>1 DEF Removal, Zrem
<1>3. \A x \in Workers \ {w} : pc'[x] = pc[x] /\ job'[x] = job[x] /\ handle'[x] = handle[x]
  BY <1>1, WorkerIdle DEF Finished, worker
<1>4. w \notin Hands(b) /\ w \notin Hands(b)'
  BY <1>1, WorkerIdle DEF Finished, worker, Hands, Body
<1>5. Hands(b)' = Hands(b)
  BY <1>3, <1>4 DEF Hands, Body
<1>6. Covered(b) \subseteq Covered(b)' /\ In(reserved', b) = In(reserved, b)
  BY <1>1, <1>2, <1>3 DEF Covered, In
<1>7. excuse'[b] = excuse[b]
  BY <1>1, Types DEF Finished, Plus
<1> QED BY <1>5, <1>6, <1>7

(* A settlement moves the copy that stood behind it, or makes one that its      *)
(* lateness and its excuse explain.                                             *)
LEMMA SettledCaused ==
  ASSUME IInv, IInv', AllCaused, NEW w \in Workers, pc[w] = "busy", Removal(w), Finished(w),
         UNCHANGED <<ready, published>>,
         \A x \in Bodies : x # Body(w) =>
           /\ acked'[x] = acked[x] /\ dlq'[x] = dlq[x] /\ late'[x] = late[x]
           /\ Cardinality(In(delayed', x)) = Cardinality(In(delayed, x)),
         Cardinality(In(delayed', Body(w))) + dlq'[Body(w)] + acked'[Body(w)]
           <= Cardinality(In(delayed, Body(w))) + dlq[Body(w)] + acked[Body(w)] + 1,
         Cardinality(In(delayed', Body(w))) + dlq'[Body(w)] + acked'[Body(w)] + late[Body(w)]
           <= Cardinality(In(delayed, Body(w))) + dlq[Body(w)] + acked[Body(w)] + late'[Body(w)]
                + (IF Stands(w) THEN 1 ELSE 0)
  PROVE  AllCaused'
<1> SUFFICES ASSUME NEW b \in Bodies PROVE Caused(b)'
  BY DEF AllCaused
<1>1. TypeOK /\ TypeOK' /\ Caused(b)
  BY DEF IInv, AllCaused
<1> DEFINE p == Cardinality(At(ready, b))
           y == Cardinality(In(reserved, b))
           z == Cardinality(In(reserved', b))
           m == Cardinality(In(delayed, b))
           n == Cardinality(In(delayed', b))
<1>2. /\ p \in Nat /\ y \in Nat /\ z \in Nat /\ m \in Nat /\ n \in Nat
      /\ dlq[b] \in Nat /\ acked[b] \in Nat /\ late[b] \in Nat /\ excuse[b] \in Nat /\ published[b] \in Nat
      /\ dlq'[b] \in Nat /\ acked'[b] \in Nat /\ late'[b] \in Nat /\ excuse'[b] \in Nat
  <2>1. ready \in Seq(Raws)
    BY <1>1, Types
  <2>2. p \in Nat /\ y \in Nat /\ z \in Nat /\ m \in Nat /\ n \in Nat
    BY <2>1, AtType, InType
  <2> QED BY <1>1, <2>2 DEF TypeOK
<1>3. Copies(b) = p + y + m + dlq[b] /\ Copies(b)' = p + z + n + dlq'[b]
  BY <1>1, CopiesAre, CopiesNext DEF CopiesIn
<1>4. CASE b # Body(w)
  <2>1. z = y /\ Hands(b)' = Hands(b) /\ Covered(b) \subseteq Covered(b)' /\ excuse'[b] = excuse[b]
    BY <1>4, HandsElsewhere
  <2>2. n = m /\ dlq'[b] = dlq[b] /\ acked'[b] = acked[b] /\ late'[b] = late[b]
    BY <1>4
  <2>3. Copies(b)' = Copies(b)
    BY <1>3, <2>1, <2>2
  <2> HIDE DEF p, y, z, m, n
  <2>4. Copies(b)' - Copies(b) <= published[b] - published[b]
    BY <1>2, <1>3, <2>3
  <2> QED BY <1>1, <1>2, <2>1, <2>2, <2>4, Aside
<1>5. CASE b = Body(w)
  <2> DEFINE s == IF Stands(w) THEN 1 ELSE 0
             h == Cardinality(Hands(b))
             g == Cardinality(Hands(b)')
             v == Cardinality(Covered(b))
             u == Cardinality(Covered(b)')
             c == Copies(b)
             d == Copies(b)'
  <2>1. y = z + s /\ s \in Nat
    <3>1. handle[w] \in Raws /\ handle[w][1] = b /\ reserved \in [Raws -> Int]
      BY <1>1, <1>5, Busy, Types
    <3>2. reserved' = Zrem(reserved, {handle[w]})
      BY DEF Removal
    <3> QED BY <3>1, <3>2, InWithout DEF Stands
  <2>2. n + dlq'[b] + acked'[b] <= m + dlq[b] + acked[b] + 1
    BY <1>5
  <2>3. n + dlq'[b] + acked'[b] + late[b] <= m + dlq[b] + acked[b] + late'[b] + s
    BY <1>5
  <2>4. IsFiniteSet(Hands(b)') /\ g + excuse[b] + v + 1 <= h + excuse'[b] + u + s
    BY <1>1, <1>5, HandsOff DEF Caused
  <2>5. h \in Nat /\ g \in Nat /\ v \in Nat /\ u \in Nat
    BY <1>1, <2>4, CoveredType, FS_CardinalityType DEF Caused
  <2>6. c = p + y + m + dlq[b] /\ d = p + z + n + dlq'[b]
    BY <1>3
  <2> HIDE DEF p, y, z, m, n, s, h, g, v, u, c, d
  <2>7. c \in Nat /\ d \in Nat
    BY <1>2, <2>6
  <2>8. d + acked'[b] + published[b] + late[b] <= c + acked[b] + published[b] + late'[b]
    BY <1>2, <2>1, <2>3, <2>6
  <2>9. d + acked'[b] + s <= c + acked[b] + 1
    BY <1>2, <2>1, <2>2, <2>6
  <2>10. d + acked'[b] + g + published[b] + excuse[b] + v <= c + acked[b] + h + published[b] + excuse'[b] + u
    BY <1>2, <2>1, <2>4, <2>5, <2>7, <2>9
  <2>11. published'[b] = published[b]
    OBVIOUS
  <2> QED BY <1>1, <2>4, <2>8, <2>10, <2>11, Weighed DEF h, g, v, u, c, d
<1> QED BY <1>4, <1>5

LEMMA AnsweredFinishes ==
  ASSUME NEW w, Answered(w) \/ (Idle(w) /\ UNCHANGED excuse)
  PROVE  Finished(w)
BY DEF Answered, Finished

LEMMA AckCaused ==
  ASSUME IInv, IInv', AllCaused, NEW w \in Workers, Ack(w)
  PROVE  AllCaused'
<1>1. pc[w] = "busy" /\ Removal(w) /\ Finished(w) /\ UNCHANGED <<ready, published, dlq, late, delayed>>
  BY AnsweredFinishes DEF Ack
<1>2. TypeOK /\ Body(w) \in Bodies /\ acked \in [Bodies -> Nat] /\ acked[Body(w)] \in Nat
  BY <1>1, Busy, Types DEF IInv
<1>3. /\ acked'[Body(w)] = acked[Body(w)] + (IF Stands(w) THEN 1 ELSE 0)
      /\ \A x \in Bodies : x # Body(w) => acked'[x] = acked[x]
  <2>1. CASE Stands(w)
    <3>1. acked' = [acked EXCEPT ![Body(w)] = @ + 1]
      BY <2>1 DEF Ack, Plus
    <3> QED BY <1>2, <2>1, <3>1
  <2>2. CASE ~ Stands(w)
    BY <1>2, <2>2 DEF Ack
  <2> QED BY <2>1, <2>2
<1> DEFINE n == Cardinality(In(delayed, Body(w)))
           d == dlq[Body(w)]
           a == acked[Body(w)]
           l == late[Body(w)]
           s == IF Stands(w) THEN 1 ELSE 0
<1>4. n \in Nat /\ d \in Nat /\ a \in Nat /\ l \in Nat /\ s \in {0, 1}
  BY <1>2, InType, Types
<1> HIDE DEF n, d, a, l, s
<1>5. n + d + (a + s) <= n + d + a + 1 /\ n + d + (a + s) + l <= n + d + a + l + s
  BY <1>4
<1> QED BY <1>1, <1>3, <1>5, SettledCaused DEF n, d, a, l, s

LEMMA DeadLetterCaused ==
  ASSUME IInv, IInv', AllCaused, NEW w \in Workers, DeadLetter(w)
  PROVE  AllCaused'
<1>1. pc[w] = "busy" /\ Removal(w) /\ Finished(w) /\ UNCHANGED <<ready, published, acked, late, delayed>>
  BY AnsweredFinishes DEF DeadLetter
<1>2. TypeOK /\ Body(w) \in Bodies /\ dlq \in [Bodies -> Nat] /\ dlq[Body(w)] \in Nat
  BY <1>1, Busy, Types DEF IInv
<1>3. /\ dlq'[Body(w)] = dlq[Body(w)] + (IF Stands(w) THEN 1 ELSE 0)
      /\ \A x \in Bodies : x # Body(w) => dlq'[x] = dlq[x]
  <2>1. CASE Stands(w)
    <3>1. dlq' = [dlq EXCEPT ![Body(w)] = @ + 1]
      BY <2>1 DEF DeadLetter, Writes, Plus
    <3> QED BY <1>2, <2>1, <3>1
  <2>2. CASE ~ Stands(w)
    BY <1>2, <2>2 DEF DeadLetter, Writes
  <2> QED BY <2>1, <2>2
<1> DEFINE n == Cardinality(In(delayed, Body(w)))
           d == dlq[Body(w)]
           a == acked[Body(w)]
           l == late[Body(w)]
           s == IF Stands(w) THEN 1 ELSE 0
<1>4. n \in Nat /\ d \in Nat /\ a \in Nat /\ l \in Nat /\ s \in {0, 1}
  BY <1>2, InType, Types
<1> HIDE DEF n, d, a, l, s
<1>5. n + (d + s) + a <= n + d + a + 1 /\ n + (d + s) + a + l <= n + d + a + l + s
  BY <1>4
<1> QED BY <1>1, <1>3, <1>5, SettledCaused DEF n, d, a, l, s

(* A release is late exactly when no member stood behind it.                    *)
LEMMA PutBackCaused ==
  ASSUME IInv, IInv', AllCaused, NEW w \in Workers, pc[w] = "busy", Finished(w),
         UNCHANGED <<ready, published, dlq, acked>>,
         NEW r \in Raws, r[1] = Body(w), NEW d \in Delays \cup {0}, PutBack(w, r, d)
  PROVE  AllCaused'
<1>1. Removal(w) /\ delayed' = Zadd(delayed, r, d)
  BY DEF PutBack
<1>2. /\ TypeOK /\ Body(w) \in Bodies /\ late \in [Bodies -> Nat] /\ late[Body(w)] \in Nat
      /\ delayed \in [Raws -> Int] /\ d \in Int /\ d # Absent
  <2>1. TypeOK /\ Body(w) \in Bodies
    BY Busy DEF IInv
  <2>2. late \in [Bodies -> Nat] /\ delayed \in [Raws -> Int]
    BY <2>1, Types
  <2>3. d \in Int /\ d # Absent
    BY LaravelAssumption DEF Absent
  <2> QED BY <2>1, <2>2, <2>3
<1> DEFINE n == Cardinality(In(delayed, Body(w)))
           m == Cardinality(In(delayed', Body(w)))
           k == dlq[Body(w)]
           a == acked[Body(w)]
           l == late[Body(w)]
           j == late'[Body(w)]
           s == IF Stands(w) THEN 1 ELSE 0
<1>3. /\ m = n + (IF r[1] = Body(w) /\ delayed[r] = Absent THEN 1 ELSE 0)
      /\ \A x \in Bodies : x # Body(w) => In(delayed', x) = In(delayed, x)
  <2>1. \A x \in Bodies : x # Body(w) => In(delayed', x) = In(delayed, x)
    BY <1>1 DEF In, Zadd
  <2> QED BY <1>1, <1>2, <2>1, InAdded
<1>4. /\ j + s = l + 1
      /\ \A x \in Bodies : x # Body(w) => late'[x] = late[x]
  <2>1. CASE Stands(w)
    BY <1>2, <2>1 DEF PutBack
  <2>2. CASE ~ Stands(w)
    <3>1. late' = [late EXCEPT ![Body(w)] = @ + 1]
      BY <2>2 DEF PutBack, Plus
    <3> QED BY <1>2, <2>2, <3>1
  <2> QED BY <2>1, <2>2
<1>5. n \in Nat /\ m \in Nat /\ k \in Nat /\ a \in Nat /\ l \in Nat /\ s \in {0, 1} /\ m <= n + 1 /\ j \in Int
  <2>1. n \in Nat /\ m \in Nat /\ k \in Nat /\ a \in Nat /\ l \in Nat /\ s \in {0, 1}
    BY <1>2, InType, Types
  <2>2. j \in Int
    <3>1. late' \in [Bodies -> Nat]
      BY DEF IInv, TypeOK
    <3> QED BY <1>2, <3>1
  <2> HIDE DEF n, m, k, a, l, s, j
  <2> QED BY <1>3, <2>1, <2>2
<1> HIDE DEF n, m, k, a, l, s, j
<1>6. m + k + a <= n + k + a + 1 /\ m + k + a + l <= n + k + a + j + s
  BY <1>4, <1>5
<1> QED BY <1>1, <1>3, <1>4, <1>6, SettledCaused DEF n, m, k, a, l, s, j

LEMMA RetryCaused ==
  ASSUME IInv, IInv', AllCaused, NEW w \in Workers, Retry(w)
  PROVE  AllCaused'
<1>1. pc[w] = "busy" /\ Finished(w) /\ UNCHANGED <<ready, published, acked, dlq>>
  BY AnsweredFinishes DEF Retry
<1>2. PICK d \in Delays : PutBack(w, Retried(job[w]), d)
  BY DEF Retry
<1>3. Retried(job[w]) \in Raws /\ Retried(job[w])[1] = Body(w)
  <2>1. handle[w] \in Raws /\ handle[w] = Counted(job[w]) /\ Body(w) \notin Poison
    BY <1>1, Busy DEF Retry
  <2>2. handle[w] = Retried(job[w])
    BY <2>1 DEF Counted, Retried, Body
  <2>3. Retried(job[w])[1] = Body(w)
    BY DEF Retried, Body
  <2> QED BY <2>1, <2>2, <2>3
<1> QED BY <1>1, <1>2, <1>3, PutBackCaused

LEMMA ReleaseUnprocessedCaused ==
  ASSUME IInv, IInv', AllCaused, NEW w \in Workers, ReleaseUnprocessed(w)
  PROVE  AllCaused'
<1>1. pc[w] = "busy" /\ Finished(w) /\ UNCHANGED <<ready, published, acked, dlq>> /\ PutBack(w, job[w], 0)
  BY AnsweredFinishes DEF ReleaseUnprocessed
<1>2. job[w] \in Raws /\ job[w][1] = Body(w) /\ 0 \in Delays \cup {0}
  BY <1>1, Busy DEF Body
<1> QED BY <1>1, <1>2, PutBackCaused

(* A worker that dies takes its own place and leaves its member uncovered.      *)
LEMMA LetGoCaused ==
  ASSUME IInv, IInv', AllCaused, NEW w \in Workers, LetGo(w)
  PROVE  AllCaused'
<1> SUFFICES ASSUME NEW b \in Bodies PROVE Caused(b)'
  BY DEF AllCaused
<1>1. TypeOK /\ TypeOK' /\ Caused(b)
  BY DEF IInv, AllCaused
<1>2. UNCHANGED <<ready, reserved, delayed, dlq, published, acked, late, excuse>> /\ Idle(w) /\ pc[w] # "idle"
  BY DEF LetGo, zsets, history
<1>3. Copies(b)' = Copies(b) /\ Copies(b) \in Nat
  BY <1>1, <1>2, CopiesAre, CopiesNext
<1>4. /\ pc'[w] = "idle"
      /\ \A x \in Workers \ {w} : pc'[x] = pc[x] /\ job'[x] = job[x] /\ handle'[x] = handle[x]
  BY <1>1, <1>2, WorkerIdle
<1>5. Hands(b)' = Hands(b) \ {w}
  BY <1>4 DEF Hands, Body
<1>6. Covered(b) \ {handle[w]} \subseteq Covered(b)'
  BY <1>2, <1>4 DEF Covered
<1>7. CASE w \notin Hands(b)
  <2>1. Hands(b)' = Hands(b)
    BY <1>5, <1>7
  <2>2. handle[w] \notin Covered(b)
    <3>1. CASE pc[w] = "busy"
      BY <1>1, <1>7, <3>1, Busy DEF Hands, Covered
    <3>2. CASE pc[w] # "busy"
      BY <1>1, <3>2, LaravelAssumption DEF TypeOK, Covered
    <3> QED BY <3>1, <3>2
  <2>3. Covered(b) \subseteq Covered(b)'
    BY <1>6, <2>2
  <2>4. /\ Copies(b)' - Copies(b) <= published'[b] - published[b]
        /\ published'[b] >= published[b] /\ late'[b] >= late[b] /\ excuse'[b] >= excuse[b]
    <3>1. published[b] \in Nat /\ late[b] \in Nat /\ excuse[b] \in Nat
      BY <1>1, Types
    <3>2. Copies(b)' - Copies(b) <= published[b] - published[b]
      BY <1>3, <3>1
    <3> QED BY <1>2, <3>1, <3>2
  <2> QED BY <1>1, <1>2, <2>1, <2>3, <2>4, Aside
<1>8. CASE w \in Hands(b)
  <2> DEFINE h == Cardinality(Hands(b))
             g == Cardinality(Hands(b)')
             v == Cardinality(Covered(b))
             u == Cardinality(Covered(b)')
             c == Copies(b)
  <2>1. IsFiniteSet(Hands(b)') /\ g = h - 1 /\ h \in Nat /\ g \in Nat
    BY <1>1, <1>5, <1>8, FS_RemoveElement, FS_CardinalityType DEF Caused
  <2>2. /\ Cardinality(Covered(b) \ {handle[w]}) = IF handle[w] \in Covered(b) THEN v - 1 ELSE v
        /\ Cardinality(Covered(b) \ {handle[w]}) <= u
        /\ v \in Nat /\ u \in Nat
    BY <1>6, CoveredType, FS_RemoveElement, FS_Subset
  <2>3. acked[b] \in Nat /\ published[b] \in Nat /\ late[b] \in Nat /\ excuse[b] \in Nat /\ c \in Nat
    BY <1>1, <1>3, Types
  <2> HIDE DEF h, g, v, u, c
  <2>4. v <= u + 1
    BY <2>2
  <2>5. /\ c + acked[b] + published[b] + late[b] <= c + acked[b] + published[b] + late[b]
        /\ c + acked[b] + g + published[b] + excuse[b] + v <= c + acked[b] + h + published[b] + excuse[b] + u
    BY <2>1, <2>2, <2>3, <2>4
  <2> QED BY <1>1, <1>2, <1>3, <2>1, <2>5, Weighed DEF h, g, v, u, c
<1> QED BY <1>7, <1>8

(* The head of the list is one copy; it becomes the member, or merges with it.  *)
LEMMA PopCaused ==
  ASSUME IInv, IInv', AllCaused, NEW w \in Workers, Pop(w)
  PROVE  AllCaused'
<1> SUFFICES ASSUME NEW b \in Bodies PROVE Caused(b)'
  BY DEF AllCaused
<1>1. TypeOK /\ TypeOK' /\ Caused(b)
  BY DEF IInv, AllCaused
<1>2. UNCHANGED <<retryAfter, delayed, dlq, published, acked, late, excuse>> /\ pc[w] = "pop"
  BY DEF Pop
<1>3. acked[b] \in Nat /\ published[b] \in Nat /\ late[b] \in Nat /\ excuse[b] \in Nat /\ dlq[b] \in Nat
  BY <1>1, Types
<1>4. CASE ready = <<>> /\ Step(w, "idle") /\ UNCHANGED <<ready, reserved, job, handle, delivered>>
  <2>1. \A v \in Workers : pc'[v] = "busy" <=> pc[v] = "busy"
    BY <1>1, <1>2, <1>4 DEF Step, TypeOK
  <2>2. Hands(b)' = Hands(b) /\ Covered(b)' = Covered(b)
    BY <1>4, <2>1 DEF Hands, Covered, Body
  <2>3. Copies(b)' = Copies(b) /\ Copies(b) \in Nat
    BY <1>1, <1>2, <1>4, CopiesAre, CopiesNext
  <2>4. /\ Copies(b)' - Copies(b) <= published'[b] - published[b]
        /\ published'[b] >= published[b] /\ late'[b] >= late[b] /\ excuse'[b] >= excuse[b]
    <3>1. Copies(b)' - Copies(b) <= published[b] - published[b]
      BY <1>3, <2>3
    <3> QED BY <1>2, <1>3, <3>1
  <2> QED BY <1>1, <1>2, <2>2, <2>4, Aside
<1>5. CASE /\ ready # <<>> /\ Step(w, "busy")
           /\ reserved' = Reserve(Head(ready))
           /\ job' = [job EXCEPT ![w] = Delivered(Head(ready))]
           /\ handle' = [handle EXCEPT ![w] = Counted(Head(ready))]
           /\ ready' = Tail(ready)
  <2> DEFINE h == Head(ready)
             m == Counted(h)
  <2>1. /\ h \in Raws /\ <<h>> \in Seq(Raws) /\ ready' \in Seq(Raws) /\ ready = <<h>> \o ready'
        /\ reserved \in [Raws -> Int]
    <3>1. ready \in Seq(Raws) /\ reserved \in [Raws -> Int]
      BY <1>1, Types
    <3> QED BY <1>5, <3>1
  <2>2. m \in Raws /\ m[1] = h[1]
    <3>1. ready[1] = h /\ 1 \in 1 .. Len(ready) /\ h \in Raws
      BY <1>5, <2>1, Types, <1>1
    <3>2. /\ h = <<h[1], h[2]>> /\ h[1] \in Bodies /\ h[2] \in Nat /\ h[2] <= Limit
          /\ Limit \in Nat /\ Limit + 1 <= MaxAttempts + MaxTrouble /\ MaxAttempts + MaxTrouble \in Nat
      <4>1. ready[1][2] <= Limit
        BY <3>1 DEF IInv, Counts
      <4>2. Limit \in Nat /\ Limit + 1 <= MaxAttempts + MaxTrouble
        BY <1>1, Types
      <4> HIDE DEF h
      <4> QED BY <3>1, <4>1, <4>2, RawsType, LaravelAssumption
    <3> HIDE DEF h
    <3>3. h[2] + 1 \in Nat /\ h[2] + 1 <= MaxAttempts + MaxTrouble
      BY <3>2
    <3>4. <<h[1], h[2] + 1>> \in Raws
      BY <3>2, <3>3, RawOf
    <3> QED BY <3>1, <3>4 DEF Counted
  <2> HIDE DEF h, m
  <2>3. reserved' = Zadd(reserved, m, retryAfter) /\ retryAfter \in Int /\ retryAfter \notin {0, Absent}
    <3>1. retryAfter \in (Nat \ {0}) \cup {Never}
      BY <1>1, LaravelAssumption DEF TypeOK
    <3> QED BY <1>5, <3>1 DEF Reserve, Never, Absent, m, h
  <2>4. /\ reserved'[m] = retryAfter
        /\ \A r \in Raws : r # m => reserved'[r] = reserved[r]
    BY <2>1, <2>2, <2>3 DEF Zadd
  <2>5. /\ pc'[w] = "busy" /\ job'[w] = h /\ handle'[w] = m /\ handle[w] = None
        /\ \A v \in Workers \ {w} : pc'[v] = pc[v] /\ job'[v] = job[v] /\ handle'[v] = handle[v]
    BY <1>1, <1>2, <1>5 DEF TypeOK, Step, Delivered, m, h
  <2>6. Covered(b) \subseteq Covered(b)' /\ (h[1] = b => m \in Covered(b)')
    <3>1. m \in Raws /\ m[1] = b /\ handle'[w] = m => m \in Covered(b)'
      BY <2>3, <2>4 DEF Covered
    <3>2. \A r \in Covered(b) : \E v \in Workers \ {w} : handle[v] = r
      BY <2>5, LaravelAssumption DEF Covered
    <3>3. Covered(b) \subseteq Covered(b)'
      BY <2>3, <2>4, <2>5, <3>2 DEF Covered
    <3> QED BY <2>2, <2>5, <3>1, <3>3
  <2>7. w \notin Hands(b) /\ Hands(b)' = IF h[1] = b THEN Hands(b) \cup {w} ELSE Hands(b)
    BY <1>2, <2>5 DEF Hands, Body
  <2> DEFINE p == Cardinality(At(ready, b))
             q == Cardinality(At(ready', b))
             y == Cardinality(In(reserved, b))
             z == Cardinality(In(reserved', b))
             x == Cardinality(In(delayed, b))
             c == Copies(b)
             d == Copies(b)'
             i == Cardinality(Hands(b))
             g == Cardinality(Hands(b)')
             v == Cardinality(Covered(b))
             u == Cardinality(Covered(b)')
             e == IF h[1] = b THEN 1 ELSE 0
             k == IF h[1] = b /\ reserved[m] = Absent THEN 1 ELSE 0
  <2>8. p = e + q /\ p \in Nat /\ q \in Nat /\ e \in Nat
    <3>1. Cardinality(At(<<h>>, b)) = e
      BY <2>1, AtOne
    <3>2. Cardinality(At(<<h>> \o ready', b)) = Cardinality(At(<<h>>, b)) + q
      BY <2>1, AtJoined
    <3>3. ready \in Seq(Raws)
      BY <1>1, Types
    <3> QED BY <2>1, <3>1, <3>2, <3>3, AtType
  <2>9. z = y + k /\ y \in Nat /\ z \in Nat /\ k \in Nat
    BY <2>1, <2>2, <2>3, InAdded, InType
  <2>10. c = p + y + x + dlq[b] /\ d = q + z + x + dlq[b] /\ x \in Nat
    BY <1>1, <1>2, CopiesAre, CopiesNext, InType DEF CopiesIn
  <2>11. g = i + e /\ i \in Nat /\ IsFiniteSet(Hands(b)')
    <3>1. IsFiniteSet(Hands(b)) /\ i \in Nat
      BY <1>1, FS_CardinalityType DEF Caused
    <3>2. /\ IsFiniteSet(Hands(b) \cup {w})
          /\ Cardinality(Hands(b) \cup {w}) = IF w \in Hands(b) THEN i ELSE i + 1
      BY <3>1, FS_AddElement
    <3>3. CASE h[1] = b
      <4>1. Hands(b)' = Hands(b) \cup {w} /\ w \notin Hands(b)
        BY <2>7, <3>3
      <4>2. g = i + 1 /\ IsFiniteSet(Hands(b)')
        BY <3>2, <4>1
      <4> QED BY <3>1, <3>3, <4>2
    <3>4. CASE h[1] # b
      <4>1. Hands(b)' = Hands(b)
        BY <2>7, <3>4
      <4>2. g = i /\ IsFiniteSet(Hands(b)')
        BY <3>1, <4>1
      <4>3. i + 0 = i
        BY <3>1
      <4> QED BY <3>1, <3>4, <4>2, <4>3
    <3> QED BY <3>3, <3>4
  <2>12. v + k <= u /\ v \in Nat /\ u \in Nat
    <3>1. v \in Nat /\ u \in Nat /\ v <= u
      BY <2>6, CoveredType, FS_Subset
    <3>2. ASSUME h[1] = b, reserved[m] = Absent PROVE v + 1 <= u
      <4>1. m \notin Covered(b) /\ Covered(b) \cup {m} \subseteq Covered(b)'
        BY <2>6, <3>2 DEF Covered
      <4>2. Cardinality(Covered(b) \cup {m}) = IF m \in Covered(b) THEN v ELSE v + 1
        BY CoveredType, FS_AddElement
      <4>3. Cardinality(Covered(b) \cup {m}) <= u
        BY <4>1, CoveredType, FS_Subset
      <4> QED BY <4>1, <4>2, <4>3
    <3> HIDE DEF v, u
    <3> QED BY <3>1, <3>2
  <2> HIDE DEF p, q, y, z, x, c, d, i, g, v, u, e
  <2>13. k <= e
    BY DEF e
  <2> HIDE DEF k
  <2>14. c \in Nat /\ d \in Nat /\ d + e = c + k
    BY <1>3, <2>8, <2>9, <2>10
  <2>15. d + acked[b] + published[b] + late[b] <= c + acked[b] + published[b] + late[b]
    BY <1>3, <2>8, <2>9, <2>13, <2>14
  <2>16. d + acked[b] + g + published[b] + excuse[b] + v <= c + acked[b] + i + published[b] + excuse[b] + u
    BY <1>3, <2>8, <2>9, <2>11, <2>12, <2>13, <2>14
  <2> QED BY <1>1, <1>2, <2>11, <2>15, <2>16, Weighed DEF c, d, i, g, v, u
<1> QED BY <1>4, <1>5 DEF Pop

LEMMA InitCaused == Init => AllCaused
<1> SUFFICES ASSUME Init, NEW b \in Bodies PROVE Caused(b)
  BY DEF AllCaused
<1>1. Hands(b) = {} /\ At(ready, b) = {} /\ In(reserved, b) = {} /\ In(delayed, b) = {}
  BY DEF Init, Hands, At, In, Empty
<1>2. TypeOK
  BY InitInv DEF IInv
<1>3. /\ dlq[b] = 0 /\ acked[b] = 0 /\ published[b] = 0 /\ late[b] = 0 /\ excuse[b] = 0
  BY DEF Init, Zero
<1>4. Cardinality({}) = 0 /\ IsFiniteSet({})
  BY FS_EmptySet
<1>5. Copies(b) = 0 + 0 + 0 + dlq[b]
  BY <1>1, <1>2, <1>4, CopiesAre DEF CopiesIn
<1>6. Cardinality(Covered(b)) \in Nat
  BY CoveredType
<1> DEFINE v == Cardinality(Covered(b))
<1> HIDE DEF v
<1>7. 0 + 0 + 0 <= 0 + 0 + v
  BY <1>6 DEF v
<1> QED BY <1>1, <1>3, <1>4, <1>5, <1>7 DEF Caused, v

LEMMA NextCaused ==
  ASSUME IInv, AllCaused, [Next]_vars
  PROVE  AllCaused'
<1>0. IInv'
  BY NextInv
<1>1. CASE \E b \in Bodies : Publish(b)
  BY <1>0, <1>1, PublishCaused
<1>2. CASE Tick
  BY <1>0, <1>2, TickCaused
<1>3. ASSUME NEW w \in Workers, Poll(w) \/ Settle(w) \/ ReleaseUnprocessed(w) \/ LetGo(w)
      PROVE  AllCaused'
  BY <1>0, <1>3, MigrateDelayedCaused, MigrateReservedCaused, PopCaused, AckCaused, RetryCaused, DeadLetterCaused,
     ReleaseUnprocessedCaused, LetGoCaused DEF Poll, Settle
<1>4. CASE UNCHANGED vars
  BY <1>4 DEF AllCaused, Caused, Copies, InReady, In, Hands, Covered, Body, vars, zsets, worker, history
<1> QED BY <1>1, <1>2, <1>3, <1>4 DEF Next

(* Every worker in the middle of a job stands for at most one copy.             *)
LEMMA CoversFewer ==
  ASSUME TypeOK, NEW b \in Bodies, IsFiniteSet(Hands(b))
  PROVE  Cardinality(Covered(b)) <= Cardinality(Hands(b))
<1> DEFINE T == {handle[w] : w \in Hands(b)}
           f == [w \in Hands(b) |-> handle[w]]
<1>1. f \in Surjection(Hands(b), T)
  BY DEF Surjection
<1>2. IsFiniteSet(T) /\ Cardinality(T) <= Cardinality(Hands(b))
  BY <1>1, FS_Surjection
<1>3. Covered(b) \subseteq T
  <2> SUFFICES ASSUME NEW r \in Covered(b) PROVE r \in T
    OBVIOUS
  <2>1. PICK w \in Workers : handle[w] = r
    BY DEF Covered
  <2>2. r \in Raws /\ r[1] = b
    BY DEF Covered
  <2>3. pc[w] = "busy" /\ handle[w] = Counted(job[w])
    BY <2>1, <2>2, LaravelAssumption DEF TypeOK
  <2>4. Body(w) = b
    BY <2>1, <2>2, <2>3 DEF Counted, Body
  <2> QED BY <2>1, <2>3, <2>4 DEF Hands
<1>4. Cardinality(Covered(b)) <= Cardinality(T)
  BY <1>2, <1>3, FS_Subset
<1>5. Cardinality(Covered(b)) \in Nat /\ Cardinality(T) \in Nat /\ Cardinality(Hands(b)) \in Nat
  BY <1>2, CoveredType, FS_CardinalityType
<1> QED BY <1>2, <1>4, <1>5

(* Every copy that was not published was made by a worker that an outlived      *)
(* reservation or a lost answer excuses, or will be: the inductive invariant of *)
(* the Laravel layout, with the workers that hold a job counted as copies.      *)
THEOREM CopiesAreCaused == Spec => [](IInv /\ AllCaused)
<1>1. Init => IInv /\ AllCaused
  BY InitInv, InitCaused
<1>2. (IInv /\ AllCaused) /\ [Next]_vars => (IInv /\ AllCaused)'
  BY NextInv, NextCaused
<1> QED BY <1>1, <1>2, PTL DEF Spec

(* There are no more copies of a job than were published, released late or      *)
(* excused, for any workers, equal jobs, retry_after and batch size             *)
(* (_RELEASE, _MIGRATE and _POP of redis_transport.py).                         *)
THEOREM CopiesHaveCauses == Spec => []CopiesHaveACause
<1>1. IInv /\ AllCaused => CopiesHaveACause
  <2> SUFFICES ASSUME IInv, AllCaused, NEW b \in Bodies
               PROVE  /\ Copies(b) + acked[b] <= published[b] + late[b]
                      /\ Copies(b) + acked[b] <= published[b] + excuse[b]
    BY DEF CopiesHaveACause
  <2> DEFINE c == Copies(b)
             h == Cardinality(Hands(b))
             v == Cardinality(Covered(b))
  <2>1. TypeOK /\ Caused(b)
    BY DEF IInv, AllCaused
  <2>2. /\ c + acked[b] <= published[b] + late[b]
        /\ c + acked[b] + h <= published[b] + excuse[b] + v
        /\ IsFiniteSet(Hands(b))
    BY <2>1 DEF Caused
  <2>3. v <= h /\ v \in Nat /\ h \in Nat
    BY <2>1, <2>2, CoversFewer, CoveredType, FS_CardinalityType
  <2>4. c \in Nat /\ acked[b] \in Nat /\ published[b] \in Nat /\ excuse[b] \in Nat
    BY <2>1, CopiesAre, Types
  <2> HIDE DEF c, h, v
  <2>5. c + acked[b] <= published[b] + excuse[b]
    BY <2>2, <2>3, <2>4
  <2> QED BY <2>2, <2>5 DEF c
<1> QED BY <1>1, CopiesAreCaused, PTL

-----------------------------------------------------------------------------
(* Attempts: every value a job has anywhere counts at most its deliveries, and  *)
(* exactly those that were not handed back while it is the only one.            *)
Kept(b) == {r \in Raws : r[1] = b /\
              \/ \E i \in 1 .. Len(ready) : ready[i] = r
              \/ reserved[r] # Absent \/ delayed[r] # Absent
              \/ \E w \in Workers : handle[w] = r}
Single(b) == published[b] <= 1 /\ excuse[b] = 0
Right(n, b) == n <= delivered[b] /\ (Single(b) => n = delivered[b] - returned[b])

Honest(b) ==
  /\ published[b] = 0 => delivered[b] = 0 /\ returned[b] = 0 /\ excuse[b] = 0
  /\ b \notin Poison => \A r \in Kept(b) : Right(r[2], b)
AllHonest == \A b \in Bodies : Honest(b)

LEMMA HeldIsBusy ==
  ASSUME TypeOK, NEW w \in Workers, NEW r \in Raws, handle[w] = r
  PROVE  pc[w] = "busy" /\ Body(w) = r[1] /\ w \in Hands(r[1])
<1>1. pc[w] = "busy" /\ handle[w] = Counted(job[w])
  BY LaravelAssumption DEF TypeOK
<1>2. Body(w) = r[1]
  BY <1>1 DEF Counted, Body
<1> QED BY <1>1, <1>2 DEF Hands

(* A job that was published once and has no excuse is in one place.             *)
LEMMA Alone ==
  ASSUME IInv, AllCaused, NEW b \in Bodies, Single(b)
  PROVE  /\ published[b] = 0 => Kept(b) = {}
         /\ \A i \in At(ready, b) :
              At(ready, b) = {i} /\ In(reserved, b) = {} /\ In(delayed, b) = {} /\ Hands(b) = {}
         /\ \A w \in Hands(b) :
              At(ready, b) = {} /\ In(reserved, b) = {handle[w]} /\ In(delayed, b) = {} /\ Hands(b) = {w}
<1>1. TypeOK /\ Caused(b)
  BY DEF IInv, AllCaused
<1> DEFINE x == Cardinality(At(ready, b))
           y == Cardinality(In(reserved, b))
           z == Cardinality(In(delayed, b))
           h == Cardinality(Hands(b))
           v == Cardinality(Covered(b))
<1>2. ready \in Seq(Raws) /\ IsFiniteSet(Hands(b)) /\ IsFiniteSet(At(ready, b))
  BY <1>1, Types, AtType DEF Caused
<1>3. x \in Nat /\ y \in Nat /\ z \in Nat /\ h \in Nat /\ v \in Nat
  BY <1>2, AtType, InType, CoveredType, FS_CardinalityType
<1>4. dlq[b] \in Nat /\ acked[b] \in Nat /\ published[b] \in Nat /\ published[b] <= 1
  BY <1>1, Types DEF Single
<1>5. x + y + z + dlq[b] + acked[b] + h <= published[b] + v
  <2>1. Copies(b) = x + y + z + dlq[b]
    BY <1>1, CopiesAre DEF CopiesIn
  <2>2. Copies(b) + acked[b] + h <= published[b] + 0 + v
    BY <1>1 DEF Caused, Single
  <2> HIDE DEF x, y, z, h, v
  <2> QED BY <1>3, <1>4, <2>1, <2>2
<1>6. v <= y /\ v <= h /\ Covered(b) \subseteq In(reserved, b)
  <2>1. Covered(b) \subseteq In(reserved, b)
    BY DEF Covered, In
  <2> QED BY <1>1, <1>2, <2>1, InType, FS_Subset, CoversFewer
<1>7. published[b] > 0 => x + y + z + dlq[b] + acked[b] >= 1
  <2>1. x = 0 => At(ready, b) = {}
    BY <1>2, FS_EmptySet
  <2>2. y = 0 => In(reserved, b) = {}
    BY InType, FS_EmptySet
  <2>3. z = 0 => In(delayed, b) = {}
    BY InType, FS_EmptySet
  <2>4. published[b] > 0 => acked[b] > 0 \/ dlq[b] > 0 \/ Somewhere(b)
    BY <1>1, Accounted DEF IInv
  <2>5. Somewhere(b) => At(ready, b) # {} \/ In(reserved, b) # {} \/ In(delayed, b) # {}
    BY DEF Somewhere, At, In
  <2>6. published[b] > 0 => acked[b] > 0 \/ dlq[b] > 0 \/ x # 0 \/ y # 0 \/ z # 0
    BY <2>1, <2>2, <2>3, <2>4, <2>5
  <2>7. x \in Nat /\ y \in Nat /\ z \in Nat /\ dlq[b] \in Nat /\ acked[b] \in Nat
    BY <1>3, <1>4
  <2> DEFINE d == dlq[b]
             a == acked[b]
  <2> HIDE DEF x, y, z, d, a
  <2>8. a > 0 \/ d > 0 \/ x # 0 \/ y # 0 \/ z # 0 => x + y + z + d + a >= 1
    BY <2>7 DEF d, a
  <2> QED BY <2>6, <2>8 DEF d, a
<1> DEFINE k == dlq[b] + acked[b]
           p == published[b]
<1> HIDE DEF x, y, z, h, v
<1>16. /\ k \in Nat /\ p \in 0 .. 1 /\ v <= y /\ v <= h
       /\ x + y + z + k + h <= p + v /\ (p = 1 => x + y + z + k >= 1)
  <2>1. k \in Nat /\ p \in 0 .. 1
    BY <1>4
  <2>2. x + y + z + dlq[b] + acked[b] = x + y + z + k
    BY <1>3, <1>4
  <2>3. p = 1 => x + y + z + k >= 1
    BY <1>7, <2>2
  <2> QED BY <1>5, <1>6, <2>1, <2>2, <2>3
<1> HIDE DEF k, p
<1>8. x >= 1 => x = 1 /\ y = 0 /\ z = 0 /\ h = 0
  BY <1>3, <1>16
<1>9. h >= 1 => x = 0 /\ y = 1 /\ z = 0 /\ h = 1 /\ v = 1
  BY <1>3, <1>16
<1>10. published[b] = 0 => x = 0 /\ y = 0 /\ z = 0 /\ h = 0
  BY <1>3, <1>16 DEF p
<1>11. /\ x = 0 <=> At(ready, b) = {}
       /\ y = 0 <=> In(reserved, b) = {}
       /\ z = 0 <=> In(delayed, b) = {}
       /\ h = 0 <=> Hands(b) = {}
       /\ v = 0 <=> Covered(b) = {}
  BY <1>2, InType, CoveredType, FS_EmptySet DEF x, y, z, h, v
<1>12. /\ x = 1 => \E i : At(ready, b) = {i}
       /\ y = 1 => \E r : In(reserved, b) = {r}
       /\ h = 1 => \E w : Hands(b) = {w}
  BY <1>2, InType, FS_Singleton DEF x, y, h
<1>13. published[b] = 0 => Kept(b) = {}
  <2> SUFFICES ASSUME published[b] = 0, NEW r \in Kept(b) PROVE FALSE
    OBVIOUS
  <2>1. At(ready, b) = {} /\ In(reserved, b) = {} /\ In(delayed, b) = {} /\ Hands(b) = {}
    BY <1>10, <1>11
  <2>2. \A w \in Workers : handle[w] # r
    BY <1>1, <2>1, HeldIsBusy DEF Kept
  <2> QED BY <2>1, <2>2 DEF Kept, At, In
<1>14. ASSUME NEW i \in At(ready, b)
       PROVE  At(ready, b) = {i} /\ In(reserved, b) = {} /\ In(delayed, b) = {} /\ Hands(b) = {}
  <2>1. x >= 1
    BY <1>3, <1>11, <1>14
  <2> QED BY <1>8, <1>11, <1>12, <1>14, <2>1
<1>15. ASSUME NEW w \in Hands(b)
       PROVE  At(ready, b) = {} /\ In(reserved, b) = {handle[w]} /\ In(delayed, b) = {} /\ Hands(b) = {w}
  <2>1. h >= 1
    BY <1>3, <1>11, <1>15
  <2>2. x = 0 /\ y = 1 /\ z = 0 /\ h = 1 /\ v # 0
    BY <1>9, <2>1
  <2>3. Hands(b) = {w}
    BY <1>12, <1>15, <2>2
  <2>4. PICK r \in Covered(b) : TRUE
    BY <1>11, <2>2
  <2>5. PICK u \in Workers : handle[u] = r
    BY <2>4 DEF Covered
  <2>6. r \in Raws /\ r[1] = b
    BY <2>4 DEF Covered
  <2>7. u \in Hands(b)
    BY <1>1, <2>5, <2>6, HeldIsBusy
  <2>8. handle[w] \in In(reserved, b)
    BY <1>6, <2>3, <2>4, <2>5, <2>7
  <2> QED BY <1>11, <1>12, <2>2, <2>3, <2>8
<1> QED BY <1>13, <1>14, <1>15

(* A step that shows no new value keeps them right.                             *)
LEMMA StaysHonest ==
  ASSUME IInv, IInv', AllCaused, NEW b \in Bodies, Honest(b),
         b \notin Poison => Kept(b)' \subseteq Kept(b),
         delivered'[b] = delivered[b], returned'[b] = returned[b], published'[b] = published[b],
         excuse'[b] = excuse[b] \/ (Kept(b) # {} /\ excuse'[b] >= excuse[b])
  PROVE  Honest(b)'
<1>1. excuse[b] \in Nat /\ excuse'[b] \in Nat /\ published[b] \in Nat
  BY DEF IInv, TypeOK
<1>2. Single(b)' => Single(b)
  BY <1>1 DEF Single
<1>3. published[b] = 0 => Kept(b) = {} /\ excuse[b] = 0
  BY <1>1, Alone DEF Honest, Single
<1>4. published'[b] = 0 => delivered'[b] = 0 /\ returned'[b] = 0 /\ excuse'[b] = 0
  BY <1>3 DEF Honest
<1>5. b \notin Poison => \A r \in Kept(b)' : Right(r[2], b)'
  BY <1>2 DEF Honest, Right
<1> QED BY <1>4, <1>5 DEF Honest

LEMMA PublishHonest ==
  ASSUME IInv, IInv', AllCaused, AllHonest, NEW x \in Bodies, Publish(x)
  PROVE  AllHonest'
<1> SUFFICES ASSUME NEW b \in Bodies PROVE Honest(b)'
  BY DEF AllHonest
<1>1. TypeOK /\ TypeOK' /\ Honest(b)
  BY DEF IInv, AllHonest
<1>2. UNCHANGED <<reserved, handle, delivered, returned, excuse>>
  BY DEF Publish, worker
<1> DEFINE n == <<x, 0>>
<1>3. n \in Raws /\ n[1] = x /\ n[2] = 0
  BY RawOf, LaravelAssumption
<1> HIDE DEF n
<1>4. Kept(b)' \subseteq Kept(b) \cup {n}
  <2>1. CASE ready' = Append(ready, n) /\ UNCHANGED delayed
    <3>1. ready \in Seq(Raws)
      BY <1>1, Types
    <3>2. \A i \in 1 .. Len(ready') : ready'[i] = n \/ (i \in 1 .. Len(ready) /\ ready'[i] = ready[i])
      BY <1>3, <2>1, <3>1
    <3> QED BY <1>2, <2>1, <3>2 DEF Kept
  <2>2. CASE \E d \in Delays : delayed' = Zadd(delayed, n, d) /\ UNCHANGED ready
    <3>1. \A r \in Raws : r # n => delayed'[r] = delayed[r]
      BY <2>2 DEF Zadd
    <3> QED BY <1>2, <2>2, <3>1 DEF Kept
  <2> QED BY <2>1, <2>2 DEF Publish, n
<1>5. CASE b # x
  <2>1. published'[b] = published[b]
    BY <1>1, <1>5, Types DEF Publish, Plus
  <2>2. Kept(b)' \subseteq Kept(b)
    BY <1>3, <1>4, <1>5 DEF Kept
  <2> QED BY <1>1, <1>2, <2>1, <2>2, StaysHonest
<1>6. CASE b = x
  <2>1. published'[b] = published[b] + 1 /\ published[b] \in Nat /\ delivered[b] \in Nat
    BY <1>1, <1>6, Types, PlusType DEF Publish
  <2>2. Single(b)' => Single(b) /\ published[b] = 0
    BY <1>2, <2>1 DEF Single
  <2>3. Single(b)' => Kept(b) = {} /\ delivered[b] = 0 /\ returned[b] = 0
    BY <1>1, <2>2, Alone DEF Honest
  <2>4. ASSUME b \notin Poison, NEW r \in Kept(b)' PROVE Right(r[2], b)'
    <3>1. CASE r = n
      <4>1. Single(b)' => r[2] = delivered[b] - returned[b]
        BY <1>3, <2>3, <3>1
      <4> QED BY <1>2, <1>3, <2>1, <3>1, <4>1 DEF Right
    <3>2. CASE r # n
      <4>1. r \in Kept(b) /\ ~ Single(b)'
        BY <1>4, <2>3, <2>4, <3>2
      <4> QED BY <1>1, <1>2, <2>4, <4>1 DEF Honest, Right
    <3> QED BY <3>1, <3>2
  <2> QED BY <2>1, <2>4 DEF Honest
<1> QED BY <1>5, <1>6

LEMMA TickHonest ==
  ASSUME IInv, IInv', AllCaused, AllHonest, Tick
  PROVE  AllHonest'
<1> SUFFICES ASSUME NEW b \in Bodies PROVE Honest(b)'
  BY DEF AllHonest
<1>1. TypeOK /\ TypeOK' /\ Honest(b)
  BY DEF IInv, AllHonest
<1>2. /\ UNCHANGED <<ready, handle, published, delivered, returned>>
      /\ excuse'[b] = excuse[b] + Cardinality(Of(Outlived, b))
      /\ reserved' = Elapse(reserved) /\ delayed' = Elapse(delayed)
  BY DEF Tick, worker, Of
<1>3. \A r \in Raws : reserved'[r] # Absent => reserved[r] # Absent
  BY <1>1, <1>2, Types DEF Elapse, Absent, Never
<1>4. \A r \in Raws : delayed'[r] # Absent => delayed[r] # Absent
  BY <1>1, <1>2, Types DEF Elapse, Absent, Never
<1>5. Kept(b)' \subseteq Kept(b)
  BY <1>2, <1>3, <1>4 DEF Kept
<1>6. excuse[b] \in Nat /\ Cardinality(Of(Outlived, b)) \in Nat /\ IsFiniteSet(Of(Outlived, b))
  BY <1>1, Types, OfType DEF Outlived
<1>7. excuse'[b] >= excuse[b]
  BY <1>2, <1>6
<1>8. excuse'[b] = excuse[b] \/ Kept(b) # {}
  <2>1. CASE Of(Outlived, b) = {}
    BY <1>2, <1>6, <2>1, FS_EmptySet
  <2>2. CASE Of(Outlived, b) # {}
    BY <2>2 DEF Of, Outlived, Kept
  <2> QED BY <2>1, <2>2
<1> QED BY <1>1, <1>2, <1>5, <1>7, <1>8, StaysHonest

LEMMA MigrationHonest ==
  ASSUME IInv, IInv', AllCaused, AllHonest, NEW w \in Workers, MigrateDelayed(w) \/ MigrateReserved(w)
  PROVE  AllHonest'
<1> SUFFICES ASSUME NEW b \in Bodies PROVE Honest(b)'
  BY DEF AllHonest
<1>1. TypeOK /\ Honest(b) /\ ready \in Seq(Raws) /\ reserved \in [Raws -> Int] /\ delayed \in [Raws -> Int]
  BY Types DEF IInv, AllHonest
<1>2. UNCHANGED <<handle, published, delivered, returned, excuse>>
  BY DEF MigrateDelayed, MigrateReserved, history
<1>3. Kept(b)' \subseteq Kept(b)
  <2>1. ASSUME NEW z \in [Raws -> Int], NEW S \in Selections(z), NEW order \in Orders(S), ready' = ready \o order
        PROVE  /\ \A i \in 1 .. Len(ready') :
                    (\E j \in 1 .. Len(ready) : ready[j] = ready'[i]) \/ (ready'[i] \in Raws /\ z[ready'[i]] # Absent)
               /\ \A r \in Raws : Zrem(z, S)[r] # Absent => z[r] # Absent
    <3>1. order \in Seq(Raws) /\ \A j \in 1 .. Len(order) : order[j] \in S /\ order[j] \in Raws /\ z[order[j]] = 0
      BY MigrationOrder DEF Due
    <3>2. \A i \in 1 .. Len(ready') :
            \/ i \in 1 .. Len(ready) /\ ready'[i] = ready[i]
            \/ \E j \in 1 .. Len(order) : i = Len(ready) + j /\ ready'[i] = order[j]
      BY <1>1, <2>1, <3>1, Joined
    <3>3. \A j \in 1 .. Len(order) : order[j] \in Raws /\ z[order[j]] # Absent
      BY <3>1 DEF Absent
    <3>4. \A i \in 1 .. Len(ready') :
            (\E j \in 1 .. Len(ready) : ready[j] = ready'[i]) \/ (ready'[i] \in Raws /\ z[ready'[i]] # Absent)
      BY <3>2, <3>3
    <3>5. \A r \in Raws : Zrem(z, S)[r] # Absent => z[r] # Absent
      BY DEF Zrem
    <3> QED BY <3>4, <3>5
  <2>2. CASE MigrateDelayed(w)
    <3>1. PICK S \in Selections(delayed) : \E order \in Orders(S) :
            delayed' = Zrem(delayed, S) /\ ready' = ready \o order
      BY <2>2 DEF MigrateDelayed
    <3>2. UNCHANGED reserved
      BY <2>2 DEF MigrateDelayed
    <3>3. /\ \A i \in 1 .. Len(ready') :
               (\E j \in 1 .. Len(ready) : ready[j] = ready'[i]) \/ (ready'[i] \in Raws /\ delayed[ready'[i]] # Absent)
          /\ \A r \in Raws : delayed'[r] # Absent => delayed[r] # Absent
      BY <1>1, <2>1, <3>1
    <3> QED BY <1>2, <3>2, <3>3 DEF Kept
  <2>3. CASE MigrateReserved(w) /\ Recovers
    <3>1. PICK S \in Selections(reserved) : \E order \in Orders(S) :
            reserved' = Zrem(reserved, S) /\ ready' = ready \o order
      BY <2>3 DEF MigrateReserved
    <3>2. UNCHANGED delayed
      BY <2>3 DEF MigrateReserved
    <3>3. /\ \A i \in 1 .. Len(ready') :
               (\E j \in 1 .. Len(ready) : ready[j] = ready'[i]) \/ (ready'[i] \in Raws /\ reserved[ready'[i]] # Absent)
          /\ \A r \in Raws : reserved'[r] # Absent => reserved[r] # Absent
      BY <1>1, <2>1, <3>1
    <3> QED BY <1>2, <3>2, <3>3 DEF Kept
  <2>4. CASE MigrateReserved(w) /\ ~ Recovers
    <3>1. UNCHANGED <<ready, reserved, delayed>>
      BY <2>4 DEF MigrateReserved
    <3> QED BY <1>2, <3>1 DEF Kept
  <2> QED BY <2>2, <2>3, <2>4
<1> QED BY <1>1, <1>2, <1>3, StaysHonest

(* What a settled worker leaves behind: the values that were there, and the one *)
(* it put back.                                                                 *)
LEMMA SettledHonest ==
  ASSUME IInv, IInv', AllCaused, AllHonest, NEW w \in Workers, pc[w] = "busy", Removal(w), Finished(w),
         UNCHANGED <<ready, published, delivered, returned>>,
         Body(w) \notin Poison =>
           \A r \in Raws : delayed'[r] # Absent => delayed[r] # Absent \/ r = handle[w],
         \A r \in Raws : r[1] # Body(w) => delayed'[r] = delayed[r]
  PROVE  AllHonest'
<1> SUFFICES ASSUME NEW b \in Bodies PROVE Honest(b)'
  BY DEF AllHonest
<1>1. TypeOK /\ Honest(b) /\ handle[w] \in Raws /\ handle[w][1] = Body(w) /\ Body(w) \in Bodies
  BY Busy DEF IInv, AllHonest
<1>2. \A r \in Raws : reserved'[r] # Absent => reserved[r] # Absent
  BY DEF Removal, Zrem
<1>3. \A v \in Workers : \A r \in Raws : handle'[v] = r => handle[v] = r
  <2>1. CASE Idle(w)
    BY <1>1, <2>1, WorkerIdle, LaravelAssumption
  <2>2. CASE UNCHANGED worker
    BY <2>2 DEF worker
  <2> QED BY <2>1, <2>2 DEF Finished
<1>4. b \notin Poison => Kept(b)' \subseteq Kept(b)
  <2> SUFFICES ASSUME b \notin Poison, NEW r \in Raws, r[1] = b, delayed'[r] # Absent
               PROVE  delayed[r] # Absent \/ r = handle[w]
    BY <1>2, <1>3 DEF Kept
  <2> QED OBVIOUS
<1>5. excuse'[b] = excuse[b] \/ (Kept(b) # {} /\ excuse'[b] >= excuse[b])
  <2>1. CASE b = Body(w)
    <3>1. handle[w] \in Kept(b)
      BY <1>1, <2>1 DEF Kept
    <3>2. excuse \in [Bodies -> Nat] /\ excuse[b] \in Nat
      BY <1>1, Types
    <3>3. Plus(excuse, Body(w))[b] >= excuse[b]
      BY <1>1, <3>2, PlusType
    <3> QED BY <3>1, <3>2, <3>3 DEF Finished
  <2>2. CASE b # Body(w)
    BY <2>2, HandsElsewhere
  <2> QED BY <2>1, <2>2
<1> QED BY <1>1, <1>4, <1>5, StaysHonest

LEMMA AckHonest ==
  ASSUME IInv, IInv', AllCaused, AllHonest, NEW w \in Workers, Ack(w) \/ DeadLetter(w)
  PROVE  AllHonest'
<1>1. /\ pc[w] = "busy" /\ Removal(w) /\ Finished(w)
      /\ UNCHANGED <<ready, published, delayed, delivered, returned>>
  BY AnsweredFinishes DEF Ack, DeadLetter
<1> QED BY <1>1, SettledHonest

(* The body of a retry counts what its member counted.                          *)
LEMMA RetryHonest ==
  ASSUME IInv, IInv', AllCaused, AllHonest, NEW w \in Workers, Retry(w)
  PROVE  AllHonest'
<1>1. /\ pc[w] = "busy" /\ Finished(w) /\ Body(w) \notin Poison
      /\ UNCHANGED <<ready, published, delivered, returned>>
  BY AnsweredFinishes DEF Retry
<1>2. PICK d \in Delays : PutBack(w, Retried(job[w]), d)
  BY DEF Retry
<1>3. Retried(job[w]) = handle[w] /\ handle[w][1] = Body(w)
  BY <1>1, Busy DEF Counted, Retried, Body
<1>4. Removal(w) /\ \A r \in Raws : r # handle[w] => delayed'[r] = delayed[r]
  BY <1>2, <1>3 DEF PutBack, Zadd
<1> QED BY <1>1, <1>3, <1>4, SettledHonest

LEMMA LetGoHonest ==
  ASSUME IInv, IInv', AllCaused, AllHonest, NEW w \in Workers, LetGo(w)
  PROVE  AllHonest'
<1> SUFFICES ASSUME NEW b \in Bodies PROVE Honest(b)'
  BY DEF AllHonest
<1>1. TypeOK /\ Honest(b) /\ Idle(w) /\ UNCHANGED <<ready, reserved, delayed, published, delivered, returned, excuse>>
  BY DEF IInv, AllHonest, LetGo, zsets, history
<1>2. \A v \in Workers : \A r \in Raws : handle'[v] = r => handle[v] = r
  BY <1>1, WorkerIdle, LaravelAssumption
<1>3. Kept(b)' \subseteq Kept(b)
  BY <1>1, <1>2 DEF Kept
<1> QED BY <1>1, <1>3, StaysHonest

(* The delivery counts as soon as the member does.                              *)
LEMMA PopHonest ==
  ASSUME IInv, IInv', AllCaused, AllHonest, NEW w \in Workers, Pop(w)
  PROVE  AllHonest'
<1> SUFFICES ASSUME NEW b \in Bodies PROVE Honest(b)'
  BY DEF AllHonest
<1>1. TypeOK /\ TypeOK' /\ Honest(b)
  BY DEF IInv, AllHonest
<1>2. UNCHANGED <<delayed, published, returned, excuse>> /\ pc[w] = "pop"
  BY DEF Pop
<1>3. CASE ready = <<>> /\ UNCHANGED <<ready, reserved, job, handle, delivered>>
  <2>1. Kept(b)' = Kept(b)
    BY <1>2, <1>3 DEF Kept
  <2> QED BY <1>1, <1>2, <1>3, <2>1, StaysHonest
<1>4. CASE /\ ready # <<>>
           /\ reserved' = Reserve(Head(ready))
           /\ handle' = [handle EXCEPT ![w] = Counted(Head(ready))]
           /\ delivered' = Plus(delivered, Head(ready)[1])
           /\ ready' = Tail(ready)
  <2> DEFINE h == Head(ready)
             m == Counted(h)
  <2>1. h = ready[1] /\ h \in Raws /\ h[1] \in Bodies /\ h[2] \in Nat /\ 1 \in 1 .. Len(ready)
    <3>1. ready \in Seq(Raws) /\ ready # <<>>
      BY <1>1, <1>4, Types
    <3>2. h = ready[1] /\ 1 \in 1 .. Len(ready) /\ h \in Raws
      BY <3>1
    <3> QED BY <3>2, RawsType
  <2>2. \A i \in 1 .. Len(ready') : i + 1 \in 1 .. Len(ready) /\ i + 1 # 1 /\ ready'[i] = ready[i + 1]
    <3>1. ready \in Seq(Raws) /\ ready # <<>> /\ ready' = Tail(ready)
      BY <1>1, <1>4, Types
    <3> QED BY <3>1
  <2> HIDE DEF h, m
  <2>3. m[1] = h[1] /\ (h[1] \notin Poison => m[2] = h[2] + 1)
    BY DEF Counted, m
  <2>4. \A r \in Raws : r # m => reserved'[r] = reserved[r]
    <3>1. reserved' = [reserved EXCEPT ![m] = retryAfter]
      BY <1>4 DEF Reserve, Zadd, m, h
    <3> QED BY <3>1
  <2>5. \A v \in Workers : v # w => handle'[v] = handle[v]
    BY <1>1, <1>4 DEF TypeOK
  <2>6. handle'[w] = m
    BY <1>1, <1>4 DEF TypeOK, m, h
  <2>7. h \in Kept(h[1])
    BY <2>1 DEF Kept
  <2>8. Kept(b)' \subseteq Kept(b) \cup {m}
    <3> SUFFICES ASSUME NEW r \in Kept(b)', r # m PROVE r \in Kept(b)
      OBVIOUS
    <3>1. r \in Raws /\ r[1] = b
      BY DEF Kept
    <3>2. CASE \E i \in 1 .. Len(ready') : ready'[i] = r
      BY <2>2, <3>1, <3>2 DEF Kept
    <3>3. CASE reserved'[r] # Absent \/ delayed'[r] # Absent
      BY <1>2, <2>4, <3>1, <3>3 DEF Kept
    <3>4. CASE \E v \in Workers : handle'[v] = r
      BY <2>5, <2>6, <3>1, <3>4 DEF Kept
    <3> QED BY <3>2, <3>3, <3>4 DEF Kept
  <2>9. delivered' = Plus(delivered, h[1])
    BY <1>4 DEF h
  <2>10. CASE b # h[1]
    <3>1. delivered'[b] = delivered[b]
      BY <1>1, <2>9, <2>10, Types DEF Plus
    <3>2. Kept(b)' \subseteq Kept(b)
      BY <2>3, <2>8, <2>10 DEF Kept
    <3> QED BY <1>1, <1>2, <3>1, <3>2, StaysHonest
  <2>11. CASE b = h[1]
    <3>1. delivered'[b] = delivered[b] + 1 /\ delivered[b] \in Nat /\ returned[b] \in Nat
      BY <1>1, <2>1, <2>9, <2>11, Types, PlusType
    <3>2. Single(b)' <=> Single(b)
      BY <1>2 DEF Single
    <3>3. published'[b] # 0
      <4>1. SUFFICES ASSUME published[b] = 0 PROVE FALSE
        BY <1>2
      <4>2. Single(b)
        BY <1>1, <4>1 DEF Honest, Single
      <4> QED BY <2>7, <2>11, <4>1, <4>2, Alone
    <3>4. Single(b) => Kept(b)' \subseteq {m}
      <4> SUFFICES ASSUME Single(b), NEW r \in Kept(b)', r # m PROVE FALSE
        OBVIOUS
      <4>1. 1 \in At(ready, b)
        BY <2>1, <2>11 DEF At
      <4>2. At(ready, b) = {1} /\ In(reserved, b) = {} /\ In(delayed, b) = {} /\ Hands(b) = {}
        BY <4>1, Alone
      <4>3. r \in Raws /\ r[1] = b
        BY DEF Kept
      <4>4. \A i \in 1 .. Len(ready') : ready'[i] # r
        BY <2>2, <4>2, <4>3 DEF At
      <4>5. reserved'[r] = Absent /\ delayed'[r] = Absent
        BY <1>2, <2>4, <4>2, <4>3 DEF In
      <4>6. \A v \in Workers : handle'[v] # r
        BY <1>1, <2>5, <2>6, <4>2, <4>3, HeldIsBusy
      <4> QED BY <4>4, <4>5, <4>6 DEF Kept
    <3>5. ASSUME b \notin Poison, NEW r \in Kept(b)' PROVE Right(r[2], b)'
      <4>1. CASE r = m
        <5>1. Right(h[2], b)
          BY <1>1, <2>7, <2>11, <3>5 DEF Honest
        <5>2. r[2] = h[2] + 1
          BY <2>3, <2>11, <3>5, <4>1
        <5>3. h[2] <= delivered[b] /\ (Single(b) => h[2] = delivered[b] - returned[b])
          BY <5>1 DEF Right
        <5>4. h[2] + 1 <= delivered[b] + 1 /\ (Single(b) => h[2] + 1 = (delivered[b] + 1) - returned[b])
          BY <2>1, <3>1, <5>3
        <5> QED BY <1>2, <3>1, <3>2, <5>2, <5>4 DEF Right
      <4>2. CASE r # m
        <5>1. r \in Kept(b) /\ ~ Single(b)
          BY <2>8, <3>4, <3>5, <4>2
        <5>2. r[2] <= delivered[b] /\ r[2] \in Nat
          BY <1>1, <3>5, <5>1, RawsType DEF Honest, Right, Kept
        <5>3. r[2] <= delivered[b] + 1
          BY <3>1, <5>2
        <5> QED BY <3>1, <3>2, <5>1, <5>3 DEF Right
      <4> QED BY <4>1, <4>2
    <3> QED BY <3>3, <3>5 DEF Honest
  <2> QED BY <2>10, <2>11
<1> QED BY <1>3, <1>4 DEF Pop

(* A job handed back counts neither for its value nor for its deliveries.       *)
LEMMA ReleaseUnprocessedHonest ==
  ASSUME IInv, IInv', AllCaused, AllHonest, NEW w \in Workers, ReleaseUnprocessed(w)
  PROVE  AllHonest'
<1> SUFFICES ASSUME NEW b \in Bodies PROVE Honest(b)'
  BY DEF AllHonest
<1>1. /\ TypeOK /\ TypeOK' /\ Honest(b) /\ pc[w] = "busy" /\ job[w] \in Raws /\ job[w][1] = Body(w)
      /\ handle[w] = Counted(job[w]) /\ handle[w] \in Raws /\ handle[w][1] = Body(w) /\ Body(w) \in Bodies
  BY Busy DEF IInv, AllHonest, ReleaseUnprocessed, Body
<1>2. /\ Idle(w) /\ UNCHANGED <<ready, published, delivered, excuse>>
      /\ returned' = Plus(returned, Body(w)) /\ reserved' = Zrem(reserved, {handle[w]})
      /\ delayed' = Zadd(delayed, job[w], 0)
  BY DEF ReleaseUnprocessed, PutBack, Removal
<1>3. /\ \A r \in Raws : reserved'[r] # Absent => reserved[r] # Absent /\ r # handle[w]
      /\ \A r \in Raws : r # job[w] => delayed'[r] = delayed[r]
  BY <1>2 DEF Zrem, Zadd
<1>4. \A v \in Workers : \A r \in Raws : handle'[v] = r => handle[v] = r /\ v # w
  BY <1>1, <1>2, WorkerIdle, LaravelAssumption
<1>5. Kept(b)' \subseteq Kept(b) \cup {job[w]}
  BY <1>2, <1>3, <1>4 DEF Kept
<1>6. CASE b # Body(w)
  <2>1. returned'[b] = returned[b]
    BY <1>1, <1>2, <1>6, Types DEF Plus
  <2>2. Kept(b)' \subseteq Kept(b)
    BY <1>1, <1>5, <1>6 DEF Kept
  <2> QED BY <1>1, <1>2, <2>1, <2>2, StaysHonest
<1>7. CASE b = Body(w)
  <2>1. returned'[b] = returned[b] + 1 /\ returned[b] \in Nat /\ delivered[b] \in Nat
    BY <1>1, <1>2, <1>7, Types, PlusType
  <2>2. w \in Hands(b) /\ handle[w] \in Kept(b)
    BY <1>1, <1>7 DEF Hands, Kept
  <2>3. published'[b] # 0
    <3>1. SUFFICES ASSUME published[b] = 0 PROVE FALSE
      BY <1>2
    <3>2. Single(b)
      BY <1>1, <3>1 DEF Honest, Single
    <3> QED BY <2>2, <3>1, <3>2, Alone
  <2>4. Single(b) => Kept(b)' \subseteq {job[w]}
    <3> SUFFICES ASSUME Single(b), NEW r \in Kept(b)', r # job[w] PROVE FALSE
      OBVIOUS
    <3>1. At(ready, b) = {} /\ In(reserved, b) = {handle[w]} /\ In(delayed, b) = {} /\ Hands(b) = {w}
      BY <2>2, Alone
    <3>2. r \in Raws /\ r[1] = b
      BY DEF Kept
    <3>3. \A i \in 1 .. Len(ready') : ready'[i] # r
      BY <1>2, <3>1, <3>2 DEF At
    <3>4. reserved'[r] = Absent
      BY <1>3, <3>1, <3>2 DEF In
    <3>5. delayed'[r] = Absent
      BY <1>3, <3>1, <3>2 DEF In
    <3>6. \A v \in Workers : handle'[v] # r
      BY <1>1, <1>4, <3>1, <3>2, HeldIsBusy
    <3> QED BY <3>3, <3>4, <3>5, <3>6 DEF Kept
  <2>5. Single(b)' <=> Single(b)
    BY <1>2 DEF Single
  <2>6. ASSUME b \notin Poison, NEW r \in Kept(b)' PROVE Right(r[2], b)'
    <3>1. CASE r = job[w]
      <4>1. handle[w][2] = r[2] + 1 /\ r[2] \in Nat
        BY <1>1, <1>7, <2>6, <3>1, RawsType DEF Counted
      <4>2. r[2] + 1 <= delivered[b] /\ (Single(b) => r[2] + 1 = delivered[b] - returned[b])
        BY <1>1, <2>2, <2>6, <4>1 DEF Honest, Right
      <4>3. r[2] <= delivered[b] /\ (Single(b) => r[2] = delivered[b] - (returned[b] + 1))
        BY <2>1, <4>1, <4>2
      <4> QED BY <1>2, <2>1, <2>5, <4>3 DEF Right
    <3>2. CASE r # job[w]
      <4>1. r \in Kept(b) /\ ~ Single(b)
        BY <1>5, <2>4, <2>6, <3>2
      <4> QED BY <1>1, <1>2, <2>5, <2>6, <4>1 DEF Honest, Right
    <3> QED BY <3>1, <3>2
  <2> QED BY <2>3, <2>6 DEF Honest
<1> QED BY <1>6, <1>7

LEMMA InitHonest == Init => AllHonest
<1> SUFFICES ASSUME Init, NEW b \in Bodies PROVE Honest(b)
  BY DEF AllHonest
<1>1. delivered[b] = 0 /\ returned[b] = 0 /\ excuse[b] = 0
  BY DEF Init, Zero
<1>2. Kept(b) = {}
  BY LaravelAssumption DEF Init, Empty, Kept
<1> QED BY <1>1, <1>2 DEF Honest

LEMMA NextHonest ==
  ASSUME IInv, AllCaused, AllHonest, [Next]_vars
  PROVE  AllHonest'
<1>0. IInv'
  BY NextInv
<1>1. CASE \E b \in Bodies : Publish(b)
  BY <1>0, <1>1, PublishHonest
<1>2. CASE Tick
  BY <1>0, <1>2, TickHonest
<1>3. ASSUME NEW w \in Workers, Poll(w) \/ Settle(w) \/ ReleaseUnprocessed(w) \/ LetGo(w)
      PROVE  AllHonest'
  BY <1>0, <1>3, MigrationHonest, PopHonest, AckHonest, RetryHonest, ReleaseUnprocessedHonest,
     LetGoHonest DEF Poll, Settle
<1>4. CASE UNCHANGED vars
  BY <1>4 DEF AllHonest, Honest, Right, Single, Kept, vars, zsets, worker, history
<1> QED BY <1>1, <1>2, <1>3, <1>4 DEF Next

(* The attempts of a job never exceed its deliveries; while it was published    *)
(* once and nothing excuses a copy they are its deliveries less those handed    *)
(* back, whatever crashed (_POP counts, _RELEASE of redis_transport.py).        *)
THEOREM AttemptsAreHonest == Spec => []AttemptsHonest
<1>1. Init => AllHonest
  BY InitHonest
<1>2. (IInv /\ AllCaused) /\ AllHonest /\ [Next]_vars => AllHonest'
  BY NextHonest
<1>3. IInv /\ AllHonest => AttemptsHonest
  <2> SUFFICES ASSUME IInv, AllHonest, NEW b \in Bodies \ Poison,
                      NEW r \in {ready[i] : i \in InReady(b)} \cup In(reserved, b) \cup In(delayed, b)
               PROVE  IF published[b] = 1 /\ excuse[b] = 0
                      THEN r[2] = delivered[b] - returned[b] ELSE r[2] <= delivered[b]
    BY DEF AttemptsHonest
  <2>1. r \in Kept(b)
    <3>1. InReady(b) = At(ready, b) /\ \A i \in 1 .. Len(ready) : ready[i] \in Raws
      BY CopiesAre, Types DEF IInv
    <3> QED BY <3>1 DEF At, In, Kept
  <2>2. Right(r[2], b)
    BY <2>1 DEF AllHonest, Honest
  <2>3. published[b] = 1 /\ excuse[b] = 0 => Single(b)
    BY DEF Single
  <2> QED BY <2>2, <2>3 DEF Right
<1> QED BY <1>1, <1>2, <1>3, CopiesAreCaused, PTL DEF Spec

=============================================================================
