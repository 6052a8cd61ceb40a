--------------------------- MODULE RedriveProofs ---------------------------
(***************************************************************************)
(* Proofs about Redrive: every invariant of its run, for any messages,     *)
(* configurations and bounds.  CopiesInv says what the copies may look     *)
(* like, HandlesInv which delivery a remembered handle stands for, and     *)
(* StockInv balances the copies of a message against what the clients are  *)
(* about to write and to settle.  Each part has a lemma per action.        *)
(***************************************************************************)
EXTENDS Redrive, FiniteSetTheorems, TLAPS

-----------------------------------------------------------------------------
(* Bags and sequences                                                            *)

(* B is a bag of elements of S.                                                  *)
BagOf(B, S) == DOMAIN B \subseteq S /\ B \in [DOMAIN B -> Nat \ {0}]

LEMMA Adding ==
  ASSUME NEW S, NEW B, BagOf(B, S), NEW x \in S
  PROVE  /\ BagOf((B (+) SetToBag({x})), S)
         /\ DOMAIN (B (+) SetToBag({x})) = DOMAIN B \cup {x}
         /\ \A e \in DOMAIN B : e # x => (B (+) SetToBag({x}))[e] = B[e]
         /\ (B (+) SetToBag({x}))[x] = IF x \in DOMAIN B THEN B[x] + 1 ELSE 1
BY DEF BagOf, (+), SetToBag

LEMMA Removing ==
  ASSUME NEW S, NEW B, BagOf(B, S), NEW x \in DOMAIN B
  PROVE  /\ BagOf((B (-) SetToBag({x})), S)
         /\ B (-) SetToBag({x}) = IF B[x] = 1 THEN [e \in DOMAIN B \ {x} |-> B[e]]
                                             ELSE [B EXCEPT ![x] = B[x] - 1]
<1>1. CASE B[x] = 1
  BY <1>1 DEF BagOf, (-), SetToBag
<1>2. CASE B[x] # 1
  <2> DEFINE D == [e \in DOMAIN B |-> IF e = x THEN B[e] - 1 ELSE B[e]]
  <2>1. \A e \in DOMAIN B : B[e] \in Nat /\ B[e] > 0 /\ D[e] \in Nat /\ D[e] > 0
    BY <1>2 DEF BagOf
  <2>2. B (-) SetToBag({x}) = [e \in {d \in DOMAIN D : D[d] > 0} |-> D[e]]
    <3>1. D = [e \in DOMAIN B |-> IF e \in DOMAIN SetToBag({x}) THEN B[e] - SetToBag({x})[e] ELSE B[e]]
      BY DEF SetToBag
    <3> HIDE DEF D
    <3> QED BY <3>1 DEF (-)
  <2>3. B (-) SetToBag({x}) = D
    <3>1. {d \in DOMAIN D : D[d] > 0} = DOMAIN D
      BY <2>1
    <3> HIDE DEF D
    <3>2. [e \in DOMAIN D |-> D[e]] = D
      BY DEF D
    <3> QED BY <2>2, <3>1, <3>2
  <2>4. D = [B EXCEPT ![x] = B[x] - 1]
    BY DEF BagOf
  <2> QED BY <1>2, <2>1, <2>3, <2>4 DEF BagOf
<1> QED BY <1>1, <1>2

LEMMA Joining ==
  ASSUME NEW S, NEW A, NEW B, BagOf(A, S), BagOf(B, S)
  PROVE  /\ BagOf(A (+) B, S)
         /\ DOMAIN (A (+) B) = DOMAIN A \cup DOMAIN B
         /\ \A e \in DOMAIN A \cup DOMAIN B :
              (A (+) B)[e] = (IF e \in DOMAIN A THEN A[e] ELSE 0) + (IF e \in DOMAIN B THEN B[e] ELSE 0)
BY DEF BagOf, (+)

(* s without its i-th element.                                                   *)
LEMMA Leaving ==
  ASSUME NEW S, NEW s \in Seq(S), NEW i \in DOMAIN s
  PROVE  /\ RemoveAt(s, i) \in Seq(S)
         /\ Len(RemoveAt(s, i)) = Len(s) - 1
         /\ \A j \in 1 .. Len(s) - 1 : RemoveAt(s, i)[j] = IF j < i THEN s[j] ELSE s[j + 1]
<1> DEFINE before == SubSeq(s, 1, i - 1)
           after  == SubSeq(s, i + 1, Len(s))
<1>1. i \in 1 .. Len(s) /\ Len(s) \in Nat
  OBVIOUS
<1>2. before \in Seq(S) /\ Len(before) = i - 1 /\ \A j \in 1 .. i - 1 : before[j] = s[j]
  BY <1>1
<1>3. after \in Seq(S) /\ Len(after) = Len(s) - i /\ \A j \in 1 .. Len(s) - i : after[j] = s[i + j]
  BY <1>1
<1>4. RemoveAt(s, i) = before \o after
  BY DEF RemoveAt
<1> HIDE DEF before, after
<1>5. before \o after \in Seq(S) /\ Len(before \o after) = Len(s) - 1
  BY <1>1, <1>2, <1>3
<1>6. ASSUME NEW j \in 1 .. Len(s) - 1
      PROVE  (before \o after)[j] = IF j < i THEN s[j] ELSE s[j + 1]
  <2>1. CASE j < i
    BY <1>1, <1>2, <1>3, <2>1
  <2>2. CASE ~(j < i)
    <3>1. (before \o after)[j] = after[j - (i - 1)]
      <4>1. j \in 1 .. Len(before) + Len(after) /\ ~(j <= Len(before))
        BY <1>1, <1>2, <1>3, <2>2
      <4>2. before \in Seq(S) /\ after \in Seq(S)
        BY <1>2, <1>3
      <4>3. (before \o after)[j] = after[j - Len(before)]
        BY <4>1, <4>2
      <4> QED BY <1>2, <4>3
    <3>2. j - (i - 1) \in 1 .. Len(s) - i /\ i + (j - (i - 1)) = j + 1
      BY <1>1, <2>2
    <3> QED BY <1>3, <2>2, <3>1, <3>2
  <2> QED BY <2>1, <2>2
<1> QED BY <1>4, <1>5, <1>6

-----------------------------------------------------------------------------
(* What a copy may look like                                                     *)

Properties == [version : {"none", "text", "int", "bad"}, job : {"none", "own", "other"},
               attempts : Nat \cup {None}]
Routes == [gate : BOOLEAN, job : {"none", "own", "other"}]
Stocks == [msg : Messages, attempts : Nat, properties : Properties,
           count : Nat, recorded : Nat, received : Nat]

(* The destination of copy c of queue q is that of its message, or c lost the    *)
(* gate its body does not know of: in the DLQ, and once it was redriven.         *)
Routed(q, c) ==
  \/ Destination(c) = FirstDestination(c.msg)
  \/ /\ Kind # "pulsar" /\ Class(c.msg) = "gated"
     /\ q = "work" => c.msg \in redriven

(* A copy the gate rejects was never handled; nor was poison that has a DLQ.     *)
NeverHandled(c) == Gated(c) \/ (~Decodes(c.msg) /\ DlqOn)

(* What every copy of q has in common.                                           *)
Copied(q) ==
  {c \in Stocks : /\ Routed(q, c)
                  /\ NeverHandled(c) => c.recorded = 0
                  /\ c.properties.attempts \in {None, c.attempts}}

(* The failures of an SQS copy are in its receive count, those of the others in  *)
(* the body.  The counters of a copy that waits are covered by its deliveries;   *)
(* those of one a link holds leave room for the attempt under way.               *)
CountedInReceives(q) == Kind = "sqs" /\ q = "work"

Waiting(q) ==
  {c \in Copied(q) :
     /\ c.attempts <= c.received /\ c.count <= c.received
     /\ c.recorded <= IF CountedInReceives(q) THEN c.count ELSE c.attempts}

Out(q) ==
  {c \in Copied(q) :
     /\ c.attempts < c.received
     /\ IF CountedOnReceipt THEN 0 < c.count /\ c.count <= c.received ELSE c.count < c.received
     /\ IF CountedInReceives(q) THEN c.recorded < c.count ELSE c.recorded <= c.attempts}

PosHandles == Nat \ {0}
Deliveries(q) == [handle : PosHandles, copy : Out(q)]

(* What a client keeps of a delivery from q.                                     *)
Drawn(q) ==
  {d \in [handle : PosHandles, copy : Out(q), attempts : Nat, route : Routes] :
     d.attempts = Popped(d.copy).attempts /\ d.route = Popped(d.copy).route}

WorkerSteps == {"idle", "handle", "retry", "resend", "release", "dlq", "native", "final",
                "settle", "rewind", "abandon", "dead"}
OperatorSteps == {"off", "drain", "item", "restore", "republish", "ack"}

Resting == {"idle", "dead"}

(* Queues r and links u hold copies that are fit to wait or to be held.          *)
Fits(r, u) ==
  /\ r = [q \in Queues |-> r[q]] /\ u = [q \in Queues |-> u[q]]
  /\ \A q \in Queues : BagOf(r[q], Waiting(q)) /\ u[q] \in Seq(Deliveries(q))

RTypeOK ==
  /\ conf \in Config
  /\ Fits(ready, unsettled)
  /\ wpc \in WorkerSteps /\ opc \in OperatorSteps
  /\ raising \in BOOLEAN /\ redriven \subseteq Messages
  /\ ends \in [Messages -> Nat]
  /\ faults \in Nat

(* What the worker holds at each step.                                           *)
WorkerHolds ==
  /\ wpc \notin Resting => cur \in Drawn("work")
  /\ wpc \in Resting => cur = None
  /\ wpc \in {"handle", "retry", "resend", "release"} => ~NeverHandled(cur.copy)
  /\ wpc = "dlq" => DlqOn
  /\ wpc = "native" => NativeSettler
  /\ wpc = "rewind" => Kind = "pulsar"
  /\ wpc = "abandon" => Kind = "asb"

(* What the operator holds.                                                      *)
OperatorHolds ==
  /\ batch \in Seq(Drawn("dlq"))
  /\ opc \notin {"off", "drain"} => batch # <<>>
  /\ opc = "off" => batch = <<>>

CopiesInv == RTypeOK /\ WorkerHolds /\ OperatorHolds

(* Each delivery of a link has a handle of its own, and the one a client         *)
(* remembers is still that of its delivery, if the link holds it at all.         *)
UniqueHandles(s) == \A i, j \in DOMAIN s : s[i].handle = s[j].handle => i = j

HandlesUnique ==
  /\ \A q \in Queues : UniqueHandles(unsettled[q])
  /\ UniqueHandles(batch)

WorkerTied ==
  wpc \notin Resting =>
    \A i \in DOMAIN unsettled["work"] :
      unsettled["work"][i].handle = cur.handle => unsettled["work"][i].copy = cur.copy

BatchTied ==
  \A k \in DOMAIN batch : \A i \in DOMAIN unsettled["dlq"] :
    unsettled["dlq"][i].handle = batch[k].handle => unsettled["dlq"][i].copy = batch[k].copy

(* Only SQS and Service Bus take a delivery away from the worker.                *)
WorkerHeld == wpc \notin Resting /\ ~CountedOnReceipt => Holds("work", cur.handle)

(* Until a call fails, Artemis holds what its clients work on, in their order.   *)
InOrder ==
  Kind = "artemis" /\ faults = 0 =>
    /\ wpc # "dead" /\ ~raising
    /\ unsettled["work"] # <<>> <=> wpc \notin Resting
    /\ \A i \in DOMAIN unsettled["work"] : i = 1 /\ unsettled["work"][i].handle = cur.handle
    /\ Len(unsettled["dlq"]) = Len(batch)
    /\ \A i \in DOMAIN batch : unsettled["dlq"][i].handle = batch[i].handle

HandlesInv == HandlesUnique /\ WorkerTied /\ BatchTied /\ WorkerHeld /\ InOrder

-----------------------------------------------------------------------------
(* What the transports make of a copy                                            *)

(* The counts play no part in where a delivery goes.                             *)
LEMMA SameDestination ==
  ASSUME NEW c \in Stocks, NEW d \in Stocks, d.msg = c.msg, d.properties = c.properties,
         conf \in Config
  PROVE  /\ Gated(d) <=> Gated(c)
         /\ Popped(d).route = Popped(c).route
         /\ Destination(d) = Destination(c)
         /\ NeverHandled(d) <=> NeverHandled(c)
<1>1. Gated(d) <=> Gated(c)
  BY DEF Gated
<1>2. Decodes(d.msg) <=> Decodes(c.msg)
  OBVIOUS
<1>3. Popped(d).route = Popped(c).route
  <2>1. Kind \in Kinds
    BY DEF Config, Kind
  <2>2. CASE Kind = "pulsar"
    BY <1>1, <1>2, <2>2 DEF Popped, PulsarPop, Delivery
  <2>3. CASE Kind # "pulsar"
    BY <2>1, <2>3 DEF Popped, SqsPop, AsbPop, ArtemisPop, AmqpPop, Delivery, Kinds
  <2> QED BY <2>2, <2>3
<1> QED BY <1>1, <1>2, <1>3 DEF Destination, NeverHandled

LEMMA SameCopied ==
  ASSUME NEW q \in Queues, NEW c \in Copied(q), NEW d \in Stocks, d.msg = c.msg,
         d.properties = c.properties, d.attempts = c.attempts,
         d.recorded = c.recorded \/ ~NeverHandled(c),
         conf \in Config
  PROVE  d \in Copied(q)
<1>1. c \in Stocks
  BY DEF Copied
<1> QED BY <1>1, SameDestination DEF Copied, Routed

(* What a link receives is fit to be held.                                       *)
LEMMA ReceivedOut ==
  ASSUME NEW q \in Queues, NEW c \in Waiting(q), conf \in Config
  PROVE  Received(c) \in Out(q)
<1> DEFINE d == Received(c)
<1>1. c \in Copied(q) /\ c \in Stocks
  BY DEF Waiting, Copied
<1>2. /\ d \in Stocks /\ d.msg = c.msg /\ d.properties = c.properties /\ d.attempts = c.attempts
      /\ d.recorded = c.recorded /\ d.received = c.received + 1
      /\ d.count = IF CountedOnReceipt THEN c.count + 1 ELSE c.count
  <2> DEFINE n == IF CountedOnReceipt THEN c.count + 1 ELSE c.count
             e == [c EXCEPT !.count = n]
  <2>1. n \in Nat /\ c.received + 1 \in Nat
    BY <1>1 DEF Stocks
  <2>2. d = [e EXCEPT !.received = c.received + 1]
    BY DEF Received
  <2> HIDE DEF n
  <2>3. /\ e \in Stocks /\ e.msg = c.msg /\ e.properties = c.properties /\ e.attempts = c.attempts
        /\ e.recorded = c.recorded /\ e.count = n
    BY <1>1, <2>1 DEF Stocks
  <2> HIDE DEF d, e
  <2>4. /\ d \in Stocks /\ d.msg = e.msg /\ d.properties = e.properties /\ d.attempts = e.attempts
        /\ d.recorded = e.recorded /\ d.count = e.count /\ d.received = c.received + 1
    BY <2>1, <2>2, <2>3 DEF Stocks
  <2> QED BY <2>3, <2>4 DEF n
<1>3. d \in Copied(q)
  BY <1>1, <1>2, SameCopied
<1>4. CountedInReceives(q) => CountedOnReceipt
  BY DEF CountedInReceives, CountedOnReceipt
<1> HIDE DEF d
<1>5. /\ c.attempts \in Nat /\ c.count \in Nat /\ c.received \in Nat /\ c.recorded \in Nat
  BY <1>1 DEF Stocks
<1> QED BY <1>2, <1>3, <1>4, <1>5 DEF Waiting, Out, d

(* What comes back is fit to wait, counted or not; on SQS, also with one more    *)
(* failure recorded.                                                             *)
LEMMA ReturnedWaiting ==
  ASSUME NEW q \in Queues, NEW c \in Out(q), NEW counted \in BOOLEAN, conf \in Config
  PROVE  Returned(c, counted) \in Waiting(q) /\ c \in Waiting(q)
<1> DEFINE d == Returned(c, counted)
<1>1. c \in Copied(q) /\ c \in Stocks
  BY DEF Out, Copied
<1>5. /\ c.attempts \in Nat /\ c.count \in Nat /\ c.received \in Nat /\ c.recorded \in Nat
  BY <1>1 DEF Stocks
<1>6. c \in Waiting(q)
  BY <1>1, <1>5 DEF Out, Waiting
<1>2. CASE counted /\ Kind \in {"pulsar", "artemis"}
  <2>1. /\ d \in Stocks /\ d.msg = c.msg /\ d.properties = c.properties /\ d.attempts = c.attempts
        /\ d.recorded = c.recorded /\ d.received = c.received /\ d.count = c.count + 1
    BY <1>1, <1>2 DEF Returned, Stocks
  <2>2. d \in Copied(q)
    BY <1>1, <2>1, SameCopied
  <2>3. ~CountedOnReceipt /\ ~CountedInReceives(q)
    BY <1>2 DEF CountedOnReceipt, CountedInReceives
  <2> HIDE DEF d
  <2> QED BY <2>1, <2>2, <2>3, <1>5, <1>6 DEF Waiting, Out, d
<1>3. CASE ~(counted /\ Kind \in {"pulsar", "artemis"})
  BY <1>3, <1>6 DEF Returned
<1> QED BY <1>2, <1>3, <1>6

LEMMA RecordedWaiting ==
  ASSUME NEW c \in Out("work"), NEW r \in {0, 1}, Kind = "sqs", ~NeverHandled(c), conf \in Config
  PROVE  [c EXCEPT !.recorded = @ + r] \in Waiting("work")
<1> DEFINE d == [c EXCEPT !.recorded = @ + r]
<1>1. c \in Copied("work") /\ c \in Stocks
  BY DEF Out, Copied
<1>5. /\ c.attempts \in Nat /\ c.count \in Nat /\ c.received \in Nat /\ c.recorded \in Nat
  BY <1>1 DEF Stocks
<1>2. /\ d \in Stocks /\ d.msg = c.msg /\ d.properties = c.properties /\ d.attempts = c.attempts
      /\ d.recorded = c.recorded + r /\ d.received = c.received /\ d.count = c.count
  BY <1>1, <1>5 DEF Stocks
<1>3. d \in Copied("work")
  BY <1>1, <1>2, SameCopied DEF Queues
<1>4. CountedInReceives("work") /\ CountedOnReceipt
  BY DEF CountedInReceives, CountedOnReceipt
<1> HIDE DEF d
<1>6. c.recorded < c.count /\ c.count <= c.received /\ c.attempts < c.received
  BY <1>4 DEF Out
<1>7. d \in Waiting("work")
  BY <1>2, <1>3, <1>4, <1>5, <1>6 DEF Waiting
<1> QED BY <1>7 DEF d

(* The counter of a delivery lies between the failures recorded and the          *)
(* deliveries made (_reconcile of the transports).                               *)
LEMMA CountsOfOut ==
  ASSUME NEW q \in Queues, NEW c \in Out(q), conf \in Config
  PROVE  /\ Popped(c).attempts \in Nat
         /\ c.recorded <= Popped(c).attempts
         /\ Popped(c).attempts < c.received
<1>1. c \in Copied(q) /\ c \in Stocks
  BY DEF Out, Copied
<1>2. /\ c.attempts \in Nat /\ c.count \in Nat /\ c.received \in Nat /\ c.recorded \in Nat
      /\ c.properties.attempts \in {None, c.attempts}
      /\ c.attempts < c.received
      /\ NeverHandled(c) => c.recorded = 0
  BY <1>1 DEF Stocks, Copied, Out
<1>3. Kind \in Kinds
  BY DEF Config, Kind
<1>4. CASE Kind = "sqs"
  <2>1. 0 < c.count /\ c.count <= c.received
    BY <1>4 DEF Out, CountedOnReceipt
  <2>2. CountedInReceives(q) \/ c.recorded <= c.attempts
    BY DEF Out
  <2>3. CountedInReceives(q) => c.recorded < c.count
    BY DEF Out
  <2>4. Popped(c).attempts = IF Gated(c) THEN c.attempts
                             ELSE IF Decodes(c.msg) THEN SqsAttempts(c)
                             ELSE Larger(SqsNativeAttempts(c), c.attempts)
    BY <1>4 DEF Popped, SqsPop, Delivery
  <2>5. CASE Gated(c)
    BY <1>2, <2>4, <2>5 DEF NeverHandled
  <2>6. CASE ~Gated(c)
    BY <1>2, <2>1, <2>2, <2>3, <2>4, <2>6 DEF SqsAttempts, SqsNativeAttempts, Larger
  <2> QED BY <2>5, <2>6
<1>5. CASE Kind # "sqs"
  <2>1. c.recorded <= c.attempts
    BY <1>5 DEF Out, CountedInReceives
  <2>2. CASE Kind = "asb"
    <3>1. 0 < c.count /\ c.count <= c.received
      BY <2>2 DEF Out, CountedOnReceipt
    <3> QED BY <1>2, <2>1, <2>2, <3>1 DEF Popped, AsbPop, Delivery, AsbAttempts, Larger
  <2>3. CASE Kind = "amqp"
    BY <1>2, <2>1, <2>3 DEF Popped, AmqpPop, Delivery
  <2>4. CASE Kind = "artemis"
    <3>1. c.count < c.received
      BY <2>4 DEF Out, CountedOnReceipt
    <3> QED BY <1>2, <2>1, <2>4, <3>1 DEF Popped, ArtemisPop, Delivery, ArtemisAttempts, Larger
  <2>5. CASE Kind = "pulsar"
    <3>1. c.count < c.received
      BY <2>5 DEF Out, CountedOnReceipt
    <3> QED BY <1>2, <2>1, <2>5, <3>1
            DEF Popped, PulsarPop, Delivery, PulsarAttempts, PulsarNativeAttempts, Larger
  <2> QED BY <1>3, <1>5, <2>2, <2>3, <2>4, <2>5 DEF Kinds
<1> QED BY <1>4, <1>5

LEMMA ProjectionType ==
  ASSUME NEW m \in Messages, NEW n \in Nat, NEW route \in Routes, conf \in Config
  PROVE  /\ Projection(m, n, route) \in Properties
         /\ Projection(m, n, route).attempts \in {None, n}
<1>1. Kind \in Kinds /\ Class(m) \in Classes
  BY DEF Config, Kind, Class
<1>2. route.job \in {"none", "own", "other"} /\ route.gate \in BOOLEAN
  BY DEF Routes
<1>3. CASE Kind = "sqs"
  BY <1>3 DEF Projection, SqsProjection, NoProperties, BodyVersion, Properties
<1>4. CASE Kind = "asb"
  BY <1>4 DEF Projection, AsbProjection, NoProperties, BodyVersion, Properties
<1>5. CASE Kind = "artemis"
  BY <1>5 DEF Projection, ArtemisProjection, NoProperties, BodyVersion, Properties
<1>6. CASE Kind = "amqp"
  BY <1>6 DEF Projection, AmqpProjection, NoProperties, BodyVersion, Properties
<1>7. CASE Kind = "pulsar"
  <2> DEFINE plain == AmqpProjection(m, n)
  <2>1. plain \in Properties /\ plain.attempts = n
    BY DEF AmqpProjection, NoProperties, BodyVersion, Properties
  <2>2. \E job \in {"none", "own", "other"} :
          Projection(m, n, route) \in {[plain EXCEPT !.version = "bad", !.job = job],
                                       [plain EXCEPT !.job = job]}
    <3>1. plain.job \in {"none", "own", "other"}
      BY <2>1 DEF Properties
    <3> QED BY <1>2, <1>7, <3>1 DEF Projection, PulsarProjection
  <2> HIDE DEF plain
  <2> QED BY <2>1, <2>2 DEF Properties
<1> QED BY <1>1, <1>3, <1>4, <1>5, <1>6, <1>7 DEF Kinds

LEMMA RouteType ==
  ASSUME NEW c \in Stocks, conf \in Config
  PROVE  /\ Popped(c).route \in Routes
         /\ Kind # "pulsar" => Popped(c).route = NoRoute
<1>1. Kind \in Kinds /\ c.properties.job \in {"none", "own", "other"}
  BY DEF Config, Kind, Stocks, Properties
<1>2. CASE Kind = "pulsar"
  BY <1>1, <1>2 DEF Popped, PulsarPop, Delivery, NoRoute, Routes
<1>3. CASE Kind # "pulsar"
  BY <1>1, <1>3 DEF Popped, SqsPop, AsbPop, ArtemisPop, AmqpPop, Delivery, Kinds, NoRoute, Routes
<1> QED BY <1>2, <1>3

(* Off Pulsar only the gate and the body decide; the gate sees the body's own    *)
(* version again once a copy is projected from it.                               *)
LEMMA ReprojectedElsewhere ==
  ASSUME NEW c \in Stocks, NEW route \in Routes, NEW n \in Nat,
         c.properties = Projection(c.msg, n, route), conf \in Config, Kind # "pulsar"
  PROVE  /\ Gated(c) <=> Class(c.msg) = "newer" /\ Kind # "amqp"
         /\ Destination(c) = FirstDestination(c.msg) \/ Class(c.msg) = "gated"
         /\ Kind = "amqp" => Destination(c) = FirstDestination(c.msg)
<1>1. Kind \in Kinds /\ c.msg \in Messages /\ Class(c.msg) \in Classes
  BY DEF Config, Kind, Class, Stocks
<1>2. Gated(c) <=> Class(c.msg) = "newer" /\ Kind # "amqp"
  <2>1. CASE Kind = "sqs"
    BY <2>1 DEF Gated, Projection, SqsProjection, NoProperties, BodyVersion, SqsAccepts, Decodes
  <2>2. CASE Kind = "asb"
    BY <2>2 DEF Gated, Projection, AsbProjection, NoProperties, BodyVersion, AsbAccepts, Decodes
  <2>3. CASE Kind = "artemis"
    BY <2>3 DEF Gated, Projection, ArtemisProjection, NoProperties, BodyVersion, ArtemisAccepts, Decodes
  <2>4. CASE Kind = "amqp"
    BY <2>4 DEF Gated
  <2> QED BY <1>1, <2>1, <2>2, <2>3, <2>4 DEF Kinds
<1>3. Popped(c).route.job = "none"
  BY RouteType DEF NoRoute
<1>4. Destination(c) = IF Gated(c) THEN "gate" ELSE IF ~Decodes(c.msg) THEN "poison" ELSE "own"
  BY <1>3 DEF Destination
<1> QED BY <1>1, <1>2, <1>4 DEF FirstDestination, Decodes, Classes

(* On Pulsar the route a copy leaves with brings it where it came from.          *)
LEMMA ReprojectedPulsar ==
  ASSUME NEW c \in Stocks, Destination(c) = FirstDestination(c.msg), NEW d \in Stocks, NEW n \in Nat,
         d.msg = c.msg, d.properties = Projection(c.msg, n, Popped(c).route),
         conf \in Config, Kind = "pulsar"
  PROVE  /\ Gated(d) <=> Gated(c)
         /\ Destination(d) = Destination(c)
<1> DEFINE job == c.properties.job
           route == Popped(c).route
           version == d.properties.version
           plain == AmqpProjection(c.msg, n)
<1>1. c.msg \in Messages /\ Class(c.msg) \in Classes /\ job \in {"none", "own", "other"}
  BY DEF Config, Class, Stocks, Properties
<1>2. ~Gated(c) <=> c.properties.version \in PulsarAccepts
  BY DEF Gated
<1>3. ~Gated(d) <=> version \in PulsarAccepts
  BY DEF Gated
<1>4. route = IF Gated(c) THEN [gate |-> TRUE, job |-> job]
              ELSE IF Decodes(c.msg) THEN [gate |-> FALSE, job |-> job] ELSE NoRoute
  BY DEF Popped, PulsarPop, Delivery
<1>5. d.properties = IF route.gate THEN [plain EXCEPT !.version = "bad",
                                                      !.job = IF route.job # "none" THEN route.job ELSE plain.job]
                     ELSE [plain EXCEPT !.job = IF route.job # "none" THEN route.job ELSE plain.job]
  BY DEF Projection, PulsarProjection
<1>6. plain = IF Decodes(c.msg) THEN [version |-> BodyVersion(c.msg, "text"), job |-> "own", attempts |-> n]
              ELSE [version |-> "none", job |-> "none", attempts |-> n]
  BY DEF AmqpProjection, NoProperties
<1>7. Destination(c) = IF Gated(c) THEN "gate" ELSE IF ~Decodes(c.msg) THEN "poison"
                       ELSE IF job = "other" THEN "other" ELSE "own"
  BY <1>4 DEF Destination
<1>8. Popped(d).route = IF Gated(d) THEN [gate |-> TRUE, job |-> d.properties.job]
                        ELSE IF Decodes(d.msg) THEN [gate |-> FALSE, job |-> d.properties.job] ELSE NoRoute
  BY DEF Popped, PulsarPop, Delivery
<1>9. Destination(d) = IF Gated(d) THEN "gate" ELSE IF ~Decodes(c.msg) THEN "poison"
                       ELSE IF d.properties.job = "other" THEN "other" ELSE "own"
  BY <1>8 DEF Destination
<1> HIDE DEF job, route, version, plain
<1>10. CASE Gated(c)
  <2>1. version = "bad"
    BY <1>4, <1>5, <1>6, <1>10 DEF version
  <2> QED BY <1>3, <1>7, <1>9, <1>10, <2>1 DEF PulsarAccepts
<1>11. CASE ~Gated(c) /\ ~Decodes(c.msg)
  <2>1. version = "none"
    BY <1>4, <1>5, <1>6, <1>11 DEF version, NoRoute
  <2> QED BY <1>3, <1>7, <1>9, <1>11, <2>1 DEF PulsarAccepts
<1>12. CASE ~Gated(c) /\ Decodes(c.msg)
  <2>1. Class(c.msg) # "newer"
    BY <1>7, <1>12 DEF FirstDestination
  <2>2. version = "text" /\ d.properties.job = IF job # "none" THEN job ELSE "own"
    BY <1>4, <1>5, <1>6, <1>12, <2>1 DEF version, BodyVersion
  <2> QED BY <1>3, <1>7, <1>9, <1>12, <2>2 DEF PulsarAccepts
<1> QED BY <1>10, <1>11, <1>12

(* A delivery of c written again, with n attempts (publish_keeping_route).       *)
Rewrite(c, n, recorded, received) ==
  Copy(c.msg, n, Projection(c.msg, n, Popped(c).route), recorded, received)

LEMMA Rewritten ==
  ASSUME NEW q \in Queues, NEW c \in Copied(q), NEW n \in Nat, NEW r \in Nat, NEW v \in Nat,
         conf \in Config
  PROVE  /\ Rewrite(c, n, r, v) \in Stocks
         /\ Rewrite(c, n, r, v).msg = c.msg /\ Rewrite(c, n, r, v).attempts = n
         /\ Rewrite(c, n, r, v).count = 0
         /\ Rewrite(c, n, r, v).recorded = r /\ Rewrite(c, n, r, v).received = v
         /\ Rewrite(c, n, r, v).properties.attempts \in {None, n}
         /\ Gated(Rewrite(c, n, r, v)) => Gated(c)
         /\ Routed("dlq", Rewrite(c, n, r, v))
         /\ q = "work" /\ ~Gated(c) => Routed("work", Rewrite(c, n, r, v))
<1> DEFINE d == Rewrite(c, n, r, v)
           route == Popped(c).route
<1>1. c \in Stocks /\ c.msg \in Messages /\ Routed(q, c)
  BY DEF Copied, Stocks
<1>2. route \in Routes
  BY <1>1, RouteType
<1>3. /\ Projection(c.msg, n, route) \in Properties
      /\ Projection(c.msg, n, route).attempts \in {None, n}
  BY <1>1, <1>2, ProjectionType
<1>4. /\ d.msg = c.msg /\ d.attempts = n /\ d.count = 0 /\ d.recorded = r /\ d.received = v
      /\ d.properties = Projection(c.msg, n, route)
      /\ d \in Stocks
  BY <1>1, <1>3 DEF Rewrite, Copy, Stocks
<1> HIDE DEF d, route
<1>5. CASE Kind = "pulsar"
  <2>1. Destination(c) = FirstDestination(c.msg)
    BY <1>1, <1>5 DEF Routed
  <2>2. (Gated(d) <=> Gated(c)) /\ Destination(d) = Destination(c)
    BY <1>1, <1>4, <1>5, <2>1, ReprojectedPulsar DEF route
  <2> QED BY <1>3, <1>4, <2>1, <2>2 DEF Routed, d
<1>6. CASE Kind # "pulsar"
  <2>1. /\ Gated(d) <=> Class(d.msg) = "newer" /\ Kind # "amqp"
        /\ Destination(d) = FirstDestination(d.msg) \/ Class(d.msg) = "gated"
        /\ Kind = "amqp" => Destination(d) = FirstDestination(d.msg)
    BY <1>2, <1>4, <1>6, ReprojectedElsewhere
  <2>2. Gated(c) <=> Destination(c) = "gate"
    BY DEF Destination
  <2>3. Gated(d) => Gated(c)
    BY <1>1, <1>4, <2>1, <2>2 DEF Routed, FirstDestination
  <2>4. Routed("dlq", d)
    BY <1>6, <2>1 DEF Routed
  <2>5. ASSUME q = "work", ~Gated(c) PROVE Routed("work", d)
    <3>1. CASE Destination(d) = FirstDestination(d.msg)
      BY <3>1 DEF Routed
    <3>2. CASE Class(d.msg) = "gated" /\ Kind # "amqp"
      <4>1. FirstDestination(c.msg) = "gate"
        BY <1>4, <3>2 DEF FirstDestination
      <4>2. c.msg \in redriven
        BY <1>1, <2>2, <2>5, <4>1 DEF Routed
      <4> QED BY <1>4, <1>6, <3>2, <4>2 DEF Routed
    <3> QED BY <2>1, <3>1, <3>2
  <2> QED BY <1>3, <1>4, <2>3, <2>4, <2>5 DEF d
<1> QED BY <1>5, <1>6

(* What _dead_letter() writes: the failed message counted up, a rejected one     *)
(* with the counter its body keeps.                                              *)
LEMMA BuriedWaiting ==
  ASSUME NEW c \in Out("work"), DlqOn, conf \in Config, NEW n,
         n = CASE Destination(c) = "gate"   -> Popped(c).attempts
               [] Destination(c) = "poison" -> 0
               [] OTHER                     -> Popped(c).attempts + 1
  PROVE  Rewrite(c, n, c.recorded, c.received) \in Waiting("dlq")
<1> DEFINE d == Rewrite(c, n, c.recorded, c.received)
           a == Popped(c).attempts
<1>1. c \in Copied("work") /\ c \in Stocks /\ "work" \in Queues
  BY DEF Out, Copied, Queues
<1>2. c.recorded \in Nat /\ c.received \in Nat
  BY <1>1 DEF Stocks
<1>3. a \in Nat /\ c.recorded <= a /\ a < c.received
  BY <1>1, CountsOfOut
<1>4. NeverHandled(c) => c.recorded = 0
  BY <1>1 DEF Copied
<1> HIDE DEF a
<1>5. n \in Nat /\ n <= c.received
  BY <1>2, <1>3 DEF a
<1>6. c.recorded <= n
  BY <1>2, <1>3, <1>4 DEF a, Destination, NeverHandled
<1>7. /\ d \in Stocks /\ d.msg = c.msg /\ d.attempts = n /\ d.count = 0
      /\ d.recorded = c.recorded /\ d.received = c.received
      /\ d.properties.attempts \in {None, n}
      /\ Gated(d) => Gated(c)
      /\ Routed("dlq", d)
  BY <1>1, <1>2, <1>5, Rewritten
<1> HIDE DEF d
<1>8. d \in Copied("dlq")
  BY <1>4, <1>7 DEF Copied, NeverHandled
<1>9. ~CountedInReceives("dlq")
  BY DEF CountedInReceives
<1>10. d \in Waiting("dlq")
  BY <1>2, <1>5, <1>6, <1>7, <1>8, <1>9 DEF Waiting
<1> QED BY <1>10 DEF d

(* What _release() writes, with the attempt counted or not.                      *)
LEMMA ResentWaiting ==
  ASSUME NEW c \in Out("work"), NEW r \in {0, 1}, ~NeverHandled(c), Kind # "sqs", conf \in Config
  PROVE  Rewrite(c, Popped(c).attempts + r, c.recorded + r, c.received) \in Waiting("work")
<1> DEFINE a == Popped(c).attempts
           d == Rewrite(c, a + r, c.recorded + r, c.received)
<1>1. c \in Copied("work") /\ c \in Stocks /\ "work" \in Queues
  BY DEF Out, Copied, Queues
<1>2. c.recorded \in Nat /\ c.received \in Nat
  BY <1>1 DEF Stocks
<1>3. a \in Nat /\ c.recorded <= a /\ a < c.received
  BY <1>1, CountsOfOut
<1> HIDE DEF a
<1>4. a + r \in Nat /\ c.recorded + r \in Nat /\ a + r <= c.received /\ c.recorded + r <= a + r
  BY <1>2, <1>3
<1>5. /\ d \in Stocks /\ d.msg = c.msg /\ d.attempts = a + r /\ d.count = 0
      /\ d.recorded = c.recorded + r /\ d.received = c.received
      /\ d.properties.attempts \in {None, a + r}
      /\ Gated(d) => Gated(c)
      /\ ~Gated(c) => Routed("work", d)
  BY <1>1, <1>2, <1>4, Rewritten
<1> HIDE DEF d
<1>6. d \in Copied("work")
  BY <1>5 DEF Copied, NeverHandled
<1>7. ~CountedInReceives("work")
  BY DEF CountedInReceives
<1>8. d \in Waiting("work")
  BY <1>2, <1>4, <1>5, <1>6, <1>7 DEF Waiting
<1> QED BY <1>8 DEF d, a

(* What redrive() restores.                                                      *)
LEMMA RestoredWaiting ==
  ASSUME NEW c \in Out("dlq"), conf \in Config
  PROVE  Rewrite(c, Popped(c).attempts, c.recorded, c.received) \in Waiting("dlq")
<1> DEFINE a == Popped(c).attempts
           d == Rewrite(c, a, c.recorded, c.received)
<1>1. c \in Copied("dlq") /\ c \in Stocks /\ "dlq" \in Queues
  BY DEF Out, Copied, Queues
<1>2. c.recorded \in Nat /\ c.received \in Nat
  BY <1>1 DEF Stocks
<1>3. a \in Nat /\ c.recorded <= a /\ a < c.received
  BY <1>1, CountsOfOut
<1>4. NeverHandled(c) => c.recorded = 0
  BY <1>1 DEF Copied
<1> HIDE DEF a
<1>5. /\ d \in Stocks /\ d.msg = c.msg /\ d.attempts = a /\ d.count = 0
      /\ d.recorded = c.recorded /\ d.received = c.received
      /\ d.properties.attempts \in {None, a}
      /\ Gated(d) => Gated(c)
      /\ Routed("dlq", d)
  BY <1>1, <1>2, <1>3, Rewritten
<1> HIDE DEF d
<1>6. d \in Copied("dlq")
  BY <1>4, <1>5 DEF Copied, NeverHandled
<1>7. ~CountedInReceives("dlq")
  BY DEF CountedInReceives
<1>8. d \in Waiting("dlq")
  BY <1>2, <1>3, <1>5, <1>6, <1>7 DEF Waiting
<1> QED BY <1>8 DEF d, a

(* Redriving more messages asks less of a copy.                                  *)
LEMMA StillFit ==
  ASSUME conf' = conf, redriven \subseteq redriven', NEW q \in Queues
  PROVE  /\ Waiting(q) \subseteq Waiting(q)' /\ Out(q) \subseteq Out(q)'
         /\ Deliveries(q) \subseteq Deliveries(q)'
         /\ Drawn(q) \subseteq Drawn(q)'
         /\ \A c : Routed(q, c) => Routed(q, c)'
         /\ \A c : NeverHandled(c)' <=> NeverHandled(c)
<1>1. \A c : (Gated(c)' <=> Gated(c)) /\ Popped(c)' = Popped(c)
  BY DEF Gated, Popped, SqsPop, AsbPop, ArtemisPop, AmqpPop, PulsarPop, Delivery, Kind, Class,
         Decodes, SqsAttempts, AsbAttempts, ArtemisAttempts, PulsarAttempts, SqsNativeAttempts,
         PulsarNativeAttempts, BareCounter
<1>2. \A c : (NeverHandled(c)' <=> NeverHandled(c)) /\ Destination(c)' = Destination(c)
  BY <1>1 DEF NeverHandled, Destination, Decodes, Class, DlqOn
<1>3. \A c : FirstDestination(c.msg)' = FirstDestination(c.msg)
  BY DEF FirstDestination, Class, Kind
<1>4. \A c : Routed(q, c) => Routed(q, c)'
  BY <1>2, <1>3 DEF Routed, Kind, Class
<1>5. Copied(q) \subseteq Copied(q)'
  BY <1>2, <1>4 DEF Copied
<1>6. Waiting(q) \subseteq Waiting(q)'
  BY <1>5 DEF Waiting, CountedInReceives, Kind
<1>7. Out(q) \subseteq Out(q)'
  BY <1>5 DEF Out, CountedInReceives, CountedOnReceipt, Kind
<1>8. Deliveries(q) \subseteq Deliveries(q)'
  BY <1>7 DEF Deliveries
<1>9. Drawn(q) \subseteq Drawn(q)'
  BY <1>1, <1>7 DEF Drawn
<1> QED BY <1>2, <1>4, <1>6, <1>7, <1>8, <1>9

(* What redrive() sends back.                                                    *)
LEMMA RedrivenWaiting ==
  ASSUME NEW c \in Out("dlq"), conf \in Config, conf' = conf, redriven' = redriven \cup {c.msg}
  PROVE  Rewrite(c, 0, 0, 0) \in Waiting("work")'
<1> SUFFICES ASSUME NEW d, d = Rewrite(c, 0, 0, 0)
             PROVE  d \in Waiting("work")'
  OBVIOUS
<1>1. c \in Copied("dlq") /\ c \in Stocks /\ "dlq" \in Queues
  BY DEF Out, Copied, Queues
<1>2. /\ d \in Stocks /\ d.msg = c.msg /\ d.attempts = 0 /\ d.count = 0
      /\ d.recorded = 0 /\ d.received = 0
      /\ d.properties.attempts \in {None, 0}
      /\ Routed("dlq", d)
  BY <1>1, Rewritten
<1>3. Routed("dlq", d)'
  BY <1>1, <1>2, StillFit
<1>4. Routed("work", d)'
  BY <1>2, <1>3 DEF Routed
<1> QED BY <1>2, <1>4 DEF Waiting, Copied

-----------------------------------------------------------------------------
(* Handles                                                                       *)

LEMMA LeastNumber ==
  ASSUME NEW S \in SUBSET Nat, S # {}
  PROVE  Min(S) \in S
<1> DEFINE R == OpToRel(<, Nat)
<1>1. IsWellFoundedOn(R, Nat)
  BY NatLessThanWellFounded, Zenon
<1>2. \A x, y \in Nat : x < y => <<x, y>> \in R
  BY DEF OpToRel
<1> HIDE DEF R
<1>3. PICK x \in S : \A y \in S : <<y, x>> \notin R
  BY <1>1, WFMin
<1>4. ASSUME NEW y \in S PROVE x <= y
  <2>1. x \in Nat /\ y \in Nat
    OBVIOUS
  <2>2. ~(y < x)
    BY <1>2, <1>3, <2>1
  <2> QED BY <2>1, <2>2
<1> QED BY <1>3, <1>4 DEF Min

(* A new handle names no delivery that a client still remembers.                 *)
LEMMA FreshHandle ==
  ASSUME NEW q \in Queues, NEW inUse, IsFiniteSet(inUse), NEW n \in Nat, DOMAIN unsettled[q] = 1 .. n
  PROVE  /\ NewHandle(q, inUse) \in PosHandles
         /\ NewHandle(q, inUse) \notin inUse
         /\ \A i \in DOMAIN unsettled[q] : unsettled[q][i].handle # NewHandle(q, inUse)
<1> DEFINE held == {unsettled[q][i].handle : i \in 1 .. n}
           used == inUse \cup held
           size == Cardinality(used)
           free == (1 .. size + 1) \ used
<1>1. IsFiniteSet(held)
  <2>1. IsFiniteSet(1 .. n)
    BY FS_Interval
  <2> DEFINE f == [i \in 1 .. n |-> unsettled[q][i].handle]
  <2>2. f \in Surjection(1 .. n, held)
    BY DEF Surjection
  <2> QED BY <2>1, <2>2, FS_Surjection
<1>2. IsFiniteSet(used) /\ size \in Nat
  BY <1>1, FS_Union, FS_CardinalityType
<1> HIDE DEF held
<1>3. NewHandle(q, inUse) = Min(free)
  BY DEF NewHandle, held
<1> HIDE DEF size
<1>4. free # {}
  <2> SUFFICES ASSUME free = {} PROVE FALSE
    OBVIOUS
  <2>1. 1 .. size + 1 \subseteq used
    OBVIOUS
  <2>2. Cardinality(1 .. size + 1) = size + 1
    BY <1>2, FS_Interval
  <2>3. Cardinality(1 .. size + 1) <= size
    BY <1>2, <2>1, FS_Subset DEF size
  <2> QED BY <1>2, <2>2, <2>3
<1>5. free \in SUBSET Nat
  BY <1>2
<1>6. Min(free) \in free
  BY <1>4, <1>5, LeastNumber
<1> HIDE DEF free
<1>7. \A x \in free : x \in PosHandles /\ x \notin inUse /\ x \notin held
  BY <1>2 DEF free, PosHandles
<1> QED BY <1>3, <1>6, <1>7 DEF held

-----------------------------------------------------------------------------
(* The broker's operations keep the copies fit                                   *)

LEMMA PositionOf ==
  ASSUME NEW q \in Queues, NEW h, Holds(q, h)
  PROVE  /\ Position(q, h) \in DOMAIN unsettled[q]
         /\ unsettled[q][Position(q, h)].handle = h
BY DEF Holds, Position

LEMMA HeldCopy ==
  ASSUME NEW q \in Queues, Fits(ready, unsettled), NEW i \in DOMAIN unsettled[q]
  PROVE  unsettled[q][i].copy \in Out(q) /\ unsettled[q][i].handle \in PosHandles
<1>1. unsettled[q] \in Seq(Deliveries(q))
  BY DEF Fits
<1>2. unsettled[q][i] \in Deliveries(q)
  BY <1>1
<1> QED BY <1>2 DEF Deliveries

LEMMA FitsReceive ==
  ASSUME Fits(ready, unsettled), conf \in Config, NEW q \in Queues, NEW c, NEW h \in PosHandles,
         Receive(q, c, h)
  PROVE  /\ Fits(ready', unsettled')
         /\ c \in DOMAIN ready[q] /\ c \in Waiting(q) /\ Received(c) \in Out(q)
<1>1. c \in DOMAIN ready[q] /\ c \in Waiting(q) /\ BagOf(ready[q], Waiting(q))
  BY DEF Receive, Fits, BagIn, BagToSet, BagOf
<1>2. Received(c) \in Out(q)
  BY <1>1, ReceivedOut
<1>3. BagOf(ready[q] (-) SetToBag({c}), Waiting(q))
  BY <1>1, Removing
<1>4. Append(unsettled[q], [handle |-> h, copy |-> Received(c)]) \in Seq(Deliveries(q))
  BY <1>2 DEF Fits, Deliveries
<1>5. /\ ready' = [ready EXCEPT ![q] = ready[q] (-) SetToBag({c})]
      /\ unsettled' = [unsettled EXCEPT ![q] = Append(unsettled[q], [handle |-> h, copy |-> Received(c)])]
  BY DEF Receive
<1>6. Fits(ready', unsettled')
  BY <1>3, <1>4, <1>5 DEF Fits
<1> QED BY <1>1, <1>2, <1>6

LEMMA FitsSend ==
  ASSUME Fits(ready, unsettled), NEW q \in Queues, NEW d \in Waiting(q),
         ready' = [ready EXCEPT ![q] = @ (+) SetToBag({d})], unsettled' = unsettled
  PROVE  Fits(ready', unsettled')
<1>1. BagOf(ready[q] (+) SetToBag({d}), Waiting(q))
  BY Adding DEF Fits
<1> QED BY <1>1 DEF Fits

LEMMA FitsGiveBack ==
  ASSUME Fits(ready, unsettled), NEW q \in Queues, NEW h, Holds(q, h), NEW d \in Waiting(q),
         GiveBack(q, h, d)
  PROVE  Fits(ready', unsettled')
<1>1. BagOf(ready[q] (+) SetToBag({d}), Waiting(q))
  BY Adding DEF Fits
<1>2. RemoveAt(unsettled[q], Position(q, h)) \in Seq(Deliveries(q))
  BY PositionOf, Leaving DEF Fits
<1> QED BY <1>1, <1>2 DEF Fits, GiveBack, SettledByHandle

LEMMA FitsAck ==
  ASSUME Fits(ready, unsettled), NEW q \in Queues, NEW h, Ack(q, h), ready' = ready
  PROVE  Fits(ready', unsettled')
<1>1. unsettled[q] \in Seq(Deliveries(q))
  BY DEF Fits
<1>2. Acked(q, h) \in Seq(Deliveries(q))
  <2>1. CASE Kind = "artemis"
    BY <1>1, <2>1 DEF Acked, SettledByReceiver
  <2>2. CASE Kind # "artemis" /\ Holds(q, h)
    BY <1>1, <2>2, PositionOf, Leaving DEF Acked, SettledByHandle
  <2>3. CASE Kind # "artemis" /\ ~Holds(q, h)
    BY <1>1, <2>3 DEF Acked
  <2> QED BY <2>1, <2>2, <2>3
<1> QED BY <1>2 DEF Fits, Ack

LEMMA ComesBackFit ==
  ASSUME Fits(ready, unsettled), conf \in Config, NEW q \in Queues, NEW counted \in BOOLEAN
  PROVE  BagOf(ComesBack(q, counted), Waiting(q))
<1> DEFINE u == unsettled[q]
           back == [i \in DOMAIN u |-> Returned(u[i].copy, counted)]
           places(c) == {i \in DOMAIN back : back[i] = c}
<1>1. \A i \in DOMAIN u : Returned(u[i].copy, counted) \in Waiting(q)
  BY HeldCopy, ReturnedWaiting
<1>2. DOMAIN back = DOMAIN u /\ IsFiniteSet(DOMAIN u)
  <2>1. u \in Seq(Deliveries(q))
    BY DEF Fits
  <2>2. DOMAIN u = 1 .. Len(u) /\ Len(u) \in Nat
    BY <2>1
  <2> QED BY <2>2, FS_Interval
<1>3. ComesBack(q, counted) = [c \in {back[i] : i \in DOMAIN back} |-> Cardinality(places(c))]
  BY DEF ComesBack
<1>4. ASSUME NEW i \in DOMAIN back
      PROVE  back[i] \in Waiting(q) /\ Cardinality(places(back[i])) \in Nat \ {0}
  <2>1. IsFiniteSet(places(back[i])) /\ places(back[i]) # {}
    BY <1>2, <1>4, FS_Subset
  <2>2. Cardinality(places(back[i])) \in Nat /\ Cardinality(places(back[i])) # 0
    BY <2>1, FS_CardinalityType, FS_EmptySet
  <2> QED BY <1>1, <1>2, <2>2
<1> HIDE DEF back, places
<1> QED BY <1>3, <1>4 DEF BagOf

LEMMA FitsClose ==
  ASSUME Fits(ready, unsettled), conf \in Config, NEW q \in Queues, Close(q)
  PROVE  Fits(ready', unsettled')
<1>1. PICK counted \in BOOLEAN : ready' = [ready EXCEPT ![q] = ready[q] (+) ComesBack(q, counted)]
  BY DEF Close
<1>2. BagOf(ready[q] (+) ComesBack(q, counted), Waiting(q))
  BY ComesBackFit, Joining DEF Fits
<1>3. <<>> \in Seq(Deliveries(q))
  OBVIOUS
<1> QED BY <1>1, <1>2, <1>3 DEF Fits, Close

LEMMA FitsStill ==
  ASSUME Fits(ready', unsettled'), conf' = conf, redriven \subseteq redriven'
  PROVE  Fits(ready, unsettled)'
<1>1. \A q \in Queues : Waiting(q) \subseteq Waiting(q)' /\ Deliveries(q) \subseteq Deliveries(q)'
  BY StillFit
<1>2. \A q \in Queues : BagOf(ready'[q], Waiting(q)')
  BY <1>1 DEF Fits, BagOf
<1>3. \A q \in Queues : unsettled'[q] \in Seq(Deliveries(q)')
  BY <1>1 DEF Fits
<1> QED BY <1>2, <1>3 DEF Fits, BagOf

-----------------------------------------------------------------------------
(* Copies stay fit                                                               *)

LEMMA FirstWaiting ==
  ASSUME NEW m \in Messages, conf \in Config
  PROVE  Copy(m, 0, FirstProperties(m), 0, 0) \in Waiting("work")
<1> DEFINE p == Projection(m, 0, NoRoute)
           d == Copy(m, 0, FirstProperties(m), 0, 0)
<1>1. Kind \in Kinds /\ Class(m) \in Classes
  BY DEF Config, Kind, Class
<1>2. p \in Properties /\ p.attempts \in {None, 0}
  BY ProjectionType DEF NoRoute, Routes
<1>3. /\ Class(m) # "poison" => p.job = "own"
      /\ Kind = "sqs" => p.version = IF Class(m) = "poison" THEN "none" ELSE BodyVersion(m, "text")
      /\ Kind = "asb" => p.version = IF Class(m) = "poison" THEN "none" ELSE BodyVersion(m, "int")
      /\ Kind = "artemis" => p.version = IF Class(m) = "poison" THEN "none" ELSE BodyVersion(m, "text")
      /\ Kind = "pulsar" => p.version = IF Class(m) = "poison" THEN "none" ELSE BodyVersion(m, "text")
  BY <1>1 DEF Projection, SqsProjection, AsbProjection, ArtemisProjection, AmqpProjection,
     PulsarProjection, NoProperties, NoRoute, Decodes, Kinds
<1> HIDE DEF p
<1>4. FirstProperties(m) =
        CASE Class(m) \in {"foreign", "poison"} -> NoProperties
          [] Class(m) = "routed" -> [p EXCEPT !.job = "other"]
          [] Class(m) = "gated"  -> [p EXCEPT !.version = "bad", !.job = "other"]
          [] OTHER               -> p
  BY DEF FirstProperties, p
<1>5. FirstProperties(m) \in Properties /\ FirstProperties(m).attempts \in {None, 0}
  <2>1. CASE Class(m) \in {"foreign", "poison"}
    BY <1>4, <2>1 DEF Properties, NoProperties
  <2>2. CASE Class(m) = "routed"
    BY <1>2, <1>4, <2>2 DEF Properties
  <2>3. CASE Class(m) = "gated"
    BY <1>2, <1>4, <2>3 DEF Properties
  <2>4. CASE Class(m) \in {"plain", "newer"}
    BY <1>2, <1>4, <2>4
  <2> QED BY <1>1, <2>1, <2>2, <2>3, <2>4 DEF Classes
<1>6. /\ d \in Stocks /\ d.msg = m /\ d.attempts = 0 /\ d.properties = FirstProperties(m)
      /\ d.count = 0 /\ d.recorded = 0 /\ d.received = 0
  BY <1>5 DEF Copy, Stocks
<1> HIDE DEF d
<1>7. /\ Class(m) \in {"foreign", "poison"} => d.properties.version = "none" /\ d.properties.job = "none"
      /\ Class(m) = "routed" => d.properties.version = p.version /\ d.properties.job = "other"
      /\ Class(m) = "gated" => d.properties.version = "bad"
      /\ Class(m) \in {"plain", "newer"} => d.properties = p
  BY <1>2, <1>4, <1>6 DEF NoProperties, Properties
<1>8. Gated(d) <=> Class(m) \in {"gated", "newer"} /\ Kind # "amqp"
  BY <1>1, <1>3, <1>7 DEF Gated, SqsAccepts, AsbAccepts, ArtemisAccepts, PulsarAccepts, BodyVersion,
     Kinds, Classes
<1>9. Kind # "pulsar" => Popped(d).route.job = "none"
  BY <1>6, RouteType DEF NoRoute
<1>10. Kind = "pulsar" /\ ~Gated(d) /\ Decodes(m) => Popped(d).route.job = d.properties.job
  BY <1>6 DEF Popped, PulsarPop, Delivery
<1>11. Destination(d) = FirstDestination(m)
  BY <1>1, <1>3, <1>6, <1>7, <1>8, <1>9, <1>10 DEF Destination, FirstDestination, Decodes, Classes
<1>12. d \in Waiting("work")
  BY <1>5, <1>6, <1>11 DEF Waiting, Copied, Routed
<1> QED BY <1>12 DEF d

LEMMA CopiesInit == Init => CopiesInv
<1> SUFFICES ASSUME Init PROVE CopiesInv
  OBVIOUS
<1>1. conf \in Config
  BY BrokerAssumption DEF Init, BrokerInit
<1>2. {Copy(m, 0, FirstProperties(m), 0, 0) : m \in Messages} \subseteq Waiting("work")
  BY <1>1, FirstWaiting
<1>3. BagOf(SetToBag({Copy(m, 0, FirstProperties(m), 0, 0) : m \in Messages}), Waiting("work"))
  BY <1>2 DEF BagOf, SetToBag
<1>4. BagOf(EmptyBag, Waiting("dlq"))
  BY DEF BagOf, EmptyBag, SetToBag
<1>5. Fits(ready, unsettled)
  <2>1. ready["work"] = SetToBag({Copy(m, 0, FirstProperties(m), 0, 0) : m \in Messages})
    BY DEF Init, BrokerInit, Queues
  <2>2. ready["dlq"] = EmptyBag /\ ready = [q \in Queues |-> ready[q]]
    BY DEF Init, BrokerInit, Queues
  <2>3. unsettled = [q \in Queues |-> <<>>]
    BY DEF Init, BrokerInit
  <2> QED BY <1>3, <1>4, <2>1, <2>2, <2>3 DEF Fits, Queues
<1>6. RTypeOK
  BY <1>1, <1>5 DEF Init, RTypeOK, WorkerSteps, OperatorSteps
<1>7. WorkerHolds /\ OperatorHolds
  BY DEF Init, WorkerHolds, OperatorHolds, Resting
<1> QED BY <1>6, <1>7 DEF CopiesInv

LEMMA TakenDrawn ==
  ASSUME NEW q \in Queues, NEW c \in Out(q), NEW h \in PosHandles, conf \in Config
  PROVE  Taken(h, c) \in Drawn(q)
<1>1. Popped(c).attempts \in Nat
  BY CountsOfOut
<1>2. Popped(c).route \in Routes
  BY RouteType DEF Out, Copied
<1> QED BY <1>1, <1>2 DEF Taken, Drawn

(* What the worker holds while it works.                                         *)
LEMMA WorkerHolding ==
  ASSUME CopiesInv, wpc \notin Resting
  PROVE  /\ cur.handle \in PosHandles /\ cur.copy \in Out("work")
         /\ cur.attempts = Popped(cur.copy).attempts /\ cur.route = Popped(cur.copy).route
         /\ Msg \in Messages
<1>1. cur \in Drawn("work")
  BY DEF CopiesInv, WorkerHolds
<1>2. cur.copy \in Stocks
  BY <1>1 DEF Drawn, Out, Copied
<1> QED BY <1>1, <1>2 DEF Msg, Drawn, Stocks

(* What the operator holds of a drained item.                                    *)
LEMMA OperatorHolding ==
  ASSUME CopiesInv, NEW i \in DOMAIN batch
  PROVE  /\ batch[i].handle \in PosHandles /\ batch[i].copy \in Out("dlq")
         /\ batch[i].attempts = Popped(batch[i].copy).attempts
         /\ batch[i].route = Popped(batch[i].copy).route
         /\ batch[i].copy.msg \in Messages
<1>1. batch[i] \in Drawn("dlq")
  BY DEF CopiesInv, OperatorHolds
<1>2. batch[i].copy \in Stocks
  BY <1>1 DEF Drawn, Out, Copied
<1> QED BY <1>1, <1>2 DEF Drawn, Stocks

LEMMA ItemHolding ==
  ASSUME CopiesInv, opc \notin {"off", "drain"}
  PROVE  1 \in DOMAIN batch /\ Item = batch[1]
BY DEF CopiesInv, OperatorHolds, Item

(* A step of one process leaves what the other holds fit.                        *)
LEMMA WorkerStill ==
  ASSUME CopiesInv, conf' = conf, redriven \subseteq redriven', UNCHANGED worker
  PROVE  WorkerHolds'
<1>1. cur' = cur /\ wpc' = wpc
  BY DEF worker
<1>2. Drawn("work") \subseteq Drawn("work")'
  BY StillFit DEF Queues
<1>3. \A c : NeverHandled(c)' <=> NeverHandled(c)
  BY StillFit DEF Queues
<1> QED BY <1>1, <1>2, <1>3 DEF CopiesInv, WorkerHolds, Kind, DlqOn, NativeSettler

LEMMA OperatorStill ==
  ASSUME CopiesInv, conf' = conf, UNCHANGED operator
  PROVE  OperatorHolds'
<1>1. opc' = opc /\ batch' = batch /\ redriven' = redriven
  BY DEF operator
<1>2. Drawn("dlq") \subseteq Drawn("dlq")'
  BY <1>1, StillFit DEF Queues
<1> QED BY <1>1, <1>2 DEF CopiesInv, OperatorHolds

(* The worker goes on with the delivery it holds.                                *)
LEMMA WorkerMoves ==
  ASSUME CopiesInv, conf' = conf, redriven' = redriven, wpc \notin Resting,
         cur' = cur, wpc' \notin Resting,
         wpc' \in {"handle", "retry", "resend", "release"} => ~NeverHandled(cur.copy),
         wpc' = "dlq" => DlqOn, wpc' = "native" => NativeSettler,
         wpc' = "rewind" => Kind = "pulsar", wpc' = "abandon" => Kind = "asb"
  PROVE  WorkerHolds'
<1>1. cur \in Drawn("work")
  BY DEF CopiesInv, WorkerHolds
<1>2. Drawn("work") \subseteq Drawn("work")'
  BY StillFit DEF Queues
<1>3. \A c : NeverHandled(c)' <=> NeverHandled(c)
  BY StillFit DEF Queues
<1> QED BY <1>1, <1>2, <1>3 DEF WorkerHolds, Kind, DlqOn, NativeSettler

LEMMA WorkerRests ==
  ASSUME cur' = None, wpc' \in Resting
  PROVE  WorkerHolds'
BY DEF WorkerHolds, Resting

LEMMA CopiesWorkerPop ==
  ASSUME CopiesInv, conf' = conf, WorkerPop
  PROVE  CopiesInv'
<1>1. PICK c \in BagToSet(ready["work"]) :
        /\ Receive("work", c, NewHandle("work", {}))
        /\ cur' = Taken(NewHandle("work", {}), Received(c))
        /\ wpc' = FirstStep(Destination(Received(c)))
  BY DEF WorkerPop
<1> DEFINE h == NewHandle("work", {})
           d == Received(c)
<1>2. h \in PosHandles
  <2>1. unsettled["work"] \in Seq(Deliveries("work"))
    BY DEF CopiesInv, RTypeOK, Fits, Queues
  <2>2. DOMAIN unsettled["work"] = 1 .. Len(unsettled["work"]) /\ Len(unsettled["work"]) \in Nat
    BY <2>1
  <2>3. IsFiniteSet({}) /\ "work" \in Queues
    BY FS_EmptySet DEF Queues
  <2> QED BY <2>2, <2>3, FreshHandle
<1>3. UNCHANGED <<operator, ends, faults>> /\ redriven' = redriven
  BY DEF WorkerPop, operator
<1>4. Fits(ready', unsettled') /\ d \in Out("work")
  BY <1>1, <1>2, FitsReceive DEF CopiesInv, RTypeOK, Queues
<1> HIDE DEF h, d
<1>5. Taken(h, d) \in Drawn("work")
  BY <1>2, <1>4, TakenDrawn DEF CopiesInv, RTypeOK, Queues
<1>6. cur' \in Drawn("work")' /\ cur'.copy = d
  BY <1>1, <1>3, <1>5, StillFit DEF h, d, Queues, Taken
<1>7. /\ wpc' \in WorkerSteps \ Resting
      /\ wpc' \in {"handle", "retry", "resend", "release"} => ~NeverHandled(d)
      /\ wpc' = "dlq" => DlqOn
      /\ wpc' = "native" => NativeSettler
      /\ wpc' # "rewind" /\ wpc' # "abandon"
  BY <1>1 DEF FirstStep, Destination, NeverHandled, WorkerSteps, Resting, d
<1>8. WorkerHolds'
  <2>1. \A c1 : NeverHandled(c1)' <=> NeverHandled(c1)
    BY StillFit, <1>3 DEF Queues
  <2> QED BY <1>3, <1>6, <1>7, <2>1 DEF WorkerHolds, DlqOn, NativeSettler, Kind, Queues
<1>9. OperatorHolds'
  BY <1>3, OperatorStill
<1>10. RTypeOK'
  BY <1>3, <1>4, <1>7, FitsStill DEF CopiesInv, RTypeOK, operator
<1> QED BY <1>8, <1>9, <1>10 DEF CopiesInv

(* The handler, the shutdown and the decision to retry change no copy.           *)
LEMMA CopiesDecide ==
  ASSUME CopiesInv, conf' = conf, HandlerReturns \/ HandlerRaises \/ ShutdownRelease \/ Retry
  PROVE  CopiesInv'
<1>1. /\ UNCHANGED <<broker, cur, operator, ends, faults>>
      /\ wpc \in {"handle", "retry"}
      /\ wpc' \in {"final", "retry", "rewind", "release", "resend", "dlq"}
      /\ wpc' = "rewind" => Kind = "pulsar"
      /\ wpc' = "dlq" => DlqOn
  BY DEF HandlerReturns, HandlerRaises, ShutdownRelease, Retry
<1>2. ~NeverHandled(cur.copy)
  BY <1>1 DEF CopiesInv, WorkerHolds
<1>3. UNCHANGED <<ready, unsettled, cur, ends, faults>> /\ redriven' = redriven /\ UNCHANGED operator
  BY <1>1 DEF broker, operator
<1>4. WorkerHolds'
  BY <1>1, <1>2, <1>3, WorkerMoves DEF Resting
<1>5. OperatorHolds'
  BY <1>3, OperatorStill
<1>6. RTypeOK'
  <2>1. Fits(ready', unsettled')
    BY <1>3 DEF CopiesInv, RTypeOK
  <2> QED BY <1>1, <1>3, <2>1, FitsStill DEF CopiesInv, RTypeOK, operator, WorkerSteps
<1> QED BY <1>4, <1>5, <1>6 DEF CopiesInv

LEMMA CopiesReleaseNatively ==
  ASSUME CopiesInv, WorkerTied, conf' = conf, ReleaseNatively
  PROVE  CopiesInv'
<1> DEFINE c == unsettled["work"][Position("work", cur.handle)].copy
<1>1. /\ wpc \in {"resend", "release"} /\ Kind = "sqs"
      /\ UNCHANGED <<operator, ends, faults>> /\ wpc' = "idle" /\ cur' = None
  BY DEF ReleaseNatively, Idle
<1>2. redriven' = redriven /\ "work" \in Queues
  BY <1>1 DEF operator, Queues
<1>3. Fits(ready', unsettled')
  <2>1. CASE ~Holds("work", cur.handle)
    BY <2>1 DEF ReleaseNatively, ChangeVisibility, broker, CopiesInv, RTypeOK
  <2>2. CASE Holds("work", cur.handle)
    <3>1. GiveBack("work", cur.handle, [c EXCEPT !.recorded = @ + Recorded])
      BY <2>2 DEF ReleaseNatively, ChangeVisibility
    <3>2. [c EXCEPT !.recorded = @ + Recorded] \in Waiting("work")
      <4>1. c \in Out("work")
        BY <1>2, <2>2, PositionOf, HeldCopy DEF CopiesInv, RTypeOK
      <4>2. ~NeverHandled(c)
        BY <1>1, <2>2, PositionOf DEF CopiesInv, WorkerHolds, WorkerTied, Resting, Queues
      <4>3. Recorded \in {0, 1}
        BY DEF Recorded
      <4> QED BY <1>1, <4>1, <4>2, <4>3, RecordedWaiting DEF CopiesInv, RTypeOK
    <3> QED BY <1>2, <2>2, <3>1, <3>2, FitsGiveBack DEF CopiesInv, RTypeOK
  <2> QED BY <2>1, <2>2
<1>4. WorkerHolds' /\ OperatorHolds'
  BY <1>1, WorkerRests, OperatorStill DEF Resting
<1>5. RTypeOK'
  BY <1>1, <1>2, <1>3, FitsStill DEF CopiesInv, RTypeOK, operator, WorkerSteps
<1> QED BY <1>4, <1>5 DEF CopiesInv

(* A copy the worker writes: a retry, a release, or the dead letter.             *)
LEMMA CopiesWorkerWrites ==
  ASSUME CopiesInv, conf' = conf, ReleaseByCopy \/ WriteDeadLetter
  PROVE  CopiesInv'
<1>1. /\ UNCHANGED <<unsettled, cur, operator, ends, faults>> /\ redriven' = redriven
      /\ wpc' = "settle" /\ wpc \notin Resting
  BY DEF ReleaseByCopy, WriteDeadLetter, Resting, operator
<1>2. /\ cur.copy \in Out("work") /\ conf \in Config
      /\ cur.attempts = Popped(cur.copy).attempts /\ cur.route = Popped(cur.copy).route
  BY <1>1, WorkerHolding DEF CopiesInv, RTypeOK
<1>3. Fits(ready', unsettled')
  <2>1. CASE ReleaseByCopy
    <3> DEFINE d == Rewrite(cur.copy, Resent, cur.copy.recorded + Recorded, cur.copy.received)
    <3>1. ready' = [ready EXCEPT !["work"] = @ (+) SetToBag({d})]
      BY <1>2, <2>1 DEF ReleaseByCopy, Send, Rewrite, Msg
    <3>2. d \in Waiting("work")
      <4>1. ~NeverHandled(cur.copy) /\ Kind # "sqs"
        BY <2>1 DEF ReleaseByCopy, CopiesInv, WorkerHolds
      <4>2. Popped(cur.copy).attempts \in Nat /\ cur.copy.recorded \in Nat
        BY <1>2, CountsOfOut DEF Out, Copied, Stocks, Queues
      <4>3. Recorded \in {0, 1} /\ Resent = Popped(cur.copy).attempts + Recorded
        BY <1>2, <4>2 DEF Recorded, Resent
      <4> QED BY <1>2, <4>1, <4>3, ResentWaiting
    <3> HIDE DEF d
    <3> QED BY <1>1, <3>1, <3>2, FitsSend DEF CopiesInv, RTypeOK, Queues
  <2>2. CASE WriteDeadLetter
    <3> DEFINE d == Rewrite(cur.copy, Buried, cur.copy.recorded, cur.copy.received)
    <3>1. ready' = [ready EXCEPT !["dlq"] = @ (+) SetToBag({d})]
      BY <1>2, <2>2 DEF WriteDeadLetter, Send, Rewrite, Msg
    <3>2. d \in Waiting("dlq")
      <4>1. DlqOn
        BY <2>2 DEF WriteDeadLetter, CopiesInv, WorkerHolds
      <4>2. Buried = CASE Destination(cur.copy) = "gate"   -> Popped(cur.copy).attempts
                       [] Destination(cur.copy) = "poison" -> 0
                       [] OTHER                            -> Popped(cur.copy).attempts + 1
        BY <1>2 DEF Buried
      <4> QED BY <1>2, <4>1, <4>2, BuriedWaiting
    <3> HIDE DEF d
    <3> QED BY <1>1, <3>1, <3>2, FitsSend DEF CopiesInv, RTypeOK, Queues
  <2> QED BY <2>1, <2>2, <1>1 DEF ReleaseByCopy, WriteDeadLetter
<1>4. WorkerHolds'
  BY <1>1, WorkerMoves DEF Resting
<1>5. OperatorHolds'
  BY <1>1, OperatorStill
<1>6. RTypeOK'
  BY <1>1, <1>3, FitsStill DEF CopiesInv, RTypeOK, operator, WorkerSteps
<1> QED BY <1>4, <1>5, <1>6 DEF CopiesInv

(* A write that failed: the worker leaves the delivery, or gives it up next.     *)
LEMMA CopiesWriteFails ==
  ASSUME CopiesInv, conf' = conf, ReleaseFails \/ DeadLetterFails
  PROVE  CopiesInv'
<1>1. /\ UNCHANGED <<broker, operator, ends>> /\ wpc \notin Resting /\ faults' = faults + 1
  BY DEF ReleaseFails, DeadLetterFails, Resting, Fault
<1>2. \/ wpc' = "rewind" /\ Kind = "pulsar" /\ cur' = cur
      \/ wpc' = "abandon" /\ Kind = "asb" /\ cur' = cur
      \/ wpc' \in Resting /\ cur' = None
  BY DEF ReleaseFails, DeadLetterFails, Idle, Resting
<1>3. redriven' = redriven /\ UNCHANGED <<ready, unsettled>>
  BY <1>1 DEF operator, broker
<1>4. WorkerHolds'
  <2>1. CASE wpc' \in Resting /\ cur' = None
    BY <2>1, WorkerRests
  <2>2. CASE wpc' \in {"rewind", "abandon"} /\ cur' = cur
    BY <1>1, <1>2, <1>3, <2>2, WorkerMoves DEF Resting
  <2> QED BY <1>2, <2>1, <2>2
<1>5. OperatorHolds'
  BY <1>1, OperatorStill
<1>6. RTypeOK'
  <2>1. Fits(ready', unsettled')
    BY <1>3 DEF CopiesInv, RTypeOK
  <2> QED BY <1>1, <1>2, <1>3, <2>1, FitsStill DEF CopiesInv, RTypeOK, operator, WorkerSteps, Resting
<1> QED BY <1>4, <1>5, <1>6 DEF CopiesInv

(* The worker ends its work on a delivery.                                       *)
LEMMA CopiesWorkerEnds ==
  ASSUME CopiesInv, HandlesInv, conf' = conf, GiveUp \/ SettleNative \/ AckSettled
  PROVE  CopiesInv'
<1>1. /\ UNCHANGED operator /\ redriven' = redriven /\ wpc' = "idle" /\ cur' = None
      /\ wpc \notin Resting /\ "work" \in Queues
  BY DEF GiveUp, SettleNative, AckSettled, Idle, operator, Resting, Queues
<1>2. Msg \in Messages
  BY <1>1, WorkerHolding
<1>3. ends' \in [Messages -> Nat] /\ faults' \in Nat
  BY <1>2 DEF GiveUp, SettleNative, AckSettled, End, Fault, CopiesInv, RTypeOK
<1>4. Fits(ready', unsettled')
  <2> DEFINE c == unsettled["work"][Position("work", cur.handle)].copy
  <2>1. ASSUME Holds("work", cur.handle)
        PROVE  \A counted \in BOOLEAN : Returned(c, counted) \in Waiting("work") /\ c \in Waiting("work")
    <3>1. c \in Out("work")
      BY <1>1, <2>1, PositionOf, HeldCopy DEF CopiesInv, RTypeOK
    <3> QED BY <1>1, <3>1, ReturnedWaiting DEF CopiesInv, RTypeOK
  <2>2. CASE UNCHANGED broker
    BY <2>2 DEF broker, CopiesInv, RTypeOK
  <2>3. CASE wpc = "rewind" /\ NegativeAcknowledge(cur.handle)
    <3>1. Holds("work", cur.handle)
      BY <1>1, <2>3 DEF HandlesInv, WorkerHeld, CountedOnReceipt, CopiesInv, WorkerHolds
    <3>2. PICK counted \in BOOLEAN : GiveBack("work", cur.handle, Returned(c, counted))
      BY <2>3 DEF NegativeAcknowledge
    <3> HIDE DEF c
    <3> QED BY <1>1, <2>1, <3>1, <3>2, FitsGiveBack DEF CopiesInv, RTypeOK
  <2>4. CASE Abandon(cur.handle)
    <3>1. CASE Holds("work", cur.handle)
      <4>1. GiveBack("work", cur.handle, c)
        BY <2>4, <3>1 DEF Abandon
      <4> HIDE DEF c
      <4> QED BY <1>1, <2>1, <3>1, <4>1, FitsGiveBack DEF CopiesInv, RTypeOK
    <3>2. CASE ~Holds("work", cur.handle)
      BY <2>4, <3>2 DEF Abandon, broker, CopiesInv, RTypeOK
    <3> QED BY <3>1, <3>2
  <2>5. CASE Ack("work", cur.handle) /\ ready' = ready
    BY <1>1, <2>5, FitsAck DEF CopiesInv, RTypeOK
  <2>6. CASE GiveUp
    BY <2>2, <2>3, <2>4, <2>6 DEF GiveUp
  <2>7. CASE SettleNative
    BY <2>2, <2>5, <2>7 DEF SettleNative, SqsSettleNative, AsbSettleNative
  <2>8. CASE AckSettled
    BY <2>2, <2>5, <2>8 DEF AckSettled, broker
  <2> QED BY <1>1, <2>6, <2>7, <2>8
<1>5. WorkerHolds' /\ OperatorHolds'
  BY <1>1, WorkerRests, OperatorStill DEF Resting
<1>6. RTypeOK'
  BY <1>1, <1>3, <1>4, FitsStill DEF CopiesInv, RTypeOK, operator, WorkerSteps
<1> QED BY <1>5, <1>6 DEF CopiesInv

LEMMA CopiesWorkerStops ==
  ASSUME CopiesInv, conf' = conf, WorkerCrash \/ WorkerExit
  PROVE  CopiesInv'
<1>1. /\ UNCHANGED <<operator, ends>> /\ redriven' = redriven /\ wpc' = "idle" /\ cur' = None
      /\ Close("work") /\ "work" \in Queues /\ faults' \in Nat
  BY DEF WorkerCrash, WorkerExit, Idle, operator, Queues, Fault, CopiesInv, RTypeOK
<1>2. Fits(ready', unsettled')
  BY <1>1, FitsClose DEF CopiesInv, RTypeOK
<1>3. WorkerHolds' /\ OperatorHolds'
  BY <1>1, WorkerRests, OperatorStill DEF Resting
<1>4. RTypeOK'
  BY <1>1, <1>2, FitsStill DEF CopiesInv, RTypeOK, operator, WorkerSteps
<1> QED BY <1>3, <1>4 DEF CopiesInv

(* The operator's step changes what it drained, or drops it.                     *)
LEMMA OperatorMoves ==
  ASSUME CopiesInv, conf' = conf, redriven \subseteq redriven',
         \/ batch' = batch /\ opc \notin {"off", "drain"} /\ opc' \notin {"off", "drain"}
         \/ batch' = <<>> /\ opc' \in {"off", "drain"}
         \/ batch' = Tail(batch) /\ opc \notin {"off", "drain"} /\ Tail(batch) # <<>> /\ opc' # "off"
         \/ batch' = batch /\ opc = "drain" /\ opc' = "item" /\ batch # <<>>
  PROVE  OperatorHolds'
<1>1. Drawn("dlq") \subseteq Drawn("dlq")'
  BY StillFit DEF Queues
<1>2. batch \in Seq(Drawn("dlq")')
  BY <1>1 DEF CopiesInv, OperatorHolds
<1>3. CASE batch' = batch
  BY <1>2, <1>3 DEF CopiesInv, OperatorHolds
<1>4. CASE batch' = <<>> /\ opc' \in {"off", "drain"}
  BY <1>4 DEF OperatorHolds
<1>5. CASE batch' = Tail(batch) /\ opc \notin {"off", "drain"} /\ Tail(batch) # <<>> /\ opc' # "off"
  <2>1. batch # <<>>
    BY <1>5 DEF CopiesInv, OperatorHolds
  <2>2. Tail(batch) \in Seq(Drawn("dlq")')
    BY <1>2, <2>1
  <2> QED BY <1>5, <2>2 DEF OperatorHolds
<1> QED BY <1>3, <1>4, <1>5

(* redrive() starts, ends its drain, chooses, or fails to publish.               *)
LEMMA CopiesOperatorDecides ==
  ASSUME CopiesInv, conf' = conf,
         StartRedrive \/ Drained \/ ChooseItem \/ RepublishFails \/ RedriveRaises
  PROVE  CopiesInv'
<1>1. /\ UNCHANGED <<ready, unsettled, ends>> /\ UNCHANGED worker /\ redriven' = redriven
      /\ opc' \in OperatorSteps /\ raising' \in BOOLEAN /\ faults' \in Nat
  <2>1. UNCHANGED <<ready, unsettled, ends>> /\ UNCHANGED worker /\ redriven' = redriven
    BY DEF StartRedrive, Drained, ChooseItem, RepublishFails, RedriveRaises, broker
  <2>2. opc' \in OperatorSteps /\ raising' \in BOOLEAN
    BY DEF StartRedrive, Drained, ChooseItem, RepublishFails, RedriveRaises, Stop,
           AfterFailedRepublish, OperatorSteps, CopiesInv, RTypeOK
  <2>3. faults' \in Nat
    BY DEF StartRedrive, Drained, ChooseItem, RepublishFails, RedriveRaises, Fault, CopiesInv, RTypeOK
  <2> QED BY <2>1, <2>2, <2>3
<1>2. OperatorHolds'
  <2>1. CASE StartRedrive
    <3>1. batch' = <<>>
      BY <2>1 DEF StartRedrive, CopiesInv, OperatorHolds
    <3> QED BY <1>1, <2>1, <3>1, OperatorMoves DEF StartRedrive
  <2>2. CASE Drained
    BY <1>1, <2>2, OperatorMoves DEF Drained, Stop
  <2>3. CASE ChooseItem \/ RepublishFails
    BY <1>1, <2>3, OperatorMoves DEF ChooseItem, RepublishFails, AfterFailedRepublish
  <2>4. CASE RedriveRaises
    BY <1>1, <2>4, OperatorMoves DEF RedriveRaises, Stop
  <2> QED BY <2>1, <2>2, <2>3, <2>4
<1>3. WorkerHolds'
  BY <1>1, WorkerStill
<1>4. RTypeOK'
  <2>1. Fits(ready', unsettled')
    BY <1>1 DEF CopiesInv, RTypeOK
  <2> QED BY <1>1, <2>1, FitsStill DEF CopiesInv, RTypeOK, worker
<1> QED BY <1>2, <1>3, <1>4 DEF CopiesInv

LEMMA CopiesDrainOne ==
  ASSUME CopiesInv, conf' = conf, DrainOne
  PROVE  CopiesInv'
<1> DEFINE h == NewHandle("dlq", {batch[i].handle : i \in DOMAIN batch})
<1>1. PICK c \in BagToSet(ready["dlq"]) :
        Receive("dlq", c, h) /\ batch' = Append(batch, Taken(h, Received(c)))
  BY DEF DrainOne
<1> DEFINE d == Received(c)
<1>2. /\ UNCHANGED <<worker, opc, raising, redriven, ends, faults>> /\ "dlq" \in Queues
      /\ opc = "drain" /\ conf \in Config
  BY DEF DrainOne, Queues, CopiesInv, RTypeOK
<1>3. h \in PosHandles
  <2> DEFINE inUse == {batch[i].handle : i \in DOMAIN batch}
  <2>1. batch \in Seq(Drawn("dlq")) /\ unsettled["dlq"] \in Seq(Deliveries("dlq"))
    BY <1>2 DEF CopiesInv, OperatorHolds, RTypeOK, Fits
  <2>2. /\ DOMAIN unsettled["dlq"] = 1 .. Len(unsettled["dlq"]) /\ Len(unsettled["dlq"]) \in Nat
        /\ DOMAIN batch = 1 .. Len(batch) /\ Len(batch) \in Nat
    BY <2>1
  <2>3. IsFiniteSet(inUse)
    <3> DEFINE f == [i \in DOMAIN batch |-> batch[i].handle]
    <3>1. f \in Surjection(DOMAIN batch, inUse)
      BY DEF Surjection
    <3>2. IsFiniteSet(DOMAIN batch)
      BY <2>2, FS_Interval
    <3> QED BY <3>1, <3>2, FS_Surjection
  <2> HIDE DEF inUse
  <2>4. NewHandle("dlq", inUse) \in PosHandles
    BY <1>2, <2>2, <2>3, FreshHandle
  <2> QED BY <2>4 DEF inUse
<1> HIDE DEF h
<1>4. Fits(ready', unsettled') /\ d \in Out("dlq")
  BY <1>1, <1>2, <1>3, FitsReceive DEF CopiesInv, RTypeOK
<1> HIDE DEF d
<1>5. Taken(h, d) \in Drawn("dlq")
  BY <1>2, <1>3, <1>4, TakenDrawn
<1>6. OperatorHolds'
  <2>1. batch' \in Seq(Drawn("dlq"))
    BY <1>1, <1>5 DEF CopiesInv, OperatorHolds, d
  <2>2. Drawn("dlq") \subseteq Drawn("dlq")'
    BY <1>2, StillFit
  <2> QED BY <1>2, <2>1, <2>2 DEF OperatorHolds
<1>7. WorkerHolds'
  BY <1>2, WorkerStill
<1>8. RTypeOK'
  BY <1>2, <1>4, FitsStill DEF CopiesInv, RTypeOK, worker
<1> QED BY <1>6, <1>7, <1>8 DEF CopiesInv

(* redrive() writes an item back, to the DLQ or to the work queue.               *)
LEMMA CopiesRestore ==
  ASSUME CopiesInv, conf' = conf, Restore
  PROVE  CopiesInv'
<1>1. /\ opc = "restore" /\ opc' = "ack" /\ "dlq" \in Queues
      /\ UNCHANGED <<unsettled, worker, batch, raising, redriven, ends, faults>>
  BY DEF Restore, Queues
<1>2. /\ Item.copy \in Out("dlq") /\ Item.attempts = Popped(Item.copy).attempts
      /\ Item.route = Popped(Item.copy).route
  BY <1>1, ItemHolding, OperatorHolding
<1> DEFINE d == Rewrite(Item.copy, Item.attempts, Item.copy.recorded, Item.copy.received)
<1>3. ready' = [ready EXCEPT !["dlq"] = @ (+) SetToBag({d})]
  BY <1>2 DEF Restore, Send, Rewrite
<1>4. d \in Waiting("dlq")
  BY <1>2, RestoredWaiting DEF CopiesInv, RTypeOK
<1> HIDE DEF d
<1>5. Fits(ready', unsettled')
  BY <1>1, <1>3, <1>4, FitsSend DEF CopiesInv, RTypeOK
<1>6. OperatorHolds'
  BY <1>1, OperatorMoves
<1>7. WorkerHolds'
  BY <1>1, WorkerStill
<1>8. RTypeOK'
  BY <1>1, <1>5, FitsStill DEF CopiesInv, RTypeOK, worker, OperatorSteps
<1> QED BY <1>6, <1>7, <1>8 DEF CopiesInv

LEMMA CopiesRepublish ==
  ASSUME CopiesInv, conf' = conf, Republish
  PROVE  CopiesInv'
<1>1. /\ opc = "republish" /\ opc' = "ack" /\ "work" \in Queues /\ conf \in Config
      /\ UNCHANGED <<unsettled, worker, batch, raising, ends, faults>>
  BY DEF Republish, Queues, CopiesInv, RTypeOK
<1>2. /\ Item.copy \in Out("dlq") /\ Item.route = Popped(Item.copy).route
      /\ Item.copy.msg \in Messages
  BY <1>1, ItemHolding, OperatorHolding
<1>3. redriven' = redriven \cup {Item.copy.msg}
  BY DEF Republish
<1>4. PICK d : d = Rewrite(Item.copy, 0, 0, 0)
  OBVIOUS
<1>5. ready' = [ready EXCEPT !["work"] = @ (+) SetToBag({d})]
  BY <1>2, <1>4 DEF Republish, Send, Rewrite
<1>6. d \in Waiting("work")'
  BY <1>1, <1>2, <1>3, <1>4, RedrivenWaiting
<1>7. \A q \in Queues : Waiting(q) \subseteq Waiting(q)' /\ Deliveries(q) \subseteq Deliveries(q)'
  BY <1>3, StillFit
<1>8. /\ \A q \in Queues : BagOf(ready[q], Waiting(q)') /\ unsettled[q] \in Seq(Deliveries(q)')
      /\ ready = [q \in Queues |-> ready[q]] /\ unsettled = [q \in Queues |-> unsettled[q]]
  BY <1>7 DEF CopiesInv, RTypeOK, Fits, BagOf
<1>9. BagOf(ready["work"] (+) SetToBag({d}), Waiting("work")')
  BY <1>1, <1>6, <1>8, Adding
<1>10. Fits(ready, unsettled)'
  <2>1. \A q \in Queues : BagOf(ready'[q], Waiting(q)') /\ unsettled'[q] \in Seq(Deliveries(q)')
    BY <1>1, <1>5, <1>8, <1>9
  <2>2. ready' = [q \in Queues |-> ready'[q]] /\ unsettled' = [q \in Queues |-> unsettled'[q]]
    BY <1>1, <1>5, <1>8
  <2> QED BY <2>1, <2>2 DEF Fits, BagOf
<1>11. OperatorHolds'
  BY <1>1, <1>3, OperatorMoves
<1>12. WorkerHolds'
  BY <1>1, <1>3, WorkerStill
<1>13. RTypeOK'
  BY <1>1, <1>2, <1>3, <1>10 DEF CopiesInv, RTypeOK, worker, OperatorSteps
<1> QED BY <1>11, <1>12, <1>13 DEF CopiesInv

LEMMA CopiesAckItem ==
  ASSUME CopiesInv, conf' = conf, AckItem
  PROVE  CopiesInv'
<1>1. /\ opc = "ack" /\ Ack("dlq", Item.handle) /\ "dlq" \in Queues
      /\ UNCHANGED <<ready, worker, redriven, ends, faults>>
      /\ \/ batch' = <<>> /\ opc' = "off"
         \/ batch' = Tail(batch) /\ opc' = "item" /\ Tail(batch) # <<>>
      /\ raising' \in BOOLEAN
  BY DEF AckItem, ItemSettled, Stop, Queues, CopiesInv, RTypeOK
<1>2. Fits(ready', unsettled')
  BY <1>1, FitsAck DEF CopiesInv, RTypeOK
<1>3. OperatorHolds'
  BY <1>1, OperatorMoves
<1>4. WorkerHolds'
  BY <1>1, WorkerStill
<1>5. RTypeOK'
  BY <1>1, <1>2, FitsStill DEF CopiesInv, RTypeOK, worker, OperatorSteps
<1> QED BY <1>3, <1>4, <1>5 DEF CopiesInv

LEMMA CopiesOperatorStops ==
  ASSUME CopiesInv, conf' = conf, OperatorCrash \/ OperatorExit
  PROVE  CopiesInv'
<1>1. /\ Close("dlq") /\ "dlq" \in Queues /\ UNCHANGED worker /\ UNCHANGED <<redriven, ends>>
      /\ opc' = "off" /\ raising' \in BOOLEAN /\ faults' \in Nat /\ batch' = <<>>
  <2>1. Close("dlq") /\ UNCHANGED worker /\ UNCHANGED <<redriven, ends>> /\ "dlq" \in Queues
    BY DEF OperatorCrash, OperatorExit, operator, Queues
  <2>2. faults \in Nat /\ raising \in BOOLEAN /\ opc = "off" => batch = <<>>
    BY DEF CopiesInv, RTypeOK, OperatorHolds
  <2>3. opc' = "off" /\ batch' = <<>> /\ raising' \in BOOLEAN
    BY <2>2 DEF OperatorCrash, OperatorExit, Stop, operator, CopiesInv, RTypeOK, OperatorHolds
  <2>4. faults' \in Nat
    BY <2>2 DEF OperatorCrash, OperatorExit, Fault, CopiesInv, RTypeOK
  <2> QED BY <2>1, <2>3, <2>4
<1>2. Fits(ready', unsettled')
  BY <1>1, FitsClose DEF CopiesInv, RTypeOK
<1>3. OperatorHolds'
  BY <1>1, OperatorMoves
<1>4. WorkerHolds'
  BY <1>1, WorkerStill
<1>5. RTypeOK'
  BY <1>1, <1>2, FitsStill DEF CopiesInv, RTypeOK, worker, OperatorSteps
<1> QED BY <1>3, <1>4, <1>5 DEF CopiesInv

(* A lock lapses under a delivery.                                               *)
LEMMA CopiesLapses ==
  ASSUME CopiesInv, conf' = conf, Lapses
  PROVE  CopiesInv'
<1>1. /\ UNCHANGED worker /\ UNCHANGED operator /\ ends' = ends
      /\ redriven' = redriven /\ opc' = opc /\ raising' = raising /\ wpc' = wpc
  BY DEF Lapses, operator, worker
<1>2. faults' \in Nat
  BY DEF Lapses, Fault, CopiesInv, RTypeOK
<1>3. PICK q \in Queues : \E i \in DOMAIN unsettled[q] :
        GiveBack(q, unsettled[q][i].handle, unsettled[q][i].copy)
  BY DEF Lapses, Lapse
<1>4. PICK i \in DOMAIN unsettled[q] : GiveBack(q, unsettled[q][i].handle, unsettled[q][i].copy)
  BY <1>3
<1>5. Holds(q, unsettled[q][i].handle)
  BY DEF Holds
<1>6. unsettled[q][i].copy \in Waiting(q)
  BY HeldCopy, ReturnedWaiting DEF CopiesInv, RTypeOK
<1>7. Fits(ready', unsettled')
  BY <1>4, <1>5, <1>6, FitsGiveBack DEF CopiesInv, RTypeOK
<1>8. WorkerHolds' /\ OperatorHolds'
  BY <1>1, WorkerStill, OperatorStill
<1>9. RTypeOK'
  BY <1>1, <1>2, <1>7, FitsStill DEF CopiesInv, RTypeOK
<1> QED BY <1>8, <1>9 DEF CopiesInv

(* The queue's RedrivePolicy takes a copy away.                                  *)
LEMMA CopiesRedrivePolicy ==
  ASSUME CopiesInv, conf' = conf, RedrivePolicy
  PROVE  CopiesInv'
<1>1. /\ UNCHANGED worker /\ UNCHANGED operator /\ faults' = faults /\ unsettled' = unsettled
      /\ redriven' = redriven /\ opc' = opc /\ raising' = raising /\ wpc' = wpc /\ "work" \in Queues
  BY DEF RedrivePolicy, operator, worker, Queues
<1>2. PICK c \in BagToSet(ready["work"]) :
        ready' = [ready EXCEPT !["work"] = @ (-) SetToBag({c})] /\ End(c.msg)
  BY DEF RedrivePolicy
<1>3. c \in DOMAIN ready["work"] /\ BagOf(ready["work"], Waiting("work"))
  BY <1>1 DEF BagToSet, CopiesInv, RTypeOK, Fits
<1>4. BagOf(ready["work"] (-) SetToBag({c}), Waiting("work"))
  BY <1>3, Removing
<1>5. Fits(ready', unsettled')
  BY <1>1, <1>2, <1>4 DEF Fits, CopiesInv, RTypeOK
<1>6. ends' \in [Messages -> Nat]
  <2>1. c.msg \in Messages
    BY <1>3 DEF BagOf, Waiting, Copied, Stocks
  <2> QED BY <1>2, <2>1 DEF End, CopiesInv, RTypeOK
<1>7. WorkerHolds' /\ OperatorHolds'
  BY <1>1, WorkerStill, OperatorStill
<1>8. RTypeOK'
  BY <1>1, <1>5, <1>6, FitsStill DEF CopiesInv, RTypeOK
<1> QED BY <1>7, <1>8 DEF CopiesInv

LEMMA CopiesNext ==
  ASSUME CopiesInv, HandlesInv, [Next]_vars
  PROVE  CopiesInv'
<1>1. CASE UNCHANGED vars
  <2>1. /\ UNCHANGED <<conf, ready, unsettled, worker, operator, ends, faults>>
        /\ redriven' = redriven /\ opc' = opc /\ raising' = raising /\ wpc' = wpc
    BY <1>1 DEF vars, broker, operator, worker
  <2>2. WorkerHolds' /\ OperatorHolds'
    BY <2>1, WorkerStill, OperatorStill
  <2>3. Fits(ready', unsettled')
    BY <2>1 DEF CopiesInv, RTypeOK
  <2>4. RTypeOK'
    BY <2>1, <2>3, FitsStill DEF CopiesInv, RTypeOK
  <2> QED BY <2>2, <2>4 DEF CopiesInv
<1>2. CASE Worker /\ conf' = conf
  BY <1>2, CopiesWorkerPop, CopiesDecide, CopiesReleaseNatively, CopiesWorkerWrites,
     CopiesWriteFails, CopiesWorkerEnds, CopiesWorkerStops DEF Worker, HandlesInv
<1>3. CASE Operator /\ conf' = conf
  BY <1>3, CopiesOperatorDecides, CopiesDrainOne, CopiesRestore, CopiesRepublish, CopiesAckItem,
     CopiesOperatorStops DEF Operator
<1>4. CASE Lapses /\ conf' = conf
  BY <1>4, CopiesLapses
<1>5. CASE RedrivePolicy /\ conf' = conf
  BY <1>5, CopiesRedrivePolicy
<1>6. CASE Quiet
  BY <1>1, <1>6 DEF Quiet
<1> QED BY <1>1, <1>2, <1>3, <1>4, <1>5, <1>6 DEF Next

-----------------------------------------------------------------------------
(* Handles stay tied to their deliveries                                         *)

LEMMA LastOne ==
  ASSUME NEW S, NEW s \in Seq(S), Len(s) = 1
  PROVE  Tail(s) = <<>>
<1>1. s # <<>>
  OBVIOUS
<1>2. Tail(s) \in Seq(S) /\ Len(Tail(s)) = 0
  BY <1>1
<1>3. \A t \in Seq(S) : Len(t) = 0 => t = <<>>
  OBVIOUS
<1> QED BY <1>2, <1>3

(* t is what is left of s.                                                       *)
Fewer(s, t) ==
  \/ t = s \/ t = <<>>
  \/ s # <<>> /\ t = Tail(s)
  \/ \E i \in DOMAIN s : t = RemoveAt(s, i)

LEMMA FewerHandles ==
  ASSUME NEW S, NEW s \in Seq(S), NEW t, Fewer(s, t), UniqueHandles(s)
  PROVE  /\ UniqueHandles(t)
         /\ \A i \in DOMAIN t : \E j \in DOMAIN s : t[i] = s[j]
<1>1. CASE t = s
  BY <1>1
<1>2. CASE t = <<>>
  BY <1>2 DEF UniqueHandles
<1>3. CASE s # <<>> /\ t = Tail(s)
  <2>1. \A i \in DOMAIN t : i + 1 \in DOMAIN s /\ t[i] = s[i + 1] /\ i \in Nat
    BY <1>3
  <2> QED BY <2>1 DEF UniqueHandles
<1>4. ASSUME NEW k \in DOMAIN s, t = RemoveAt(s, k)
      PROVE  /\ UniqueHandles(t)
             /\ \A i \in DOMAIN t : \E j \in DOMAIN s : t[i] = s[j]
  <2>1. t \in Seq(S) /\ DOMAIN t = 1 .. Len(s) - 1 /\ DOMAIN s = 1 .. Len(s) /\ Len(s) \in Nat
    BY <1>4, Leaving
  <2>2. \A i \in DOMAIN t : t[i] = IF i < k THEN s[i] ELSE s[i + 1]
    BY <1>4, <2>1, Leaving
  <2>3. ASSUME NEW i \in DOMAIN t, NEW j \in DOMAIN t, t[i].handle = t[j].handle PROVE i = j
    <3>1. /\ (IF i < k THEN i ELSE i + 1) \in DOMAIN s /\ (IF j < k THEN j ELSE j + 1) \in DOMAIN s
          /\ i \in Nat /\ j \in Nat /\ k \in Nat
      BY <2>1
    <3>2. t[i] = s[IF i < k THEN i ELSE i + 1] /\ t[j] = s[IF j < k THEN j ELSE j + 1]
      BY <2>2
    <3>3. (IF i < k THEN i ELSE i + 1) = (IF j < k THEN j ELSE j + 1)
      BY <2>3, <3>1, <3>2 DEF UniqueHandles
    <3> QED BY <3>1, <3>3
  <2>4. \A i \in DOMAIN t : \E j \in DOMAIN s : t[i] = s[j]
    BY <2>1, <2>2
  <2> QED BY <2>3, <2>4 DEF UniqueHandles
<1> QED BY <1>1, <1>2, <1>3, <1>4 DEF Fewer

LEMMA FreshTied ==
  ASSUME NEW S, NEW s \in Seq(S), NEW d, UniqueHandles(s),
         \A i \in DOMAIN s : s[i].handle # d.handle
  PROVE  UniqueHandles(Append(s, d))
<1> DEFINE t == Append(s, d)
<1>1. DOMAIN t = 1 .. Len(s) + 1 /\ DOMAIN s = 1 .. Len(s) /\ Len(s) \in Nat
  OBVIOUS
<1>2. t[Len(s) + 1] = d /\ \A i \in DOMAIN s : t[i] = s[i]
  BY <1>1
<1> HIDE DEF t
<1>3. UniqueHandles(t)
  BY <1>1, <1>2 DEF UniqueHandles
<1> QED BY <1>3 DEF t

LEMMA FewerAcked ==
  ASSUME NEW q \in Queues, NEW h
  PROVE  Fewer(unsettled[q], Acked(q, h))
<1>1. CASE Kind = "artemis"
  BY <1>1 DEF Acked, SettledByReceiver, Fewer
<1>2. CASE Kind # "artemis" /\ Holds(q, h)
  BY <1>2, PositionOf DEF Acked, SettledByHandle, Fewer
<1>3. CASE Kind # "artemis" /\ ~Holds(q, h)
  BY <1>3 DEF Acked, Fewer
<1> QED BY <1>1, <1>2, <1>3

(* Deliveries settled, given back or closed: the others keep their handles.      *)
LEMMA HandlesFewer ==
  ASSUME CopiesInv, HandlesInv, conf' = conf, InOrder',
         \A q \in Queues : Fewer(unsettled[q], unsettled'[q]), Fewer(batch, batch'),
         (wpc \notin Resting /\ cur' = cur) \/ wpc' \in Resting,
         unsettled'["work"] = unsettled["work"] \/ wpc' \in Resting \/ CountedOnReceipt
  PROVE  HandlesInv'
<1>1. \A q \in Queues : unsettled[q] \in Seq(Deliveries(q))
  BY DEF CopiesInv, RTypeOK, Fits
<1>2. batch \in Seq(Drawn("dlq"))
  BY DEF CopiesInv, OperatorHolds
<1>3. ASSUME NEW q \in Queues
      PROVE  /\ UniqueHandles(unsettled'[q])
             /\ \A i \in DOMAIN unsettled'[q] : \E j \in DOMAIN unsettled[q] : unsettled'[q][i] = unsettled[q][j]
  BY <1>1, FewerHandles DEF HandlesInv, HandlesUnique
<1>4. /\ UniqueHandles(batch')
      /\ \A i \in DOMAIN batch' : \E j \in DOMAIN batch : batch'[i] = batch[j]
  BY <1>2, FewerHandles DEF HandlesInv, HandlesUnique
<1>5. HandlesUnique'
  BY <1>3, <1>4 DEF HandlesUnique, UniqueHandles
<1>6. WorkerTied'
  BY <1>3 DEF WorkerTied, HandlesInv, Queues
<1>7. BatchTied'
  BY <1>3, <1>4 DEF BatchTied, HandlesInv, Queues
<1>8. WorkerHeld'
  BY DEF WorkerHeld, HandlesInv, Holds, CountedOnReceipt, Kind
<1> QED BY <1>5, <1>6, <1>7, <1>8 DEF HandlesInv

LEMMA OrderFaulty ==
  ASSUME CopiesInv, conf' = conf, Kind # "artemis" \/ faults' = faults + 1
  PROVE  InOrder'
BY DEF CopiesInv, RTypeOK, InOrder, Kind

(* No delivery comes or goes.                                                    *)
LEMMA HandlesStill ==
  ASSUME CopiesInv, HandlesInv, conf' = conf, unsettled' = unsettled, batch' = batch,
         (faults' = faults /\ raising' \in {raising, FALSE}) \/ faults' = faults + 1,
         cur' = cur, wpc' = wpc \/ (wpc \notin Resting /\ wpc' \notin Resting)
  PROVE  HandlesInv'
<1>1. wpc' \in Resting <=> wpc \in Resting
  OBVIOUS
<1>2. CASE faults' = faults /\ raising' \in {raising, FALSE}
  <2>1. wpc' = "dead" => wpc = "dead"
    BY DEF Resting
  <2>2. InOrder'
    BY <1>1, <1>2, <2>1 DEF InOrder, HandlesInv, Kind
  <2> QED BY <1>1, <2>2 DEF HandlesInv, HandlesUnique, WorkerTied, BatchTied, WorkerHeld, Holds,
          CountedOnReceipt, Kind, UniqueHandles
<1>3. CASE faults' = faults + 1
  <2>1. InOrder'
    BY <1>3, OrderFaulty
  <2> QED BY <1>1, <2>1 DEF HandlesInv, HandlesUnique, WorkerTied, BatchTied, WorkerHeld, Holds,
          CountedOnReceipt, Kind, UniqueHandles
<1> QED BY <1>2, <1>3

LEMMA HandlesInit == Init => HandlesInv
<1> SUFFICES ASSUME Init PROVE HandlesInv
  OBVIOUS
<1>1. wpc = "idle" /\ batch = <<>> /\ raising = FALSE /\ unsettled = [q \in Queues |-> <<>>]
  BY DEF Init, BrokerInit
<1>2. HandlesUnique
  BY <1>1 DEF HandlesUnique, UniqueHandles
<1>3. WorkerTied /\ BatchTied /\ WorkerHeld
  BY <1>1 DEF WorkerTied, BatchTied, WorkerHeld, Resting
<1>4. InOrder
  BY <1>1 DEF InOrder, Resting, Queues
<1> QED BY <1>2, <1>3, <1>4 DEF HandlesInv

(* A link receives a delivery.                                                   *)
LEMMA HandlesReceive ==
  ASSUME CopiesInv, HandlesInv, NEW q \in Queues, NEW c, NEW h, Receive(q, c, h),
         \A i \in DOMAIN unsettled[q] : unsettled[q][i].handle # h
  PROVE  /\ \A r \in Queues : UniqueHandles(unsettled'[r])
         /\ \A r \in Queues : r # q => unsettled'[r] = unsettled[r]
         /\ unsettled'[q] = Append(unsettled[q], [handle |-> h, copy |-> Received(c)])
         /\ DOMAIN unsettled'[q] = DOMAIN unsettled[q] \cup {Len(unsettled[q]) + 1}
         /\ DOMAIN unsettled[q] = 1 .. Len(unsettled[q]) /\ Len(unsettled[q]) \in Nat
         /\ Len(unsettled'[q]) = Len(unsettled[q]) + 1
         /\ unsettled'[q][Len(unsettled[q]) + 1] = [handle |-> h, copy |-> Received(c)]
         /\ \A i \in DOMAIN unsettled[q] : unsettled'[q][i] = unsettled[q][i]
<1> DEFINE d == [handle |-> h, copy |-> Received(c)]
<1>1. unsettled[q] \in Seq(Deliveries(q)) /\ unsettled = [r \in Queues |-> unsettled[r]]
  BY DEF CopiesInv, RTypeOK, Fits
<1>2. unsettled' = [unsettled EXCEPT ![q] = Append(unsettled[q], d)]
  BY DEF Receive
<1>3. d.handle = h
  OBVIOUS
<1> HIDE DEF d
<1>4. UniqueHandles(Append(unsettled[q], d))
  BY <1>1, <1>3, FreshTied DEF HandlesInv, HandlesUnique
<1>5. unsettled'[q] = Append(unsettled[q], d) /\ \A r \in Queues : r # q => unsettled'[r] = unsettled[r]
  BY <1>1, <1>2
<1>6. \A r \in Queues : UniqueHandles(unsettled'[r])
  BY <1>4, <1>5 DEF HandlesInv, HandlesUnique
<1> QED BY <1>1, <1>5, <1>6 DEF d

LEMMA HandlesWorkerPop ==
  ASSUME CopiesInv, HandlesInv, conf' = conf, WorkerPop
  PROVE  HandlesInv'
<1>1. PICK c \in BagToSet(ready["work"]) :
        /\ Receive("work", c, NewHandle("work", {}))
        /\ cur' = Taken(NewHandle("work", {}), Received(c))
        /\ wpc' = FirstStep(Destination(Received(c)))
  BY DEF WorkerPop
<1>2. /\ wpc = "idle" /\ wpc' \notin Resting /\ wpc \in Resting /\ UNCHANGED <<batch, raising, opc, faults>>
      /\ "work" \in Queues /\ "dlq" \in Queues
  BY <1>1 DEF WorkerPop, operator, FirstStep, Resting, Queues
<1> DEFINE h == NewHandle("work", {})
           u == unsettled["work"]
<1>3. \A i \in DOMAIN u : u[i].handle # h
  <2>1. u \in Seq(Deliveries("work"))
    BY <1>2 DEF CopiesInv, RTypeOK, Fits
  <2>2. DOMAIN u = 1 .. Len(u) /\ Len(u) \in Nat
    BY <2>1
  <2>3. IsFiniteSet({})
    BY FS_EmptySet
  <2> QED BY <1>2, <2>2, <2>3, FreshHandle
<1> HIDE DEF h
<1>4. /\ \A r \in Queues : UniqueHandles(unsettled'[r])
      /\ unsettled'["dlq"] = unsettled["dlq"]
      /\ DOMAIN unsettled'["work"] = DOMAIN u \cup {Len(u) + 1}
      /\ DOMAIN u = 1 .. Len(u) /\ Len(u) \in Nat
      /\ Len(unsettled'["work"]) = Len(u) + 1
      /\ unsettled'["work"][Len(u) + 1] = [handle |-> h, copy |-> Received(c)]
      /\ \A i \in DOMAIN u : unsettled'["work"][i] = u[i]
  BY <1>1, <1>2, <1>3, HandlesReceive DEF h
<1>5. cur'.handle = h /\ cur'.copy = Received(c)
  BY <1>1 DEF Taken, h
<1>6. HandlesUnique'
  BY <1>2, <1>4 DEF HandlesUnique, UniqueHandles, HandlesInv
<1>7. WorkerTied'
  BY <1>3, <1>4, <1>5 DEF WorkerTied
<1>8. BatchTied'
  BY <1>2, <1>4 DEF BatchTied, HandlesInv
<1>9. WorkerHeld'
  BY <1>4, <1>5 DEF WorkerHeld, Holds
<1>10. InOrder'
  <2> SUFFICES ASSUME Kind = "artemis", faults = 0
               PROVE  InOrder'
    BY <1>2 DEF InOrder, Kind
  <2>1. u = <<>>
    BY <1>2 DEF HandlesInv, InOrder
  <2>2. Len(u) = 0 /\ DOMAIN u = {}
    BY <2>1
  <2>3. DOMAIN unsettled'["work"] = {1} /\ unsettled'["work"][1].handle = cur'.handle
    BY <1>4, <1>5, <2>2
  <2> QED BY <1>2, <1>4, <2>3 DEF HandlesInv, InOrder, Resting
<1> QED BY <1>6, <1>7, <1>8, <1>9, <1>10 DEF HandlesInv

(* The drain gives a delivery a handle that neither the link nor the batch has.  *)
LEMMA FreshInDrain ==
  ASSUME CopiesInv, NEW h, h = NewHandle("dlq", {batch[i].handle : i \in DOMAIN batch})
  PROVE  /\ \A i \in DOMAIN unsettled["dlq"] : unsettled["dlq"][i].handle # h
         /\ \A i \in DOMAIN batch : batch[i].handle # h
<1> DEFINE inUse == {batch[i].handle : i \in DOMAIN batch}
<1>1. "dlq" \in Queues
  BY DEF Queues
<1>2. batch \in Seq(Drawn("dlq")) /\ unsettled["dlq"] \in Seq(Deliveries("dlq"))
  BY <1>1 DEF CopiesInv, OperatorHolds, RTypeOK, Fits
<1>3. /\ DOMAIN unsettled["dlq"] = 1 .. Len(unsettled["dlq"]) /\ Len(unsettled["dlq"]) \in Nat
      /\ DOMAIN batch = 1 .. Len(batch) /\ Len(batch) \in Nat
  BY <1>2
<1>4. IsFiniteSet(inUse)
  <2> DEFINE f == [i \in DOMAIN batch |-> batch[i].handle]
  <2>1. f \in Surjection(DOMAIN batch, inUse)
    BY DEF Surjection
  <2>2. IsFiniteSet(DOMAIN batch)
    BY <1>3, FS_Interval
  <2> QED BY <2>1, <2>2, FS_Surjection
<1>5. \A i \in DOMAIN batch : batch[i].handle \in inUse
  OBVIOUS
<1>6. h = NewHandle("dlq", inUse)
  OBVIOUS
<1> HIDE DEF inUse
<1>7. h \notin inUse /\ \A i \in DOMAIN unsettled["dlq"] : unsettled["dlq"][i].handle # h
  BY <1>1, <1>3, <1>4, <1>6, FreshHandle
<1> QED BY <1>5, <1>7

LEMMA HandlesDrainOne ==
  ASSUME CopiesInv, HandlesInv, conf' = conf, DrainOne
  PROVE  HandlesInv'
<1> DEFINE h == NewHandle("dlq", {batch[i].handle : i \in DOMAIN batch})
           u == unsettled["dlq"]
<1>1. PICK c \in BagToSet(ready["dlq"]) :
        Receive("dlq", c, h) /\ batch' = Append(batch, Taken(h, Received(c)))
  BY DEF DrainOne
<1>2. /\ UNCHANGED <<wpc, cur, raising, opc, faults>>
      /\ "work" \in Queues /\ "dlq" \in Queues
  BY DEF DrainOne, worker, Queues
<1>3. batch \in Seq(Drawn("dlq")) /\ u \in Seq(Deliveries("dlq"))
  BY <1>2 DEF CopiesInv, OperatorHolds, RTypeOK, Fits
<1>4. /\ DOMAIN u = 1 .. Len(u) /\ Len(u) \in Nat
      /\ DOMAIN batch = 1 .. Len(batch) /\ Len(batch) \in Nat
  BY <1>3
<1>5. /\ \A i \in DOMAIN u : u[i].handle # h
      /\ \A i \in DOMAIN batch : batch[i].handle # h
  BY FreshInDrain
<1> HIDE DEF h
<1> DEFINE d == Taken(h, Received(c))
<1>6. /\ \A r \in Queues : UniqueHandles(unsettled'[r])
      /\ unsettled'["work"] = unsettled["work"]
      /\ DOMAIN unsettled'["dlq"] = DOMAIN u \cup {Len(u) + 1}
      /\ Len(unsettled'["dlq"]) = Len(u) + 1
      /\ unsettled'["dlq"][Len(u) + 1] = [handle |-> h, copy |-> Received(c)]
      /\ \A i \in DOMAIN u : unsettled'["dlq"][i] = u[i]
  BY <1>1, <1>2, <1>5, HandlesReceive
<1>7. d.handle = h /\ d.copy = Received(c)
  BY DEF Taken
<1> HIDE DEF d
<1>8. /\ DOMAIN batch' = DOMAIN batch \cup {Len(batch) + 1} /\ Len(batch') = Len(batch) + 1
      /\ batch'[Len(batch) + 1] = d /\ \A i \in DOMAIN batch : batch'[i] = batch[i]
      /\ UniqueHandles(batch')
  <2>1. UniqueHandles(Append(batch, d))
    BY <1>3, <1>5, <1>7, FreshTied DEF HandlesInv, HandlesUnique
  <2> QED BY <1>1, <1>3, <1>4, <2>1 DEF d
<1>9. HandlesUnique'
  BY <1>6, <1>8 DEF HandlesUnique, UniqueHandles
<1>10. WorkerTied'
  BY <1>2, <1>6 DEF WorkerTied, HandlesInv
<1>11. BatchTied'
  <2> SUFFICES ASSUME NEW k \in DOMAIN batch', NEW i \in DOMAIN unsettled'["dlq"],
                      unsettled'["dlq"][i].handle = batch'[k].handle
               PROVE  unsettled'["dlq"][i].copy = batch'[k].copy
    BY DEF BatchTied
  <2>1. CASE k \in DOMAIN batch /\ i \in DOMAIN u
    BY <1>6, <1>8, <2>1 DEF BatchTied, HandlesInv
  <2>2. CASE k \in DOMAIN batch /\ i = Len(u) + 1
    BY <1>5, <1>6, <1>8, <2>2
  <2>3. CASE k = Len(batch) + 1 /\ i \in DOMAIN u
    BY <1>5, <1>6, <1>7, <1>8, <2>3
  <2>4. CASE k = Len(batch) + 1 /\ i = Len(u) + 1
    BY <1>6, <1>7, <1>8, <2>4
  <2> QED BY <1>6, <1>8, <2>1, <2>2, <2>3, <2>4
<1>12. WorkerHeld'
  BY <1>2, <1>6 DEF WorkerHeld, Holds, HandlesInv, CountedOnReceipt, Kind
<1>13. InOrder'
  <2> SUFFICES ASSUME Kind = "artemis", faults = 0
               PROVE  InOrder'
    BY <1>2 DEF InOrder, Kind
  <2>1. Len(u) = Len(batch) /\ \A i \in DOMAIN batch : u[i].handle = batch[i].handle
    BY DEF HandlesInv, InOrder
  <2>2. /\ Len(unsettled'["dlq"]) = Len(batch')
        /\ \A i \in DOMAIN batch' : unsettled'["dlq"][i].handle = batch'[i].handle
    BY <1>4, <1>6, <1>7, <1>8, <2>1
  <2> QED BY <1>2, <1>6, <2>2 DEF HandlesInv, InOrder
<1> QED BY <1>9, <1>10, <1>11, <1>12, <1>13 DEF HandlesInv

(* The worker goes on without touching a delivery.                               *)
LEMMA HandlesWorkerGoesOn ==
  ASSUME CopiesInv, HandlesInv, conf' = conf,
         HandlerReturns \/ HandlerRaises \/ ShutdownRelease \/ Retry \/ ReleaseByCopy \/ WriteDeadLetter
  PROVE  HandlesInv'
<1>1. /\ UNCHANGED <<unsettled, cur, faults>> /\ UNCHANGED operator
      /\ wpc \notin Resting
  BY DEF HandlerReturns, HandlerRaises, ShutdownRelease, Retry, ReleaseByCopy, WriteDeadLetter,
         Resting, broker
<1>2. wpc' \notin Resting
  BY DEF HandlerReturns, HandlerRaises, ShutdownRelease, Retry, ReleaseByCopy, WriteDeadLetter, Resting
<1>3. batch' = batch /\ raising' = raising
  BY <1>1 DEF operator
<1> QED BY <1>1, <1>2, <1>3, HandlesStill

(* Giving back or acknowledging a delivery of q leaves fewer.                    *)
LEMMA FewerGivenBack ==
  ASSUME CopiesInv, NEW q \in Queues, NEW h, Holds(q, h), NEW d, GiveBack(q, h, d)
  PROVE  \A r \in Queues : Fewer(unsettled[r], unsettled'[r]) /\ (r # q => unsettled'[r] = unsettled[r])
<1>1. /\ unsettled = [r \in Queues |-> unsettled[r]]
      /\ unsettled' = [unsettled EXCEPT ![q] = RemoveAt(unsettled[q], Position(q, h))]
  BY DEF GiveBack, SettledByHandle, CopiesInv, RTypeOK, Fits
<1>2. Fewer(unsettled[q], RemoveAt(unsettled[q], Position(q, h)))
  BY PositionOf DEF Fewer
<1>3. \A r \in Queues : Fewer(unsettled[r], unsettled[r])
  BY DEF Fewer
<1> QED BY <1>1, <1>2, <1>3

LEMMA FewerAfterAck ==
  ASSUME CopiesInv, NEW q \in Queues, NEW h, Ack(q, h)
  PROVE  \A r \in Queues : Fewer(unsettled[r], unsettled'[r]) /\ (r # q => unsettled'[r] = unsettled[r])
<1>1. /\ unsettled = [r \in Queues |-> unsettled[r]]
      /\ unsettled' = [unsettled EXCEPT ![q] = Acked(q, h)]
  BY DEF Ack, CopiesInv, RTypeOK, Fits
<1>2. Fewer(unsettled[q], Acked(q, h))
  BY FewerAcked
<1>3. \A r \in Queues : Fewer(unsettled[r], unsettled[r])
  BY DEF Fewer
<1> QED BY <1>1, <1>2, <1>3

LEMMA FewerClosed ==
  ASSUME CopiesInv, NEW q \in Queues, Close(q)
  PROVE  \A r \in Queues : Fewer(unsettled[r], unsettled'[r]) /\ (r # q => unsettled'[r] = unsettled[r])
<1>1. /\ unsettled = [r \in Queues |-> unsettled[r]]
      /\ unsettled' = [unsettled EXCEPT ![q] = <<>>]
  BY DEF Close, CopiesInv, RTypeOK, Fits
<1> QED BY <1>1 DEF Fewer

LEMMA FewerSame ==
  ASSUME unsettled' = unsettled
  PROVE  \A r \in Queues : Fewer(unsettled[r], unsettled'[r])
BY DEF Fewer

LEMMA HandlesReleaseNatively ==
  ASSUME CopiesInv, HandlesInv, conf' = conf, ReleaseNatively
  PROVE  HandlesInv'
<1>1. Kind = "sqs" /\ wpc' \in Resting /\ batch' = batch /\ "work" \in Queues
  BY DEF ReleaseNatively, Idle, Resting, operator, Queues
<1>2. \A r \in Queues : Fewer(unsettled[r], unsettled'[r])
  <2>1. CASE Holds("work", cur.handle)
    <3>1. PICK d : GiveBack("work", cur.handle, d)
      BY <2>1 DEF ReleaseNatively, ChangeVisibility
    <3> QED BY <1>1, <2>1, <3>1, FewerGivenBack
  <2>2. CASE ~Holds("work", cur.handle)
    BY <2>2, FewerSame DEF ReleaseNatively, ChangeVisibility, broker
  <2> QED BY <2>1, <2>2
<1>3. InOrder'
  BY <1>1, OrderFaulty
<1>4. Fewer(batch, batch')
  BY <1>1 DEF Fewer
<1> QED BY <1>1, <1>2, <1>3, <1>4, HandlesFewer

LEMMA HandlesWriteFails ==
  ASSUME CopiesInv, HandlesInv, conf' = conf, ReleaseFails \/ DeadLetterFails
  PROVE  HandlesInv'
<1>1. /\ unsettled' = unsettled /\ batch' = batch /\ faults' = faults + 1 /\ wpc \notin Resting
  BY DEF ReleaseFails, DeadLetterFails, Resting, Fault, broker, operator
<1>2. cur' = cur \/ wpc' \in Resting
  BY DEF ReleaseFails, DeadLetterFails, Idle, Resting
<1>3. InOrder'
  BY <1>1, OrderFaulty
<1>4. Fewer(batch, batch')
  BY <1>1 DEF Fewer
<1> QED BY <1>1, <1>2, <1>3, <1>4, FewerSame, HandlesFewer

LEMMA HandlesGiveUp ==
  ASSUME CopiesInv, HandlesInv, conf' = conf, GiveUp
  PROVE  HandlesInv'
<1>1. wpc \notin Resting /\ wpc' \in Resting /\ batch' = batch /\ "work" \in Queues
  BY DEF GiveUp, Idle, Resting, operator, Queues
<1>2. Kind # "artemis" \/ faults' = faults + 1
  BY DEF GiveUp, Fault, CopiesInv, WorkerHolds
<1>3. \A r \in Queues : Fewer(unsettled[r], unsettled'[r])
  <2>1. CASE wpc = "rewind" /\ NegativeAcknowledge(cur.handle)
    <3>1. Holds("work", cur.handle)
      BY <1>1, <2>1 DEF HandlesInv, WorkerHeld, CountedOnReceipt, CopiesInv, WorkerHolds
    <3>2. PICK d : GiveBack("work", cur.handle, d)
      BY <2>1 DEF NegativeAcknowledge
    <3> QED BY <1>1, <3>1, <3>2, FewerGivenBack
  <2>2. CASE Abandon(cur.handle)
    <3>1. CASE Holds("work", cur.handle)
      <4>1. PICK d : GiveBack("work", cur.handle, d)
        BY <2>2, <3>1 DEF Abandon
      <4> QED BY <1>1, <3>1, <4>1, FewerGivenBack
    <3>2. CASE ~Holds("work", cur.handle)
      BY <2>2, <3>2, FewerSame DEF Abandon, broker
    <3> QED BY <3>1, <3>2
  <2>3. CASE UNCHANGED broker
    BY <2>3, FewerSame DEF broker
  <2> QED BY <2>1, <2>2, <2>3 DEF GiveUp
<1>4. InOrder'
  BY <1>2, OrderFaulty
<1>5. Fewer(batch, batch')
  BY <1>1 DEF Fewer
<1> QED BY <1>1, <1>3, <1>4, <1>5, HandlesFewer

LEMMA HandlesSettleNative ==
  ASSUME CopiesInv, HandlesInv, conf' = conf, SettleNative
  PROVE  HandlesInv'
<1>1. /\ wpc' \in Resting /\ batch' = batch /\ "work" \in Queues /\ Kind # "artemis"
  BY DEF SettleNative, Idle, Resting, operator, Queues
<1>2. unsettled' = unsettled \/ Ack("work", cur.handle)
  BY DEF SettleNative, SqsSettleNative, AsbSettleNative, broker
<1>3. \A r \in Queues : Fewer(unsettled[r], unsettled'[r])
  BY <1>1, <1>2, FewerSame, FewerAfterAck
<1>4. InOrder'
  BY <1>1, OrderFaulty
<1>5. Fewer(batch, batch')
  BY <1>1 DEF Fewer
<1> QED BY <1>1, <1>3, <1>4, <1>5, HandlesFewer

LEMMA HandlesAckSettled ==
  ASSUME CopiesInv, HandlesInv, conf' = conf, AckSettled
  PROVE  HandlesInv'
<1>1. /\ wpc' = "idle" /\ wpc' \in Resting /\ wpc \notin Resting /\ batch' = batch /\ raising' = raising
      /\ "work" \in Queues /\ "dlq" \in Queues
  BY DEF AckSettled, Idle, Resting, operator, Queues
<1>2. \/ Ack("work", cur.handle) /\ faults' = faults
      \/ unsettled' = unsettled /\ faults' = faults /\ Kind = "asb"
      \/ unsettled' = unsettled /\ faults' = faults + 1
  BY DEF AckSettled, AckRefused, Fault
<1>3. \A r \in Queues : Fewer(unsettled[r], unsettled'[r])
  BY <1>1, <1>2, FewerSame, FewerAfterAck
<1>4. InOrder'
  <2>1. CASE Kind # "artemis" \/ faults' = faults + 1
    BY <2>1, OrderFaulty
  <2>2. CASE Kind = "artemis" /\ faults' = faults
    <3> SUFFICES ASSUME faults = 0
                 PROVE  InOrder'
      BY <2>2 DEF InOrder, Kind
    <3>1. Ack("work", cur.handle)
      BY <1>2, <2>2 DEF CopiesInv, RTypeOK
    <3>2. unsettled["work"] # <<>> /\ unsettled["work"] \in Seq(Deliveries("work"))
      BY <1>1, <2>2 DEF HandlesInv, InOrder, CopiesInv, RTypeOK, Fits
    <3>3. Len(unsettled["work"]) = 1
      <4>1. \A i \in 1 .. Len(unsettled["work"]) : i = 1
        BY <2>2, <3>2 DEF HandlesInv, InOrder
      <4>2. Len(unsettled["work"]) \in Nat /\ Len(unsettled["work"]) # 0
        BY <3>2
      <4>3. Len(unsettled["work"]) \in 1 .. Len(unsettled["work"])
        BY <4>2
      <4> QED BY <4>1, <4>3
    <3>4. unsettled' = [unsettled EXCEPT !["work"] = Tail(unsettled["work"])]
      BY <2>2, <3>1, <3>2 DEF Ack, Acked, SettledByReceiver
    <3>5. unsettled'["work"] = <<>> /\ unsettled'["dlq"] = unsettled["dlq"]
      <4>1. Tail(unsettled["work"]) = <<>>
        BY <3>2, <3>3, LastOne
      <4> QED BY <1>1, <3>4, <4>1 DEF CopiesInv, RTypeOK, Fits
    <3> QED BY <1>1, <2>2, <3>5 DEF HandlesInv, InOrder, Kind
  <2> QED BY <1>2, <2>1, <2>2
<1>5. Fewer(batch, batch')
  BY <1>1 DEF Fewer
<1> QED BY <1>1, <1>3, <1>4, <1>5, HandlesFewer

LEMMA HandlesWorkerStops ==
  ASSUME CopiesInv, HandlesInv, conf' = conf, WorkerCrash \/ WorkerExit
  PROVE  HandlesInv'
<1>1. /\ wpc' \in Resting /\ batch' = batch /\ "work" \in Queues /\ Close("work")
  BY DEF WorkerCrash, WorkerExit, Idle, Resting, operator, Queues
<1>2. \A r \in Queues : Fewer(unsettled[r], unsettled'[r])
  BY <1>1, FewerClosed
<1>3. InOrder'
  <2>1. CASE WorkerCrash
    BY <2>1, OrderFaulty DEF WorkerCrash, Fault
  <2>2. CASE WorkerExit
    <3>1. ~(Kind = "artemis" /\ faults = 0)
      BY <2>2 DEF WorkerExit, HandlesInv, InOrder, Resting
    <3> QED BY <2>2, <3>1 DEF WorkerExit, InOrder, Kind
  <2> QED BY <2>1, <2>2
<1>4. Fewer(batch, batch')
  BY <1>1 DEF Fewer
<1> QED BY <1>1, <1>2, <1>3, <1>4, HandlesFewer

(* redrive() goes on without touching a delivery.                                *)
LEMMA HandlesOperatorGoesOn ==
  ASSUME CopiesInv, HandlesInv, conf' = conf,
         \/ StartRedrive \/ Drained \/ ChooseItem \/ RepublishFails \/ Restore \/ Republish
  PROVE  HandlesInv'
<1>1. unsettled' = unsettled /\ UNCHANGED worker
  BY DEF StartRedrive, Drained, ChooseItem, RepublishFails, Restore, Republish, broker
<1>2. batch' = batch
  BY DEF StartRedrive, Drained, ChooseItem, RepublishFails, Restore, Republish, Stop
<1>3. (faults' = faults /\ raising' \in {raising, FALSE}) \/ faults' = faults + 1
  BY DEF StartRedrive, Drained, ChooseItem, RepublishFails, Restore, Republish, Stop, Fault
<1>4. cur' = cur /\ wpc' = wpc
  BY <1>1 DEF worker
<1> QED BY <1>1, <1>2, <1>3, <1>4, HandlesStill

LEMMA HandlesAckItem ==
  ASSUME CopiesInv, HandlesInv, conf' = conf, AckItem
  PROVE  HandlesInv'
<1>1. /\ Ack("dlq", Item.handle) /\ UNCHANGED <<wpc, cur, faults>> /\ "dlq" \in Queues /\ "work" \in Queues
      /\ opc = "ack" /\ batch # <<>>
  BY DEF AckItem, ItemSettled, worker, Queues, CopiesInv, OperatorHolds
<1>2. \A r \in Queues : Fewer(unsettled[r], unsettled'[r]) /\ (r # "dlq" => unsettled'[r] = unsettled[r])
  BY <1>1, FewerAfterAck
<1>3. \/ batch' = <<>> /\ raising' = FALSE /\ (raising \/ Tail(batch) = <<>>)
      \/ batch' = Tail(batch) /\ raising' = raising
  BY DEF AckItem, Stop
<1>4. Fewer(batch, batch')
  BY <1>1, <1>3 DEF Fewer
<1>5. InOrder'
  <2> SUFFICES ASSUME Kind = "artemis", faults = 0
               PROVE  InOrder'
    BY <1>1 DEF InOrder, Kind
  <2> DEFINE u == unsettled["dlq"]
  <2>1. u \in Seq(Deliveries("dlq")) /\ batch \in Seq(Drawn("dlq"))
    BY <1>1 DEF CopiesInv, RTypeOK, Fits, OperatorHolds
  <2>2. /\ Len(u) = Len(batch) /\ \A i \in DOMAIN batch : u[i].handle = batch[i].handle
        /\ ~raising
    BY DEF HandlesInv, InOrder
  <2>3. u # <<>>
    BY <1>1, <2>1, <2>2
  <2>4. unsettled'["dlq"] = Tail(u)
    <3>1. unsettled' = [unsettled EXCEPT !["dlq"] = Tail(u)]
      BY <1>1, <2>3 DEF Ack, Acked, SettledByReceiver
    <3> QED BY <1>1, <3>1 DEF CopiesInv, RTypeOK, Fits
  <2>5. batch' = Tail(batch) /\ ~raising'
    <3>1. CASE batch' = <<>> /\ raising' = FALSE /\ (raising \/ Tail(batch) = <<>>)
      BY <2>2, <3>1
    <3>2. CASE batch' = Tail(batch) /\ raising' = raising
      BY <2>2, <3>2
    <3> QED BY <1>3, <3>1, <3>2
  <2> HIDE DEF u
  <2>6. /\ Len(Tail(u)) = Len(Tail(batch))
        /\ \A i \in DOMAIN Tail(batch) : Tail(u)[i].handle = Tail(batch)[i].handle
    <3>1. \A i \in DOMAIN Tail(batch) : /\ Tail(batch)[i] = batch[i + 1] /\ Tail(u)[i] = u[i + 1]
                                        /\ i + 1 \in DOMAIN batch
      BY <1>1, <2>1, <2>2, <2>3
    <3>2. Len(Tail(u)) = Len(u) - 1 /\ Len(Tail(batch)) = Len(batch) - 1
      BY <1>1, <2>1, <2>3
    <3> QED BY <2>2, <3>1, <3>2
  <2>7. unsettled'["work"] = unsettled["work"]
    BY <1>1, <1>2
  <2> QED BY <1>1, <2>4, <2>5, <2>6, <2>7 DEF HandlesInv, InOrder
<1>6. unsettled'["work"] = unsettled["work"]
  BY <1>1, <1>2
<1>7. (wpc \notin Resting /\ cur' = cur) \/ wpc' \in Resting
  BY <1>1
<1> QED BY <1>2, <1>4, <1>5, <1>6, <1>7, HandlesFewer

LEMMA HandlesRedriveRaises ==
  ASSUME CopiesInv, HandlesInv, conf' = conf, RedriveRaises
  PROVE  HandlesInv'
<1>1. unsettled' = unsettled /\ cur' = cur /\ wpc' = wpc /\ batch' = <<>>
  BY DEF RedriveRaises, Stop, broker, worker
<1>2. Kind # "artemis" \/ faults' = faults + 1
  BY DEF RedriveRaises, AckRefused, Fault
<1>3. InOrder'
  BY <1>2, OrderFaulty
<1>4. Fewer(batch, batch')
  BY <1>1 DEF Fewer
<1> QED BY <1>1, <1>3, <1>4, FewerSame, HandlesFewer

LEMMA HandlesOperatorStops ==
  ASSUME CopiesInv, HandlesInv, conf' = conf, OperatorCrash \/ OperatorExit
  PROVE  HandlesInv'
<1>1. /\ Close("dlq") /\ "dlq" \in Queues /\ "work" \in Queues /\ cur' = cur /\ wpc' = wpc
  BY DEF OperatorCrash, OperatorExit, worker, Queues
<1>2. \A r \in Queues : Fewer(unsettled[r], unsettled'[r]) /\ (r # "dlq" => unsettled'[r] = unsettled[r])
  BY <1>1, FewerClosed
<1>3. Fewer(batch, batch')
  BY DEF OperatorCrash, OperatorExit, Stop, operator, Fewer
<1>4. InOrder'
  <2>1. CASE OperatorCrash
    BY <2>1, OrderFaulty DEF OperatorCrash, Fault
  <2>2. CASE OperatorExit
    <3>1. ~(Kind = "artemis" /\ faults = 0)
      <4> SUFFICES ASSUME Kind = "artemis", faults = 0 PROVE FALSE
        OBVIOUS
      <4>1. opc = "off" /\ unsettled["dlq"] # <<>>
        BY <2>2 DEF OperatorExit
      <4>2. batch = <<>>
        BY <4>1 DEF CopiesInv, OperatorHolds
      <4>3. Len(unsettled["dlq"]) = Len(batch)
        BY DEF HandlesInv, InOrder
      <4>4. unsettled["dlq"] \in Seq(Deliveries("dlq"))
        BY <1>1 DEF CopiesInv, RTypeOK, Fits
      <4> QED BY <4>1, <4>2, <4>3, <4>4
    <3> QED BY <2>2, <3>1 DEF OperatorExit, InOrder, Kind
  <2> QED BY <2>1, <2>2
<1>5. unsettled'["work"] = unsettled["work"]
  BY <1>1, <1>2
<1> QED BY <1>1, <1>2, <1>3, <1>4, <1>5, HandlesFewer

LEMMA HandlesLapses ==
  ASSUME CopiesInv, HandlesInv, conf' = conf, Lapses
  PROVE  HandlesInv'
<1>1. PICK q \in Queues : Lapse(q)
  BY DEF Lapses
<1>2. /\ CountedOnReceipt
      /\ \E i \in DOMAIN unsettled[q] : GiveBack(q, unsettled[q][i].handle, unsettled[q][i].copy)
  BY <1>1 DEF Lapse
<1>3. PICK i \in DOMAIN unsettled[q] : GiveBack(q, unsettled[q][i].handle, unsettled[q][i].copy)
  BY <1>2
<1>4. Holds(q, unsettled[q][i].handle)
  BY DEF Holds
<1>5. \A r \in Queues : Fewer(unsettled[r], unsettled'[r])
  BY <1>3, <1>4, FewerGivenBack
<1>6. cur' = cur /\ wpc' = wpc /\ batch' = batch /\ Kind # "artemis"
  BY <1>2 DEF Lapses, worker, operator, CountedOnReceipt
<1>7. InOrder'
  BY <1>6, OrderFaulty
<1>8. Fewer(batch, batch')
  BY <1>6 DEF Fewer
<1> QED BY <1>2, <1>5, <1>6, <1>7, <1>8, HandlesFewer

LEMMA HandlesNext ==
  ASSUME CopiesInv, HandlesInv, [Next]_vars
  PROVE  HandlesInv'
<1>1. CASE conf' = conf /\ unsettled' = unsettled /\ UNCHANGED worker /\ UNCHANGED operator /\ faults' = faults
  BY <1>1, HandlesStill DEF worker, operator
<1>2. CASE UNCHANGED vars \/ Quiet
  BY <1>1, <1>2 DEF vars, broker, Quiet
<1>3. CASE Worker /\ conf' = conf
  BY <1>3, HandlesWorkerPop, HandlesWorkerGoesOn, HandlesReleaseNatively, HandlesWriteFails,
     HandlesGiveUp, HandlesSettleNative, HandlesAckSettled, HandlesWorkerStops DEF Worker
<1>4. CASE Operator /\ conf' = conf
  BY <1>4, HandlesOperatorGoesOn, HandlesDrainOne, HandlesAckItem, HandlesRedriveRaises,
     HandlesOperatorStops DEF Operator
<1>5. CASE Lapses /\ conf' = conf
  BY <1>5, HandlesLapses
<1>6. CASE RedrivePolicy /\ conf' = conf
  BY <1>1, <1>6 DEF RedrivePolicy
<1> QED BY <1>2, <1>3, <1>4, <1>5, <1>6 DEF Next

-----------------------------------------------------------------------------
(* What holds in every behaviour                                                 *)

LEMMA FitAndTied == Spec => [](CopiesInv /\ HandlesInv)
<1>1. Init => CopiesInv /\ HandlesInv
  BY CopiesInit, HandlesInit
<1>2. CopiesInv /\ HandlesInv /\ [Next]_vars => (CopiesInv /\ HandlesInv)'
  BY CopiesNext, HandlesNext
<1> QED BY <1>1, <1>2, PTL DEF Spec

(* Every copy in a queue and every delivery a link holds has a body, properties  *)
(* and counters the transport could have written, and each process is at a step  *)
(* that its kind of broker and its configuration have.                           *)
THEOREM RedriveTyped == Spec => []RTypeOK
<1>1. CopiesInv => RTypeOK
  BY DEF CopiesInv
<1> QED BY <1>1, FitAndTied, PTL

(* The counter dispatch() decides by lies between the failures recorded for the  *)
(* delivery and the deliveries made, for every transport, every class of message *)
(* and any number of retries, releases, lapses, crashes and redrives: what       *)
(* _reconcile() of the transports promises.                                      *)
THEOREM CountsAreHonest == Spec => []CountsHonest
<1>1. CopiesInv => CountsHonest
  <2> SUFFICES ASSUME CopiesInv, cur # None
               PROVE  cur.copy.recorded <= cur.attempts /\ cur.attempts < cur.copy.received
    BY DEF CountsHonest
  <2>1. wpc \notin Resting
    BY DEF CopiesInv, WorkerHolds
  <2>2. cur.copy \in Out("work") /\ cur.attempts = Popped(cur.copy).attempts
    BY <2>1, WorkerHolding
  <2> QED BY <2>2, CountsOfOut DEF CopiesInv, RTypeOK, Queues
<1> QED BY <1>1, FitAndTied, PTL

(* A message the worker takes goes where it first went, the version gate, the    *)
(* poison path or the same handler, however often it was retried, released,      *)
(* dead-lettered and redriven: publish_keeping_route() and _publish_redriven()   *)
(* rewrite the properties the gate and the router read. Only an operator lifts   *)
(* the gate, and not on Pulsar, which pins the properties.                       *)
THEOREM RoutesStay == Spec => []RouteStays
<1>1. CopiesInv => RouteStays
  <2> SUFFICES ASSUME CopiesInv, cur # None
               PROVE  \/ Destination(cur.copy) = FirstDestination(Msg)
                      \/ Kind # "pulsar" /\ Class(Msg) = "gated" /\ Msg \in redriven
    BY DEF RouteStays
  <2>1. wpc \notin Resting
    BY DEF CopiesInv, WorkerHolds
  <2>2. cur.copy \in Out("work")
    BY <2>1, WorkerHolding
  <2>3. Routed("work", cur.copy)
    BY <2>2 DEF Out, Copied
  <2> QED BY <2>3 DEF Routed, Msg
<1> QED BY <1>1, FitAndTied, PTL

-----------------------------------------------------------------------------
(* Counting the copies of a message                                              *)

(* The worker is about to settle a delivery whose message lives on in the copy   *)
(* just written; or it works on one that the broker took back meanwhile.         *)
WorkerSettles(m) == IF wpc = "settle" /\ Msg = m THEN 1 ELSE 0
WorkerAdrift(m)  == IF wpc \notin Resting /\ Msg = m /\ ~Holds("work", cur.handle) THEN 1 ELSE 0

(* The same of the operator, which may hold many.                                *)
OperatorSettles(m) == IF opc = "ack" /\ Item.copy.msg = m THEN 1 ELSE 0
AdriftItems(m) == {i \in DOMAIN batch : batch[i].copy.msg = m /\ ~Holds("dlq", batch[i].handle)}

(* A copy written is one too many until the delivery it stands for is settled.   *)
WorkerSpare(m) == IF wpc = "settle" /\ Msg = m /\ Holds("work", cur.handle) THEN 1 ELSE 0
OperatorSpare(m) ==
  IF opc = "ack" /\ Item.copy.msg = m /\ Holds("dlq", Item.handle) THEN 1 ELSE 0

Kept(m) == Copies(m) + ends[m] >= 1 + WorkerSpare(m) + OperatorSpare(m)

(* A delivery adrift will be written once more, for the fault that set it adrift. *)
Caused(m) ==
  Copies(m) + ends[m] + WorkerAdrift(m) + Cardinality(AdriftItems(m))
    <= 1 + faults + WorkerSettles(m) + OperatorSettles(m)

Countable(m) == \A q \in Queues : IsFiniteSet(Stored(q, m))

Stock(m) == Countable(m) /\ (AcksMatch => Kept(m) /\ Caused(m))

StockInv == \A m \in Messages : Stock(m)

(* The copies of m in bag B, equal ones told apart.                              *)
Units(B, m) == UNION {{c} \X (1 .. B[c]) : c \in {d \in DOMAIN B : d.msg = m}}

LEMMA UnitsAre ==
  ASSUME NEW B, NEW m
  PROVE  /\ \A c, n : <<c, n>> \in Units(B, m) <=> c \in DOMAIN B /\ c.msg = m /\ n \in 1 .. B[c]
         /\ \A x \in Units(B, m) : \E c \in DOMAIN B : \E n \in 1 .. B[c] : x = <<c, n>> /\ c.msg = m
<1>1. ASSUME NEW x \in Units(B, m)
      PROVE  \E c \in DOMAIN B : \E n \in 1 .. B[c] : x = <<c, n>> /\ c.msg = m
  <2>1. PICK c \in {d \in DOMAIN B : d.msg = m} : x \in {c} \X (1 .. B[c])
    BY DEF Units
  <2>2. x = <<x[1], x[2]>> /\ x[1] = c /\ x[2] \in 1 .. B[c]
    BY <2>1
  <2> QED BY <2>1, <2>2
<1>2. ASSUME NEW c, NEW n, c \in DOMAIN B, c.msg = m, n \in 1 .. B[c]
      PROVE  <<c, n>> \in Units(B, m)
  <2>1. <<c, n>> \in {c} \X (1 .. B[c])
    BY <1>2
  <2> QED BY <1>2, <2>1 DEF Units
<1>3. ASSUME NEW c, NEW n, <<c, n>> \in Units(B, m)
      PROVE  c \in DOMAIN B /\ c.msg = m /\ n \in 1 .. B[c]
  <2>1. PICK d \in DOMAIN B : \E k \in 1 .. B[d] : <<c, n>> = <<d, k>> /\ d.msg = m
    BY <1>1, <1>3
  <2>2. PICK k \in 1 .. B[d] : <<c, n>> = <<d, k>> /\ d.msg = m
    BY <2>1
  <2> QED BY <2>2
<1> QED BY <1>1, <1>2, <1>3

LEMMA UnitsAdded ==
  ASSUME NEW S, NEW B, BagOf(B, S), NEW x \in S, NEW m, IsFiniteSet(Units(B, m))
  PROVE  /\ IsFiniteSet(Units(B (+) SetToBag({x}), m))
         /\ Cardinality(Units(B (+) SetToBag({x}), m)) =
              Cardinality(Units(B, m)) + IF x.msg = m THEN 1 ELSE 0
<1> DEFINE A == B (+) SetToBag({x})
           n == IF x \in DOMAIN B THEN B[x] ELSE 0
<1>1. /\ DOMAIN A = DOMAIN B \cup {x} /\ A[x] = n + 1
      /\ \A e \in DOMAIN B : e # x => A[e] = B[e]
  <2>1. /\ BagOf(A, S)
        /\ DOMAIN A = DOMAIN B \cup {x}
        /\ \A e \in DOMAIN B : e # x => A[e] = B[e]
        /\ A[x] = IF x \in DOMAIN B THEN B[x] + 1 ELSE 1
    <3> HIDE DEF n
    <3> QED BY Adding DEF BagOf
  <2> HIDE DEF A
  <2> QED BY <2>1
<1>2. n \in Nat /\ \A e \in DOMAIN B : B[e] \in Nat
  BY DEF BagOf
<1> HIDE DEF A
<1>3. Units(A, m) = IF x.msg = m THEN Units(B, m) \cup {<<x, n + 1>>} ELSE Units(B, m)
  <2>1. ASSUME NEW c, NEW k
        PROVE  <<c, k>> \in Units(A, m) <=>
                 <<c, k>> \in Units(B, m) \/ (x.msg = m /\ c = x /\ k = n + 1)
    <3>1. CASE c # x
      BY <1>1, <3>1, UnitsAre
    <3>2. CASE c = x
      <4>1. <<c, k>> \in Units(B, m) <=> x.msg = m /\ k \in 1 .. n
        BY <3>2, UnitsAre
      <4>2. <<c, k>> \in Units(A, m) <=> x.msg = m /\ k \in 1 .. n + 1
        BY <1>1, <3>2, UnitsAre
      <4>3. k \in 1 .. n + 1 <=> k \in 1 .. n \/ k = n + 1
        BY <1>2
      <4> QED BY <3>2, <4>1, <4>2, <4>3
    <3> QED BY <3>1, <3>2
  <2>2. /\ \A y \in Units(A, m) : \E c, k : y = <<c, k>>
        /\ \A y \in Units(B, m) : \E c, k : y = <<c, k>>
    BY UnitsAre
  <2> HIDE DEF n
  <2> QED BY <2>1, <2>2
<1>4. <<x, n + 1>> \notin Units(B, m)
  <2>1. ~(n + 1 \in 1 .. n)
    BY <1>2
  <2> QED BY <2>1, UnitsAre
<1> HIDE DEF n
<1>5. Cardinality(Units(B, m)) \in Nat
  BY FS_CardinalityType
<1>6. CASE x.msg = m
  <2>1. /\ IsFiniteSet(Units(B, m) \cup {<<x, n + 1>>})
        /\ Cardinality(Units(B, m) \cup {<<x, n + 1>>}) = Cardinality(Units(B, m)) + 1
    BY <1>4, FS_AddElement
  <2> QED BY <1>3, <1>6, <2>1 DEF A
<1>7. CASE x.msg # m
  BY <1>3, <1>5, <1>7 DEF A
<1> QED BY <1>6, <1>7

LEMMA UnitsRemoved ==
  ASSUME NEW S, NEW B, BagOf(B, S), NEW x \in DOMAIN B, NEW m, IsFiniteSet(Units(B, m))
  PROVE  /\ IsFiniteSet(Units(B (-) SetToBag({x}), m))
         /\ Cardinality(Units(B (-) SetToBag({x}), m)) =
              Cardinality(Units(B, m)) - IF x.msg = m THEN 1 ELSE 0
<1> DEFINE A == B (-) SetToBag({x})
           n == B[x]
<1>1. /\ DOMAIN A = IF n = 1 THEN DOMAIN B \ {x} ELSE DOMAIN B
      /\ n # 1 => A[x] = n - 1
      /\ \A e \in DOMAIN B : e # x => A[e] = B[e]
  <2>1. A = IF B[x] = 1 THEN [e \in DOMAIN B \ {x} |-> B[e]] ELSE [B EXCEPT ![x] = B[x] - 1]
    <3> HIDE DEF n
    <3> QED BY Removing
  <2> HIDE DEF A
  <2> QED BY <2>1 DEF BagOf
<1>2. n \in Nat /\ n > 0
  BY DEF BagOf
<1> HIDE DEF A
<1>3. Units(A, m) = IF x.msg = m THEN Units(B, m) \ {<<x, n>>} ELSE Units(B, m)
  <2>1. ASSUME NEW c, NEW k
        PROVE  <<c, k>> \in Units(A, m) <=>
                 <<c, k>> \in Units(B, m) /\ ~(x.msg = m /\ c = x /\ k = n)
    <3>1. CASE c # x
      BY <1>1, <3>1, UnitsAre
    <3>2. CASE c = x
      <4>1. <<c, k>> \in Units(B, m) <=> x.msg = m /\ k \in 1 .. n
        BY <3>2, UnitsAre
      <4>2. <<c, k>> \in Units(A, m) <=> x.msg = m /\ k \in 1 .. n - 1
        <5>1. CASE n = 1
          BY <1>1, <3>2, <5>1, UnitsAre
        <5>2. CASE n # 1
          <6>1. x \in DOMAIN A /\ A[x] = n - 1
            BY <1>1, <5>2
          <6> QED BY <3>2, <6>1, UnitsAre
        <5> QED BY <5>1, <5>2
      <4>3. k \in 1 .. n - 1 <=> k \in 1 .. n /\ k # n
        BY <1>2
      <4> QED BY <3>2, <4>1, <4>2, <4>3
    <3> QED BY <3>1, <3>2
  <2>2. /\ \A y \in Units(A, m) : \E c, k : y = <<c, k>>
        /\ \A y \in Units(B, m) : \E c, k : y = <<c, k>>
    BY UnitsAre
  <2> HIDE DEF n
  <2> QED BY <2>1, <2>2
<1>4. x.msg = m => <<x, n>> \in Units(B, m)
  <2>1. n \in 1 .. n
    BY <1>2
  <2> QED BY <2>1, UnitsAre
<1> HIDE DEF n
<1>5. Cardinality(Units(B, m)) \in Nat
  BY FS_CardinalityType
<1>6. CASE x.msg = m
  <2>1. /\ IsFiniteSet(Units(B, m) \ {<<x, n>>})
        /\ Cardinality(Units(B, m) \ {<<x, n>>}) = Cardinality(Units(B, m)) - 1
    BY <1>4, <1>6, FS_RemoveElement
  <2> QED BY <1>3, <1>6, <2>1 DEF A
<1>7. CASE x.msg # m
  BY <1>3, <1>5, <1>7 DEF A
<1> QED BY <1>6, <1>7

LEMMA UnitsJoined ==
  ASSUME NEW S, NEW A, NEW B, BagOf(A, S), BagOf(B, S), NEW m,
         IsFiniteSet(Units(A, m)), IsFiniteSet(Units(B, m))
  PROVE  /\ IsFiniteSet(Units(A (+) B, m))
         /\ Cardinality(Units(A (+) B, m)) = Cardinality(Units(A, m)) + Cardinality(Units(B, m))
<1> DEFINE C == A (+) B
           size(c) == IF c \in DOMAIN A THEN A[c] ELSE 0
           shift == [x \in Units(B, m) |-> <<x[1], size(x[1]) + x[2]>>]
           shifted == {shift[x] : x \in Units(B, m)}
<1>1. /\ DOMAIN C = DOMAIN A \cup DOMAIN B
      /\ \A e \in DOMAIN C : C[e] = size(e) + IF e \in DOMAIN B THEN B[e] ELSE 0
  <2>1. /\ DOMAIN C = DOMAIN A \cup DOMAIN B
        /\ \A e \in DOMAIN A \cup DOMAIN B :
             C[e] = (IF e \in DOMAIN A THEN A[e] ELSE 0) + (IF e \in DOMAIN B THEN B[e] ELSE 0)
    <3> HIDE DEF size, shift, shifted
    <3> QED BY Joining
  <2> HIDE DEF C
  <2> QED BY <2>1
<1>2. /\ \A e : size(e) \in Nat
      /\ \A e \in DOMAIN B : B[e] \in Nat
  BY DEF BagOf
<1>3. \A c, n : <<c, n>> \in Units(A, m) <=> c.msg = m /\ n \in 1 .. size(c)
  <2> TAKE c, n
  <2>1. <<c, n>> \in Units(A, m) <=> c \in DOMAIN A /\ c.msg = m /\ n \in 1 .. A[c]
    BY UnitsAre
  <2>2. CASE c \in DOMAIN A
    BY <2>1, <2>2
  <2>3. CASE c \notin DOMAIN A
    <3>1. ~(n \in 1 .. size(c))
      BY <2>3
    <3> QED BY <2>1, <2>3, <3>1
  <2> QED BY <2>2, <2>3
<1> HIDE DEF C, size
<1>4. \A c, n : <<c, n>> \in Units(B, m) => n \in Nat /\ n > 0
  <2> TAKE c, n
  <2> HAVE <<c, n>> \in Units(B, m)
  <2>1. c \in DOMAIN B /\ n \in 1 .. B[c]
    BY UnitsAre
  <2> QED BY <1>2, <2>1
<1>5. \A y : y \in shifted <=> \E c, n : <<c, n>> \in Units(B, m) /\ y = <<c, size(c) + n>>
  <2>1. ASSUME NEW y \in shifted
        PROVE  \E c, n : <<c, n>> \in Units(B, m) /\ y = <<c, size(c) + n>>
    <3>1. PICK x \in Units(B, m) : y = <<x[1], size(x[1]) + x[2]>>
      OBVIOUS
    <3>2. PICK c, n : x = <<c, n>>
      BY UnitsAre
    <3> QED BY <3>1, <3>2
  <2>2. ASSUME NEW c, NEW n, <<c, n>> \in Units(B, m)
        PROVE  <<c, size(c) + n>> \in shifted
    <3>1. shift[<<c, n>>] = <<c, size(c) + n>>
      BY <2>2
    <3> QED BY <2>2, <3>1
  <2> HIDE DEF shifted
  <2> QED BY <2>1, <2>2
<1>6. shift \in Bijection(Units(B, m), shifted)
  <2>1. ASSUME NEW x \in Units(B, m), NEW y \in Units(B, m), shift[x] = shift[y]
        PROVE  x = y
    <3>1. PICK c, n : x = <<c, n>>
      BY UnitsAre
    <3>2. PICK d, k : y = <<d, k>>
      BY UnitsAre
    <3>3. c = d /\ size(c) + n = size(c) + k /\ n \in Nat /\ k \in Nat /\ size(c) \in Nat
      BY <1>2, <1>4, <2>1, <3>1, <3>2
    <3> QED BY <3>1, <3>2, <3>3
  <2>2. shift \in [Units(B, m) -> shifted] /\ \A y \in shifted : \E x \in Units(B, m) : shift[x] = y
    OBVIOUS
  <2> QED BY <2>1, <2>2 DEF Bijection, Injection, Surjection, IsInjective
<1> HIDE DEF shift, shifted
<1>7. IsFiniteSet(shifted) /\ Cardinality(shifted) = Cardinality(Units(B, m))
  BY <1>6, FS_Bijection DEF ExistsBijection
<1>8. Units(A, m) \cap shifted = {}
  <2> SUFFICES ASSUME NEW y \in Units(A, m), y \in shifted PROVE FALSE
    OBVIOUS
  <2>1. PICK c, n : <<c, n>> \in Units(B, m) /\ y = <<c, size(c) + n>>
    BY <1>5
  <2>2. size(c) + n \in 1 .. size(c)
    BY <1>3, <2>1
  <2>3. size(c) \in Nat /\ n \in Nat /\ n > 0
    BY <1>2, <1>4, <2>1
  <2> QED BY <2>2, <2>3
<1>9. Units(C, m) = Units(A, m) \cup shifted
  <2>1. ASSUME NEW c, NEW k
        PROVE  <<c, k>> \in Units(C, m) <=> <<c, k>> \in Units(A, m) \/ <<c, k>> \in shifted
    <3>1. CASE c \in DOMAIN B
      <4>1. <<c, k>> \in Units(C, m) <=> c.msg = m /\ k \in 1 .. size(c) + B[c]
        BY <1>1, <3>1, UnitsAre
      <4>2. <<c, k>> \in shifted <=> c.msg = m /\ \E n \in 1 .. B[c] : k = size(c) + n
        <5>1. \A n : <<c, n>> \in Units(B, m) <=> c.msg = m /\ n \in 1 .. B[c]
          BY <3>1, UnitsAre
        <5>2. <<c, k>> \in shifted <=> \E n : <<c, n>> \in Units(B, m) /\ k = size(c) + n
          <6>1. ASSUME <<c, k>> \in shifted
                PROVE  \E n : <<c, n>> \in Units(B, m) /\ k = size(c) + n
            <7>1. PICK d, n : <<d, n>> \in Units(B, m) /\ <<c, k>> = <<d, size(d) + n>>
              BY <1>5, <6>1
            <7>2. c = d /\ k = size(d) + n
              BY <7>1
            <7> QED BY <7>1, <7>2
          <6>2. ASSUME NEW n, <<c, n>> \in Units(B, m), k = size(c) + n
                PROVE  <<c, k>> \in shifted
            BY <1>5, <6>2
          <6> QED BY <6>1, <6>2
        <5> QED BY <5>1, <5>2
      <4>3. k \in 1 .. size(c) + B[c] <=> k \in 1 .. size(c) \/ \E n \in 1 .. B[c] : k = size(c) + n
        <5>1. size(c) \in Nat /\ B[c] \in Nat
          BY <1>2, <3>1
        <5>2. ASSUME k \in 1 .. size(c) + B[c], ~(k \in 1 .. size(c))
              PROVE  k - size(c) \in 1 .. B[c] /\ k = size(c) + (k - size(c))
          BY <5>1, <5>2
        <5>3. ASSUME NEW n \in 1 .. B[c], k = size(c) + n
              PROVE  k \in 1 .. size(c) + B[c]
          BY <5>1, <5>3
        <5>4. k \in 1 .. size(c) => k \in 1 .. size(c) + B[c]
          BY <5>1
        <5> QED BY <5>2, <5>3, <5>4
      <4> QED BY <1>3, <4>1, <4>2, <4>3
    <3>2. CASE c \notin DOMAIN B
      <4>1. <<c, k>> \notin shifted
        <5> SUFFICES ASSUME <<c, k>> \in shifted PROVE FALSE
          OBVIOUS
        <5>1. PICK d, n : <<d, n>> \in Units(B, m) /\ <<c, k>> = <<d, size(d) + n>>
          BY <1>5
        <5>2. c = d /\ d \in DOMAIN B
          BY <5>1, UnitsAre
        <5> QED BY <3>2, <5>2
      <4>2. c \in DOMAIN C <=> c \in DOMAIN A
        BY <1>1, <3>2
      <4>3. c \in DOMAIN A => C[c] = A[c]
        BY <1>1, <1>2, <3>2 DEF size
      <4> QED BY <4>1, <4>2, <4>3, UnitsAre
    <3> QED BY <3>1, <3>2
  <2>2. /\ \A y \in Units(C, m) : \E c, k : y = <<c, k>>
        /\ \A y \in Units(A, m) : \E c, k : y = <<c, k>>
    BY UnitsAre
  <2>3. \A y \in shifted : \E c, k : y = <<c, k>>
    BY <1>5
  <2> QED BY <2>1, <2>2, <2>3
<1>10. Cardinality(Units(A, m)) \in Nat /\ Cardinality(shifted) \in Nat
  BY <1>7, FS_CardinalityType
<1>11. /\ IsFiniteSet(Units(A, m) \cup shifted)
       /\ Cardinality(Units(A, m) \cup shifted) = Cardinality(Units(A, m)) + Cardinality(shifted)
  <2>1. /\ IsFiniteSet(Units(A, m) \cup shifted)
        /\ Cardinality(Units(A, m) \cup shifted)
             = Cardinality(Units(A, m)) + Cardinality(shifted) - Cardinality(Units(A, m) \cap shifted)
    BY <1>7, FS_Union
  <2>2. Cardinality(Units(A, m) \cap shifted) = 0
    BY <1>8, FS_EmptySet
  <2> QED BY <1>10, <2>1, <2>2
<1> QED BY <1>7, <1>9, <1>11 DEF C

(* The members of a set of positions, numbered from the first.                   *)
Rank(P, i) == Cardinality({j \in P : j <= i})

LEMMA Ranked ==
  ASSUME NEW n \in Nat, NEW P \in SUBSET (1 .. n)
  PROVE  /\ IsFiniteSet(P) /\ Cardinality(P) \in Nat
         /\ \A i \in P : Rank(P, i) \in 1 .. Cardinality(P)
         /\ \A i, j \in P : Rank(P, i) = Rank(P, j) => i = j
         /\ \A k \in 1 .. Cardinality(P) : \E i \in P : Rank(P, i) = k
<1> DEFINE upto(i) == {j \in P : j <= i}
           rank == [i \in P |-> Rank(P, i)]
           size == Cardinality(P)
<1>1. IsFiniteSet(P) /\ size \in Nat
  <2>1. IsFiniteSet(1 .. n)
    BY FS_Interval
  <2>2. IsFiniteSet(P)
    BY <2>1, FS_Subset
  <2> QED BY <2>2, FS_CardinalityType
<1>2. ASSUME NEW i \in P
      PROVE  Rank(P, i) \in 1 .. size
  <2>1. upto(i) \in SUBSET P /\ i \in upto(i)
    OBVIOUS
  <2>2. IsFiniteSet(upto(i)) /\ Cardinality(upto(i)) <= size
    BY <1>1, <2>1, FS_Subset
  <2>3. Cardinality(upto(i)) \in Nat /\ Cardinality(upto(i)) # 0
    BY <2>1, <2>2, FS_CardinalityType, FS_EmptySet
  <2>4. Rank(P, i) = Cardinality(upto(i))
    BY DEF Rank
  <2> HIDE DEF upto, size
  <2> QED BY <1>1, <2>2, <2>3, <2>4
<1>3. ASSUME NEW i \in P, NEW j \in P, i < j
      PROVE  Rank(P, i) # Rank(P, j)
  <2>1. upto(i) \in SUBSET upto(j) /\ upto(i) # upto(j)
    <3>1. i \in Nat /\ j \in Nat /\ \A k \in P : k \in Nat
      OBVIOUS
    <3>2. j \in upto(j) /\ ~(j \in upto(i))
      BY <1>3, <3>1
    <3>3. ASSUME NEW k \in upto(i) PROVE k \in upto(j)
      <4>1. k \in P /\ k <= i /\ k \in Nat
        BY <3>1
      <4>2. k <= j
        BY <1>3, <3>1, <4>1
      <4> QED BY <4>1, <4>2
    <3> QED BY <3>2, <3>3
  <2>2. IsFiniteSet(upto(j))
    <3>1. upto(j) \in SUBSET P
      OBVIOUS
    <3> QED BY <1>1, <3>1, FS_Subset
  <2>3. Rank(P, i) = Cardinality(upto(i)) /\ Rank(P, j) = Cardinality(upto(j))
    BY DEF Rank
  <2> HIDE DEF upto
  <2>4. Cardinality(upto(j)) # Cardinality(upto(i))
    BY <2>1, <2>2, FS_Subset
  <2> QED BY <2>3, <2>4
<1>4. \A i, j \in P : Rank(P, i) = Rank(P, j) => i = j
  <2>1. \A i, j \in P : i < j \/ j < i \/ i = j
    OBVIOUS
  <2> QED BY <1>3, <2>1
<1>5. rank \in Injection(P, 1 .. size)
  <2>1. rank \in [P -> 1 .. size]
    BY <1>2
  <2>2. \A i, j \in P : rank[i] = rank[j] => i = j
    BY <1>4
  <2> HIDE DEF rank
  <2> QED BY <2>1, <2>2 DEF Injection, IsInjective
<1>6. IsFiniteSet(1 .. size) /\ Cardinality(1 .. size) = size
  <2> HIDE DEF size
  <2>1. 1 \in Int /\ size \in Int
    BY <1>1
  <2>2. IsFiniteSet(1 .. size) /\ Cardinality(1 .. size) = IF 1 > size THEN 0 ELSE size - 1 + 1
    BY <2>1, FS_Interval
  <2> QED BY <1>1, <2>2
<1>7. rank \in Surjection(P, 1 .. size)
  BY <1>5, <1>6, FS_Injection
<1>8. \A k \in 1 .. size : \E i \in P : rank[i] = k
  BY <1>7 DEF Surjection
<1> QED BY <1>1, <1>2, <1>4, <1>8

(* What comes back counts as many copies as were held.                           *)
LEMMA UnitsOfBack ==
  ASSUME NEW n \in Nat, NEW back, DOMAIN back = 1 .. n, NEW m, NEW B,
         B = [c \in {back[i] : i \in 1 .. n} |-> Cardinality({i \in 1 .. n : back[i] = c})]
  PROVE  /\ IsFiniteSet(Units(B, m))
         /\ Cardinality(Units(B, m)) = Cardinality({i \in 1 .. n : back[i].msg = m})
<1> DEFINE places(c) == {i \in 1 .. n : back[i] = c}
           held == {i \in 1 .. n : back[i].msg = m}
           number == [i \in held |-> <<back[i], Rank(places(back[i]), i)>>]
<1>1. \A c : places(c) \in SUBSET (1 .. n) /\ \A i \in places(c) : back[i] = c
  OBVIOUS
<1>2. DOMAIN B = {back[i] : i \in 1 .. n} /\ \A c \in DOMAIN B : B[c] = Cardinality(places(c))
  OBVIOUS
<1>3. IsFiniteSet(held)
  <2>1. held \in SUBSET (1 .. n) /\ IsFiniteSet(1 .. n)
    BY FS_Interval
  <2> QED BY <2>1, FS_Subset
<1>4. \A i \in held : i \in places(back[i]) /\ back[i] \in DOMAIN B /\ back[i].msg = m
  OBVIOUS
<1>5. \A c, i : i \in places(c) /\ c.msg = m => i \in held
  OBVIOUS
<1> HIDE DEF places, held
<1>6. number \in [held -> Units(B, m)]
  <2>1. ASSUME NEW i \in held
        PROVE  <<back[i], Rank(places(back[i]), i)>> \in Units(B, m)
    <3>1. Rank(places(back[i]), i) \in 1 .. Cardinality(places(back[i]))
      BY <1>1, <1>4, Ranked
    <3>2. back[i] \in DOMAIN B /\ back[i].msg = m /\ Rank(places(back[i]), i) \in 1 .. B[back[i]]
      BY <1>2, <1>4, <3>1
    <3> QED BY <3>2, UnitsAre
  <2> QED BY <2>1
<1>7. ASSUME NEW i \in held, NEW j \in held, number[i] = number[j]
      PROVE  i = j
  <2>1. back[i] = back[j] /\ Rank(places(back[i]), i) = Rank(places(back[i]), j)
    BY <1>7
  <2>2. i \in places(back[i]) /\ j \in places(back[i])
    BY <1>4, <2>1
  <2> QED BY <1>1, <2>1, <2>2, Ranked
<1>8. ASSUME NEW x \in Units(B, m)
      PROVE  \E i \in held : number[i] = x
  <2>1. PICK c \in DOMAIN B : \E k \in 1 .. B[c] : x = <<c, k>> /\ c.msg = m
    BY UnitsAre
  <2>2. PICK k \in 1 .. B[c] : x = <<c, k>> /\ c.msg = m
    BY <2>1
  <2>3. k \in 1 .. Cardinality(places(c))
    BY <1>2
  <2>4. PICK i \in places(c) : Rank(places(c), i) = k
    BY <1>1, <2>3, Ranked
  <2>5. back[i] = c /\ i \in held
    BY <1>1, <1>5, <2>2
  <2> QED BY <2>2, <2>4, <2>5
<1>9. number \in Bijection(held, Units(B, m))
  <2> HIDE DEF number
  <2> QED BY <1>6, <1>7, <1>8 DEF Bijection, Injection, Surjection, IsInjective
<1>10. /\ IsFiniteSet(Units(B, m))
       /\ Cardinality(Units(B, m)) = Cardinality(held)
  BY <1>3, <1>9, FS_Bijection DEF ExistsBijection
<1> QED BY <1>10 DEF held

(* The places of the deliveries of m in s.                                       *)
Places(s, m) == {i \in DOMAIN s : s[i].copy.msg = m}

LEMMA PlacesFinite ==
  ASSUME NEW S, NEW s \in Seq(S), NEW m
  PROVE  IsFiniteSet(Places(s, m)) /\ Cardinality(Places(s, m)) \in Nat
<1>1. DOMAIN s = 1 .. Len(s) /\ Len(s) \in Nat
  OBVIOUS
<1>2. IsFiniteSet(1 .. Len(s))
  BY <1>1, FS_Interval
<1>3. Places(s, m) \in SUBSET (1 .. Len(s))
  BY <1>1 DEF Places
<1>4. IsFiniteSet(Places(s, m))
  BY <1>2, <1>3, FS_Subset
<1> QED BY <1>4, FS_CardinalityType

LEMMA PlacesAppended ==
  ASSUME NEW S, NEW s \in Seq(S), NEW d, NEW m
  PROVE  Cardinality(Places(Append(s, d), m)) =
           Cardinality(Places(s, m)) + IF d.copy.msg = m THEN 1 ELSE 0
<1> DEFINE t == Append(s, d)
           n == Len(s) + 1
<1>1. DOMAIN t = DOMAIN s \cup {n} /\ n \notin DOMAIN s
  <2>1. DOMAIN t = 1 .. Len(s) + 1 /\ DOMAIN s = 1 .. Len(s) /\ Len(s) \in Nat
    OBVIOUS
  <2> HIDE DEF t
  <2> QED BY <2>1
<1>2. t[n] = d /\ \A i \in DOMAIN s : t[i] = s[i]
  OBVIOUS
<1>3. IsFiniteSet(Places(s, m)) /\ Cardinality(Places(s, m)) \in Nat
  BY PlacesFinite
<1> HIDE DEF t, n
<1>4. CASE d.copy.msg = m
  <2>1. Places(t, m) = Places(s, m) \cup {n} /\ n \notin Places(s, m)
    BY <1>1, <1>2, <1>4 DEF Places
  <2>2. Cardinality(Places(s, m) \cup {n}) = Cardinality(Places(s, m)) + 1
    BY <1>3, <2>1, FS_AddElement
  <2> QED BY <1>4, <2>1, <2>2 DEF t
<1>5. CASE d.copy.msg # m
  <2>1. Places(t, m) = Places(s, m)
    BY <1>1, <1>2, <1>5 DEF Places
  <2> QED BY <1>3, <1>5, <2>1 DEF t
<1> QED BY <1>4, <1>5

LEMMA PlacesLeft ==
  ASSUME NEW S, NEW s \in Seq(S), NEW k \in DOMAIN s, NEW m
  PROVE  Cardinality(Places(RemoveAt(s, k), m)) =
           Cardinality(Places(s, m)) - IF s[k].copy.msg = m THEN 1 ELSE 0
<1> DEFINE t == RemoveAt(s, k)
           old == Places(s, m) \ {k}
           move(i) == IF i < k THEN i ELSE i - 1
           moved == [i \in old |-> move(i)]
<1>1. DOMAIN t = 1 .. Len(s) - 1 /\ DOMAIN s = 1 .. Len(s) /\ Len(s) \in Nat
  <2>1. t \in Seq(S) /\ Len(t) = Len(s) - 1
    BY Leaving
  <2> HIDE DEF t
  <2> QED BY <2>1
<1>2. \A i \in DOMAIN t : t[i] = IF i < k THEN s[i] ELSE s[i + 1]
  BY <1>1, Leaving
<1> HIDE DEF t
<1>3. \A i \in old : i \in DOMAIN s /\ i # k /\ s[i].copy.msg = m
  BY DEF Places
<1>4. ASSUME NEW i \in DOMAIN s, i # k
      PROVE  move(i) \in DOMAIN t /\ t[move(i)] = s[i]
  BY <1>1, <1>2, <1>4
<1>5. ASSUME NEW i \in DOMAIN t
      PROVE  \E j \in DOMAIN s : j # k /\ move(j) = i
  <2>1. CASE i < k
    BY <1>1, <2>1
  <2>2. CASE ~(i < k)
    <3>1. i + 1 \in DOMAIN s /\ i + 1 # k /\ ~(i + 1 < k) /\ (i + 1) - 1 = i
      BY <1>1, <2>2
    <3> QED BY <3>1
  <2> QED BY <2>1, <2>2
<1>6. \A i, j \in DOMAIN s : i # k /\ j # k /\ move(i) = move(j) => i = j
  BY <1>1
<1> HIDE DEF move
<1>7. moved \in Bijection(old, Places(t, m))
  <2>1. moved \in [old -> Places(t, m)]
    BY <1>3, <1>4 DEF Places
  <2>2. \A i, j \in old : moved[i] = moved[j] => i = j
    BY <1>3, <1>6
  <2>3. ASSUME NEW i \in Places(t, m)
        PROVE  \E j \in old : moved[j] = i
    <3>1. PICK j \in DOMAIN s : j # k /\ move(j) = i
      BY <1>5 DEF Places
    <3>2. j \in old
      BY <1>4, <2>3, <3>1 DEF Places
    <3> QED BY <3>1, <3>2
  <2> HIDE DEF moved, old
  <2> QED BY <2>1, <2>2, <2>3 DEF Bijection, Injection, Surjection, IsInjective
<1>8. IsFiniteSet(Places(s, m)) /\ Cardinality(Places(s, m)) \in Nat
  BY PlacesFinite
<1>9. /\ IsFiniteSet(old)
      /\ Cardinality(old) = IF k \in Places(s, m) THEN Cardinality(Places(s, m)) - 1
                                                  ELSE Cardinality(Places(s, m))
  BY <1>8, FS_RemoveElement
<1>10. Cardinality(Places(t, m)) = Cardinality(old)
  <2> HIDE DEF moved, old
  <2> QED BY <1>7, <1>9, FS_Bijection DEF ExistsBijection
<1>11. k \in Places(s, m) <=> s[k].copy.msg = m
  BY DEF Places
<1> HIDE DEF old
<1> QED BY <1>8, <1>9, <1>10, <1>11 DEF t

LEMMA TailLeaves ==
  ASSUME NEW S, NEW s \in Seq(S), s # <<>>
  PROVE  1 \in DOMAIN s /\ Tail(s) = RemoveAt(s, 1)
<1>1. 1 \in DOMAIN s /\ Len(s) \in Nat
  OBVIOUS
<1>2. /\ RemoveAt(s, 1) \in Seq(S) /\ Len(RemoveAt(s, 1)) = Len(s) - 1
      /\ \A j \in 1 .. Len(s) - 1 : RemoveAt(s, 1)[j] = s[j + 1]
  <2>1. \A j \in 1 .. Len(s) - 1 : ~(j < 1)
    BY <1>1
  <2> QED BY <1>1, <2>1, Leaving
<1>3. /\ Tail(s) \in Seq(S) /\ Len(Tail(s)) = Len(s) - 1
      /\ \A j \in 1 .. Len(s) - 1 : Tail(s)[j] = s[j + 1]
  OBVIOUS
<1>4. ASSUME NEW t \in Seq(S), NEW r \in Seq(S), Len(t) = Len(r), \A j \in 1 .. Len(t) : t[j] = r[j]
      PROVE  t = r
  BY <1>4
<1> QED BY <1>1, <1>2, <1>3, <1>4

LEMMA CopiesChange ==
  ASSUME CopiesInv, NEW m, Countable(m), NEW q \in Queues, NEW k \in Int,
         \A r \in Queues : r # q => ready'[r] = ready[r] /\ unsettled'[r] = unsettled[r],
         IsFiniteSet(Units(ready'[q], m)),
         Cardinality(Units(ready'[q], m)) + Cardinality(Places(unsettled'[q], m)) =
           Cardinality(Units(ready[q], m)) + Cardinality(Places(unsettled[q], m)) + k
  PROVE  Countable(m)' /\ Copies(m) \in Nat /\ Copies(m)' = Copies(m) + k
<1>1. \A r : Stored(r, m) = Units(ready[r], m) /\ Held(r, m) = Places(unsettled[r], m)
  BY DEF Stored, Held, Units, Places
<1>2. \A r : Stored(r, m)' = Units(ready'[r], m) /\ Held(r, m)' = Places(unsettled'[r], m)
  BY DEF Stored, Held, Units, Places
<1>3. \A r \in Queues : IsFiniteSet(Units(ready[r], m)) /\ Cardinality(Units(ready[r], m)) \in Nat
  BY <1>1, FS_CardinalityType DEF Countable
<1>4. \A r \in Queues : Cardinality(Places(unsettled[r], m)) \in Nat
  BY PlacesFinite DEF CopiesInv, RTypeOK, Fits
<1>5. \A r \in Queues : Located(r, m) = Cardinality(Units(ready[r], m)) + Cardinality(Places(unsettled[r], m))
  BY <1>1 DEF Located
<1>6. \A r \in Queues : Located(r, m)' = Cardinality(Units(ready'[r], m)) + Cardinality(Places(unsettled'[r], m))
  BY <1>2 DEF Located
<1>7. Located(q, m)' = Located(q, m) + k /\ \A r \in Queues : r # q => Located(r, m)' = Located(r, m)
  BY <1>5, <1>6
<1>8. \A r \in Queues : Located(r, m) \in Nat
  BY <1>3, <1>4, <1>5
<1>9. Countable(m)'
  BY <1>2, <1>3 DEF Countable
<1>10. Copies(m) \in Nat /\ Copies(m)' = Copies(m) + k
  BY <1>7, <1>8 DEF Copies, Queues
<1> QED BY <1>9, <1>10

(* The queues as the counting lemmas need them.                                  *)
LEMMA Shelves ==
  ASSUME CopiesInv, NEW m, Countable(m), NEW q \in Queues
  PROVE  /\ BagOf(ready[q], Waiting(q)) /\ unsettled[q] \in Seq(Deliveries(q))
         /\ IsFiniteSet(Units(ready[q], m)) /\ Cardinality(Units(ready[q], m)) \in Nat
         /\ Cardinality(Places(unsettled[q], m)) \in Nat
         /\ ready = [r \in Queues |-> ready[r]] /\ unsettled = [r \in Queues |-> unsettled[r]]
<1>1. /\ BagOf(ready[q], Waiting(q)) /\ unsettled[q] \in Seq(Deliveries(q))
      /\ ready = [r \in Queues |-> ready[r]] /\ unsettled = [r \in Queues |-> unsettled[r]]
  BY DEF CopiesInv, RTypeOK, Fits
<1>2. Stored(q, m) = Units(ready[q], m)
  BY DEF Stored, Units
<1>3. IsFiniteSet(Units(ready[q], m)) /\ Cardinality(Units(ready[q], m)) \in Nat
  BY <1>2, FS_CardinalityType DEF Countable
<1>4. Cardinality(Places(unsettled[q], m)) \in Nat
  BY <1>1, PlacesFinite
<1> QED BY <1>1, <1>3, <1>4

LEMMA CountReceive ==
  ASSUME CopiesInv, NEW m, Countable(m), NEW q \in Queues, NEW c, NEW h, Receive(q, c, h)
  PROVE  Countable(m)' /\ Copies(m) \in Nat /\ Copies(m)' = Copies(m)
<1> DEFINE B == ready[q]
           s == unsettled[q]
           d == [handle |-> h, copy |-> Received(c)]
           one == IF c.msg = m THEN 1 ELSE 0
<1>1. /\ BagOf(B, Waiting(q)) /\ s \in Seq(Deliveries(q))
      /\ IsFiniteSet(Units(B, m)) /\ Cardinality(Units(B, m)) \in Nat
      /\ Cardinality(Places(s, m)) \in Nat
      /\ ready = [r \in Queues |-> ready[r]] /\ unsettled = [r \in Queues |-> unsettled[r]]
  BY Shelves
<1>2. c \in DOMAIN B
  BY DEF Receive, BagIn, BagToSet
<1>3. d.copy.msg = c.msg
  <2>1. c \in Stocks
    BY <1>1, <1>2 DEF BagOf, Waiting, Copied
  <2> QED BY <2>1 DEF Received, Stocks
<1>4. /\ ready' = [ready EXCEPT ![q] = ready[q] (-) SetToBag({c})]
      /\ unsettled' = [unsettled EXCEPT ![q] = Append(unsettled[q], d)]
  BY DEF Receive
<1>5. /\ ready'[q] = B (-) SetToBag({c}) /\ unsettled'[q] = Append(s, d)
      /\ \A r \in Queues : r # q => ready'[r] = ready[r] /\ unsettled'[r] = unsettled[r]
  BY <1>1, <1>4
<1> HIDE DEF B, s, d
<1>6. /\ IsFiniteSet(Units(B (-) SetToBag({c}), m))
      /\ Cardinality(Units(B (-) SetToBag({c}), m)) = Cardinality(Units(B, m)) - one
  BY <1>1, <1>2, UnitsRemoved
<1>7. Cardinality(Places(Append(s, d), m)) = Cardinality(Places(s, m)) + one
  BY <1>1, <1>3, PlacesAppended
<1>8. one \in Nat
  OBVIOUS
<1> HIDE DEF one
<1>9. Cardinality(Units(ready'[q], m)) + Cardinality(Places(unsettled'[q], m)) =
        Cardinality(Units(B, m)) + Cardinality(Places(s, m)) + 0
  BY <1>1, <1>5, <1>6, <1>7, <1>8
<1>10. Countable(m)' /\ Copies(m) \in Nat /\ Copies(m)' = Copies(m) + 0
  <2>1. IsFiniteSet(Units(ready'[q], m)) /\ 0 \in Int
    BY <1>5, <1>6
  <2> QED BY <1>5, <1>9, <2>1, CopiesChange DEF B, s
<1> QED BY <1>10

LEMMA CountSend ==
  ASSUME CopiesInv, NEW m, Countable(m), NEW q \in Queues, NEW d,
         ready' = [ready EXCEPT ![q] = @ (+) SetToBag({d})], unsettled' = unsettled
  PROVE  Countable(m)' /\ Copies(m) \in Nat /\ Copies(m)' = Copies(m) + IF d.msg = m THEN 1 ELSE 0
<1> DEFINE B == ready[q]
           one == IF d.msg = m THEN 1 ELSE 0
<1>1. /\ BagOf(B, Waiting(q))
      /\ IsFiniteSet(Units(B, m)) /\ Cardinality(Units(B, m)) \in Nat
      /\ Cardinality(Places(unsettled[q], m)) \in Nat
      /\ ready = [r \in Queues |-> ready[r]]
  BY Shelves
<1>2. ready'[q] = B (+) SetToBag({d}) /\ \A r \in Queues : r # q => ready'[r] = ready[r]
  BY <1>1
<1>3. BagOf(B, Waiting(q) \cup {d}) /\ d \in Waiting(q) \cup {d}
  BY <1>1 DEF BagOf
<1> HIDE DEF B
<1>4. /\ IsFiniteSet(Units(B (+) SetToBag({d}), m))
      /\ Cardinality(Units(B (+) SetToBag({d}), m)) = Cardinality(Units(B, m)) + one
  BY <1>1, <1>3, UnitsAdded
<1>5. one \in Int
  OBVIOUS
<1> HIDE DEF one
<1>6. Cardinality(Units(ready'[q], m)) + Cardinality(Places(unsettled'[q], m)) =
        Cardinality(Units(B, m)) + Cardinality(Places(unsettled[q], m)) + one
  BY <1>1, <1>2, <1>4, <1>5
<1>7. Countable(m)' /\ Copies(m) \in Nat /\ Copies(m)' = Copies(m) + one
  <2>1. IsFiniteSet(Units(ready'[q], m))
    BY <1>2, <1>4
  <2> QED BY <1>2, <1>5, <1>6, <2>1, CopiesChange DEF B
<1> QED BY <1>7 DEF one

LEMMA CountGiveBack ==
  ASSUME CopiesInv, NEW m, Countable(m), NEW q \in Queues, NEW h, Holds(q, h), NEW d,
         d.msg = unsettled[q][Position(q, h)].copy.msg, GiveBack(q, h, d)
  PROVE  Countable(m)' /\ Copies(m) \in Nat /\ Copies(m)' = Copies(m)
<1> DEFINE B == ready[q]
           s == unsettled[q]
           k == Position(q, h)
           one == IF d.msg = m THEN 1 ELSE 0
<1>1. /\ BagOf(B, Waiting(q)) /\ s \in Seq(Deliveries(q))
      /\ IsFiniteSet(Units(B, m)) /\ Cardinality(Units(B, m)) \in Nat
      /\ Cardinality(Places(s, m)) \in Nat
      /\ ready = [r \in Queues |-> ready[r]] /\ unsettled = [r \in Queues |-> unsettled[r]]
  BY Shelves
<1>2. /\ ready' = [ready EXCEPT ![q] = ready[q] (+) SetToBag({d})]
      /\ unsettled' = [unsettled EXCEPT ![q] = RemoveAt(unsettled[q], k)]
  BY DEF GiveBack, SettledByHandle
<1>3. /\ ready'[q] = B (+) SetToBag({d}) /\ unsettled'[q] = RemoveAt(s, k)
      /\ \A r \in Queues : r # q => ready'[r] = ready[r] /\ unsettled'[r] = unsettled[r]
  BY <1>1, <1>2
<1>4. BagOf(B, Waiting(q) \cup {d}) /\ d \in Waiting(q) \cup {d}
  BY <1>1 DEF BagOf
<1>5. k \in DOMAIN s /\ s[k].copy.msg = d.msg
  BY PositionOf
<1> HIDE DEF B, s, k
<1>6. /\ IsFiniteSet(Units(B (+) SetToBag({d}), m))
      /\ Cardinality(Units(B (+) SetToBag({d}), m)) = Cardinality(Units(B, m)) + one
  BY <1>1, <1>4, UnitsAdded
<1>7. Cardinality(Places(RemoveAt(s, k), m)) = Cardinality(Places(s, m)) - one
  BY <1>1, <1>5, PlacesLeft
<1>8. one \in Nat
  OBVIOUS
<1> HIDE DEF one
<1>9. Cardinality(Units(ready'[q], m)) + Cardinality(Places(unsettled'[q], m)) =
        Cardinality(Units(B, m)) + Cardinality(Places(s, m)) + 0
  BY <1>1, <1>3, <1>6, <1>7, <1>8
<1>10. Countable(m)' /\ Copies(m) \in Nat /\ Copies(m)' = Copies(m) + 0
  <2>1. IsFiniteSet(Units(ready'[q], m)) /\ 0 \in Int
    BY <1>3, <1>6
  <2> QED BY <1>3, <1>9, <2>1, CopiesChange DEF B, s
<1> QED BY <1>10

(* Settling the k-th delivery of q.                                              *)
LEMMA CountSettle ==
  ASSUME CopiesInv, NEW m, Countable(m), NEW q \in Queues, NEW k \in DOMAIN unsettled[q],
         unsettled' = [unsettled EXCEPT ![q] = RemoveAt(@, k)], ready' = ready
  PROVE  /\ Countable(m)' /\ Copies(m) \in Nat
         /\ Copies(m)' = Copies(m) - IF unsettled[q][k].copy.msg = m THEN 1 ELSE 0
<1> DEFINE s == unsettled[q]
           one == IF s[k].copy.msg = m THEN 1 ELSE 0
<1>1. /\ s \in Seq(Deliveries(q))
      /\ IsFiniteSet(Units(ready[q], m)) /\ Cardinality(Units(ready[q], m)) \in Nat
      /\ Cardinality(Places(s, m)) \in Nat
      /\ unsettled = [r \in Queues |-> unsettled[r]]
  BY Shelves
<1>2. unsettled'[q] = RemoveAt(s, k) /\ \A r \in Queues : r # q => unsettled'[r] = unsettled[r]
  BY <1>1
<1> HIDE DEF s
<1>3. Cardinality(Places(RemoveAt(s, k), m)) = Cardinality(Places(s, m)) - one
  BY <1>1, PlacesLeft DEF s
<1>4. one \in Nat /\ -one \in Int
  OBVIOUS
<1> HIDE DEF one
<1>5. Cardinality(Units(ready'[q], m)) + Cardinality(Places(unsettled'[q], m)) =
        Cardinality(Units(ready[q], m)) + Cardinality(Places(s, m)) + (-one)
  BY <1>1, <1>2, <1>3, <1>4
<1>6. Countable(m)' /\ Copies(m) \in Nat /\ Copies(m)' = Copies(m) + (-one)
  <2>1. IsFiniteSet(Units(ready'[q], m))
    BY <1>1
  <2> QED BY <1>2, <1>4, <1>5, <2>1, CopiesChange DEF s
<1>7. Copies(m)' = Copies(m) - one
  BY <1>4, <1>6
<1> QED BY <1>6, <1>7 DEF one, s

LEMMA CountRemove ==
  ASSUME CopiesInv, NEW m, Countable(m), NEW q \in Queues, NEW c \in DOMAIN ready[q],
         ready' = [ready EXCEPT ![q] = @ (-) SetToBag({c})], unsettled' = unsettled
  PROVE  /\ Countable(m)' /\ Copies(m) \in Nat
         /\ Copies(m)' = Copies(m) - IF c.msg = m THEN 1 ELSE 0
<1> DEFINE B == ready[q]
           one == IF c.msg = m THEN 1 ELSE 0
<1>1. /\ BagOf(B, Waiting(q))
      /\ IsFiniteSet(Units(B, m)) /\ Cardinality(Units(B, m)) \in Nat
      /\ Cardinality(Places(unsettled[q], m)) \in Nat
      /\ ready = [r \in Queues |-> ready[r]]
  BY Shelves
<1>2. ready'[q] = B (-) SetToBag({c}) /\ \A r \in Queues : r # q => ready'[r] = ready[r]
  BY <1>1
<1>3. c \in DOMAIN B
  OBVIOUS
<1> HIDE DEF B
<1>4. /\ IsFiniteSet(Units(B (-) SetToBag({c}), m))
      /\ Cardinality(Units(B (-) SetToBag({c}), m)) = Cardinality(Units(B, m)) - one
  BY <1>1, <1>3, UnitsRemoved
<1>5. one \in Nat /\ -one \in Int
  OBVIOUS
<1> HIDE DEF one
<1>6. Cardinality(Units(ready'[q], m)) + Cardinality(Places(unsettled'[q], m)) =
        Cardinality(Units(B, m)) + Cardinality(Places(unsettled[q], m)) + (-one)
  BY <1>1, <1>2, <1>4, <1>5
<1>7. Countable(m)' /\ Copies(m) \in Nat /\ Copies(m)' = Copies(m) + (-one)
  <2>1. IsFiniteSet(Units(ready'[q], m))
    BY <1>2, <1>4
  <2> QED BY <1>2, <1>5, <1>6, <2>1, CopiesChange DEF B
<1>8. Copies(m)' = Copies(m) - one
  BY <1>5, <1>7
<1> QED BY <1>7, <1>8 DEF one

LEMMA CountClose ==
  ASSUME CopiesInv, NEW m, Countable(m), NEW q \in Queues, Close(q)
  PROVE  Countable(m)' /\ Copies(m) \in Nat /\ Copies(m)' = Copies(m)
<1> DEFINE B == ready[q]
           s == unsettled[q]
<1>1. /\ BagOf(B, Waiting(q)) /\ s \in Seq(Deliveries(q))
      /\ IsFiniteSet(Units(B, m)) /\ Cardinality(Units(B, m)) \in Nat
      /\ Cardinality(Places(s, m)) \in Nat
      /\ ready = [r \in Queues |-> ready[r]] /\ unsettled = [r \in Queues |-> unsettled[r]]
  BY Shelves
<1>2. PICK counted \in BOOLEAN : ready' = [ready EXCEPT ![q] = ready[q] (+) ComesBack(q, counted)]
  BY DEF Close
<1> DEFINE A == ComesBack(q, counted)
           back == [i \in DOMAIN s |-> Returned(s[i].copy, counted)]
           n == Len(s)
<1>3. /\ ready'[q] = B (+) A /\ unsettled'[q] = <<>>
      /\ \A r \in Queues : r # q => ready'[r] = ready[r] /\ unsettled'[r] = unsettled[r]
  BY <1>1, <1>2 DEF Close
<1>4. BagOf(A, Waiting(q))
  BY ComesBackFit DEF CopiesInv, RTypeOK
<1>5. A = [c \in {back[i] : i \in DOMAIN back} |-> Cardinality({i \in DOMAIN back : back[i] = c})]
  BY DEF ComesBack
<1>6. DOMAIN s = 1 .. n /\ n \in Nat /\ DOMAIN back = DOMAIN s
  BY <1>1
<1>7. \A i \in 1 .. n : back[i].msg = s[i].copy.msg
  <2> TAKE i \in 1 .. n
  <2>1. i \in DOMAIN unsettled[q]
    BY <1>6
  <2>2. s[i].copy \in Stocks
    BY <2>1, HeldCopy DEF CopiesInv, RTypeOK, Out, Copied
  <2>3. back[i] = Returned(s[i].copy, counted)
    BY <1>6
  <2> QED BY <2>2, <2>3 DEF Returned, Stocks
<1> HIDE DEF A, back, s, n
<1>8. A = [c \in {back[i] : i \in 1 .. n} |-> Cardinality({i \in 1 .. n : back[i] = c})]
  BY <1>5, <1>6
<1>9. /\ IsFiniteSet(Units(A, m))
      /\ Cardinality(Units(A, m)) = Cardinality({i \in 1 .. n : back[i].msg = m})
  <2>1. DOMAIN back = 1 .. n /\ n \in Nat
    BY <1>6
  <2> QED BY <1>8, <2>1, UnitsOfBack
<1>10. {i \in 1 .. n : back[i].msg = m} = Places(s, m)
  BY <1>6, <1>7 DEF Places
<1> HIDE DEF B
<1>11. /\ IsFiniteSet(Units(B (+) A, m))
       /\ Cardinality(Units(B (+) A, m)) = Cardinality(Units(B, m)) + Cardinality(Units(A, m))
  BY <1>1, <1>4, <1>9, UnitsJoined
<1>12. Cardinality(Places(unsettled'[q], m)) = 0
  <2>1. Places(<<>>, m) = {}
    BY DEF Places
  <2> QED BY <1>3, <2>1, FS_EmptySet
<1>13. Cardinality(Units(ready'[q], m)) + Cardinality(Places(unsettled'[q], m)) =
         Cardinality(Units(B, m)) + Cardinality(Places(s, m)) + 0
  BY <1>1, <1>3, <1>9, <1>10, <1>11, <1>12
<1>14. Countable(m)' /\ Copies(m) \in Nat /\ Copies(m)' = Copies(m) + 0
  <2>1. IsFiniteSet(Units(ready'[q], m)) /\ 0 \in Int
    BY <1>3, <1>11
  <2> QED BY <1>3, <1>13, <2>1, CopiesChange DEF B, s
<1> QED BY <1>14

LEMMA CountSame ==
  ASSUME CopiesInv, NEW m, Countable(m), ready' = ready, unsettled' = unsettled
  PROVE  Countable(m)' /\ Copies(m) \in Nat /\ Copies(m)' = Copies(m)
<1>1. "work" \in Queues /\ 0 \in Int
  BY DEF Queues
<1>2. /\ IsFiniteSet(Units(ready["work"], m))
      /\ Cardinality(Units(ready["work"], m)) \in Nat /\ Cardinality(Places(unsettled["work"], m)) \in Nat
  BY <1>1, Shelves
<1>3. Countable(m)' /\ Copies(m) \in Nat /\ Copies(m)' = Copies(m) + 0
  BY <1>1, <1>2, CopiesChange
<1> QED BY <1>3

(* An acknowledgement takes its own delivery away, or none.                      *)
LEMMA CountAck ==
  ASSUME CopiesInv, HandlesInv, NEW m, Countable(m), NEW q \in Queues, NEW h, Ack(q, h), ready' = ready
  PROVE  /\ Countable(m)' /\ Copies(m) \in Nat
         /\ (Kind = "artemis" => unsettled[q] # <<>> /\ unsettled[q][1].handle = h) =>
              Copies(m)' = Copies(m) -
                IF Holds(q, h) /\ unsettled[q][Position(q, h)].copy.msg = m THEN 1 ELSE 0
<1> DEFINE s == unsettled[q]
           k == Position(q, h)
<1>1. s \in Seq(Deliveries(q)) /\ UniqueHandles(s) /\ unsettled = [r \in Queues |-> unsettled[r]]
  BY Shelves DEF HandlesInv, HandlesUnique
<1>2. unsettled' = [unsettled EXCEPT ![q] = Acked(q, h)]
  BY DEF Ack
<1>3. CASE s = <<>> \/ (Kind # "artemis" /\ ~Holds(q, h))
  <2>1. ~Holds(q, h)
    BY <1>3 DEF Holds
  <2>2. unsettled' = unsettled
    <3>1. Acked(q, h) = unsettled[q]
      BY <1>3, <2>1 DEF Acked
    <3> QED BY <1>1, <1>2, <3>1
  <2>3. Countable(m)' /\ Copies(m) \in Nat /\ Copies(m)' = Copies(m)
    BY <2>2, CountSame
  <2> QED BY <2>1, <2>3
<1>4. CASE Kind # "artemis" /\ Holds(q, h)
  <2>1. k \in DOMAIN unsettled[q]
    BY <1>4, PositionOf
  <2>2. unsettled' = [unsettled EXCEPT ![q] = RemoveAt(unsettled[q], k)]
    BY <1>2, <1>4 DEF Acked, SettledByHandle
  <2> HIDE DEF k
  <2>3. /\ Countable(m)' /\ Copies(m) \in Nat
        /\ Copies(m)' = Copies(m) - IF unsettled[q][k].copy.msg = m THEN 1 ELSE 0
    BY <2>1, <2>2, CountSettle
  <2> QED BY <1>4, <2>3 DEF k
<1>5. CASE Kind = "artemis" /\ s # <<>>
  <2>1. 1 \in DOMAIN unsettled[q] /\ Tail(unsettled[q]) = RemoveAt(unsettled[q], 1)
    BY <1>1, <1>5, TailLeaves
  <2>2. unsettled' = [unsettled EXCEPT ![q] = RemoveAt(unsettled[q], 1)]
    BY <1>2, <1>5, <2>1 DEF Acked, SettledByReceiver
  <2>3. /\ Countable(m)' /\ Copies(m) \in Nat
        /\ Copies(m)' = Copies(m) - IF unsettled[q][1].copy.msg = m THEN 1 ELSE 0
    BY <2>1, <2>2, CountSettle
  <2>4. ASSUME unsettled[q][1].handle = h
        PROVE  Holds(q, h) /\ Position(q, h) = 1
    <3>1. Holds(q, h)
      BY <2>1, <2>4 DEF Holds
    <3>2. Position(q, h) \in DOMAIN unsettled[q] /\ unsettled[q][Position(q, h)].handle = h
      BY <3>1, PositionOf
    <3> QED BY <1>1, <2>1, <2>4, <3>1, <3>2 DEF UniqueHandles
  <2> QED BY <2>3, <2>4, <1>5
<1> QED BY <1>3, <1>4, <1>5

LEMMA ClaimTypes ==
  ASSUME CopiesInv, NEW m \in Messages
  PROVE  /\ WorkerSettles(m) \in {0, 1} /\ WorkerAdrift(m) \in {0, 1} /\ WorkerSpare(m) \in {0, 1}
         /\ OperatorSettles(m) \in {0, 1} /\ OperatorSpare(m) \in {0, 1}
         /\ IsFiniteSet(AdriftItems(m)) /\ Cardinality(AdriftItems(m)) \in Nat
         /\ ends[m] \in Nat /\ faults \in Nat
<1>1. DOMAIN batch = 1 .. Len(batch) /\ Len(batch) \in Nat
  <2>1. batch \in Seq(Drawn("dlq"))
    BY DEF CopiesInv, OperatorHolds
  <2> QED BY <2>1
<1>2. IsFiniteSet(1 .. Len(batch)) /\ AdriftItems(m) \in SUBSET (1 .. Len(batch))
  BY <1>1, FS_Interval DEF AdriftItems
<1>3. IsFiniteSet(AdriftItems(m))
  BY <1>2, FS_Subset
<1>4. Cardinality(AdriftItems(m)) \in Nat
  BY <1>3, FS_CardinalityType
<1>5. ends[m] \in Nat /\ faults \in Nat
  BY DEF CopiesInv, RTypeOK
<1> QED BY <1>3, <1>4, <1>5 DEF WorkerSettles, WorkerAdrift, WorkerSpare, OperatorSettles, OperatorSpare

LEMMA WorkerSame ==
  ASSUME UNCHANGED worker, unsettled'["work"] = unsettled["work"], NEW m
  PROVE  /\ WorkerSettles(m)' = WorkerSettles(m) /\ WorkerAdrift(m)' = WorkerAdrift(m)
         /\ WorkerSpare(m)' = WorkerSpare(m)
BY DEF worker, WorkerSettles, WorkerAdrift, WorkerSpare, Holds, Msg

LEMMA OperatorSame ==
  ASSUME UNCHANGED operator, unsettled'["dlq"] = unsettled["dlq"], NEW m
  PROVE  /\ OperatorSettles(m)' = OperatorSettles(m) /\ AdriftItems(m)' = AdriftItems(m)
         /\ OperatorSpare(m)' = OperatorSpare(m)
<1>1. opc' = opc /\ batch' = batch /\ Item' = Item
  BY DEF operator, Item
<1> QED BY <1>1 DEF OperatorSettles, AdriftItems, OperatorSpare, Holds

LEMMA MatchingStays ==
  ASSUME CopiesInv, conf' = conf, faults' = faults \/ faults' = faults + 1
  PROVE  AcksMatch' => AcksMatch
BY DEF AcksMatch, Kind, CopiesInv, RTypeOK

(* A step of the worker that keeps the balance of copies and claims.             *)
LEMMA StockByWorker ==
  ASSUME CopiesInv, CopiesInv', NEW m \in Messages, Stock(m), conf' = conf,
         faults' = faults \/ faults' = faults + 1,
         UNCHANGED operator, unsettled'["dlq"] = unsettled["dlq"],
         Countable(m)', Copies(m) \in Nat, AcksMatch => Copies(m)' \in Int,
         AcksMatch =>
           /\ Copies(m)' + ends'[m] - WorkerSpare(m)' >= Copies(m) + ends[m] - WorkerSpare(m)
           /\ Copies(m)' + ends'[m] + WorkerAdrift(m)' - WorkerSettles(m)' - faults'
                <= Copies(m) + ends[m] + WorkerAdrift(m) - WorkerSettles(m) - faults
  PROVE  Stock(m)'
<1>1. /\ OperatorSettles(m)' = OperatorSettles(m) /\ AdriftItems(m)' = AdriftItems(m)
      /\ OperatorSpare(m)' = OperatorSpare(m)
  BY OperatorSame
<1>2. /\ WorkerSettles(m) \in {0, 1} /\ WorkerAdrift(m) \in {0, 1} /\ WorkerSpare(m) \in {0, 1}
      /\ OperatorSettles(m) \in {0, 1} /\ OperatorSpare(m) \in {0, 1}
      /\ Cardinality(AdriftItems(m)) \in Nat /\ ends[m] \in Nat /\ faults \in Nat
  BY ClaimTypes
<1>3. /\ WorkerSettles(m)' \in {0, 1} /\ WorkerAdrift(m)' \in {0, 1} /\ WorkerSpare(m)' \in {0, 1}
      /\ ends'[m] \in Nat /\ faults' \in Nat
  <2>1. ends'[m] \in Nat /\ faults' \in Nat
    BY DEF CopiesInv, RTypeOK
  <2> QED BY <2>1 DEF WorkerSettles, WorkerAdrift, WorkerSpare
<1>4. AcksMatch' => AcksMatch
  BY MatchingStays
<1>5. ASSUME AcksMatch PROVE Kept(m)' /\ Caused(m)'
  <2>1. /\ Copies(m) + ends[m] >= 1 + WorkerSpare(m) + OperatorSpare(m)
        /\ Copies(m) + ends[m] + WorkerAdrift(m) + Cardinality(AdriftItems(m))
             <= 1 + faults + WorkerSettles(m) + OperatorSettles(m)
    BY <1>5 DEF Stock, Kept, Caused
  <2>2. /\ Copies(m)' + ends'[m] >= 1 + WorkerSpare(m)' + OperatorSpare(m)
        /\ Copies(m)' + ends'[m] + WorkerAdrift(m)' + Cardinality(AdriftItems(m))
             <= 1 + faults' + WorkerSettles(m)' + OperatorSettles(m)
    BY <1>2, <1>3, <1>5, <2>1
  <2> QED BY <1>1, <2>2 DEF Kept, Caused
<1> QED BY <1>4, <1>5 DEF Stock

LEMMA RestedClaims ==
  ASSUME wpc' \in Resting, NEW m
  PROVE  WorkerSettles(m)' = 0 /\ WorkerAdrift(m)' = 0 /\ WorkerSpare(m)' = 0
BY DEF WorkerSettles, WorkerAdrift, WorkerSpare, Resting

(* Before its copy is written the worker has nothing to settle.                  *)
LEMMA UnwrittenClaims ==
  ASSUME wpc # "settle", NEW m
  PROVE  WorkerSettles(m) = 0 /\ WorkerSpare(m) = 0
BY DEF WorkerSettles, WorkerSpare

LEMMA StockWorkerGoesOn ==
  ASSUME CopiesInv, CopiesInv', NEW m \in Messages, Stock(m), conf' = conf,
         HandlerReturns \/ HandlerRaises \/ ShutdownRelease \/ Retry
  PROVE  Stock(m)'
<1>1. /\ UNCHANGED broker /\ UNCHANGED operator /\ UNCHANGED <<cur, ends, faults>>
      /\ wpc \notin Resting /\ wpc' \notin Resting /\ wpc # "settle" /\ wpc' # "settle"
  BY DEF HandlerReturns, HandlerRaises, ShutdownRelease, Retry, Resting
<1>2. ready' = ready /\ unsettled' = unsettled
  BY <1>1 DEF broker
<1>3. Countable(m)' /\ Copies(m) \in Nat /\ Copies(m)' = Copies(m)
  BY <1>2, CountSame DEF Stock
<1>4. /\ WorkerSettles(m) = 0 /\ WorkerSpare(m) = 0
      /\ WorkerSettles(m)' = 0 /\ WorkerSpare(m)' = 0 /\ WorkerAdrift(m)' = WorkerAdrift(m)
  BY <1>1, <1>2 DEF WorkerSettles, WorkerSpare, WorkerAdrift, Holds, Msg
<1>5. ends[m] \in Nat /\ faults \in Nat /\ WorkerAdrift(m) \in {0, 1}
  BY ClaimTypes
<1>6. /\ Copies(m)' + ends'[m] - WorkerSpare(m)' >= Copies(m) + ends[m] - WorkerSpare(m)
      /\ Copies(m)' + ends'[m] + WorkerAdrift(m)' - WorkerSettles(m)' - faults'
           <= Copies(m) + ends[m] + WorkerAdrift(m) - WorkerSettles(m) - faults
  BY <1>1, <1>3, <1>4, <1>5
<1> QED BY <1>1, <1>2, <1>3, <1>6, StockByWorker

LEMMA StockWorkerPop ==
  ASSUME CopiesInv, HandlesInv, CopiesInv', NEW m \in Messages, Stock(m), conf' = conf, WorkerPop
  PROVE  Stock(m)'
<1>1. PICK c \in BagToSet(ready["work"]) :
        /\ Receive("work", c, NewHandle("work", {}))
        /\ cur' = Taken(NewHandle("work", {}), Received(c))
        /\ wpc' = FirstStep(Destination(Received(c)))
  BY DEF WorkerPop
<1>2. /\ wpc = "idle" /\ wpc \in Resting /\ UNCHANGED operator /\ UNCHANGED <<ends, faults>>
      /\ "work" \in Queues /\ "dlq" \in Queues /\ wpc' # "settle"
  BY <1>1 DEF WorkerPop, FirstStep, Resting, Queues
<1>3. PICK h : h = NewHandle("work", {})
  OBVIOUS
<1>4. Receive("work", c, h) /\ cur'.handle = h
  BY <1>1, <1>3 DEF Taken
<1>5. Countable(m)' /\ Copies(m) \in Nat /\ Copies(m)' = Copies(m)
  BY <1>2, <1>4, CountReceive DEF Stock
<1>6. /\ unsettled'["work"] = Append(unsettled["work"], [handle |-> h, copy |-> Received(c)])
      /\ unsettled'["dlq"] = unsettled["dlq"] /\ unsettled["work"] \in Seq(Deliveries("work"))
  <2>1. unsettled = [r \in Queues |-> unsettled[r]] /\ unsettled["work"] \in Seq(Deliveries("work"))
    BY <1>2 DEF CopiesInv, RTypeOK, Fits
  <2> QED BY <1>2, <1>4, <2>1 DEF Receive
<1>7. Holds("work", cur.handle)'
  <2>1. /\ Len(unsettled["work"]) + 1 \in DOMAIN unsettled'["work"]
        /\ unsettled'["work"][Len(unsettled["work"]) + 1] = [handle |-> h, copy |-> Received(c)]
    BY <1>6
  <2> QED BY <1>4, <2>1 DEF Holds
<1>8. /\ WorkerSettles(m) = 0 /\ WorkerSpare(m) = 0 /\ WorkerAdrift(m) = 0
      /\ WorkerSettles(m)' = 0 /\ WorkerSpare(m)' = 0 /\ WorkerAdrift(m)' = 0
  BY <1>2, <1>7 DEF WorkerSettles, WorkerSpare, WorkerAdrift
<1>9. ends[m] \in Nat /\ faults \in Nat
  BY ClaimTypes
<1>10. /\ Copies(m)' + ends'[m] - WorkerSpare(m)' >= Copies(m) + ends[m] - WorkerSpare(m)
       /\ Copies(m)' + ends'[m] + WorkerAdrift(m)' - WorkerSettles(m)' - faults'
            <= Copies(m) + ends[m] + WorkerAdrift(m) - WorkerSettles(m) - faults
  BY <1>2, <1>5, <1>8, <1>9
<1> QED BY <1>2, <1>5, <1>6, <1>10, StockByWorker

LEMMA StockWorkerWrites ==
  ASSUME CopiesInv, CopiesInv', NEW m \in Messages, Stock(m), conf' = conf,
         ReleaseByCopy \/ WriteDeadLetter
  PROVE  Stock(m)'
<1>1. /\ UNCHANGED operator /\ UNCHANGED <<unsettled, cur, ends, faults>>
      /\ wpc' = "settle" /\ wpc # "settle" /\ wpc \notin Resting /\ wpc' \notin Resting
      /\ "work" \in Queues /\ "dlq" \in Queues
  BY DEF ReleaseByCopy, WriteDeadLetter, Resting, Queues
<1>2. PICK q \in Queues : \E n, r, v : Send(q, Msg, n, cur.route, r, v)
  BY <1>1 DEF ReleaseByCopy, WriteDeadLetter
<1>3. PICK n, r, v : Send(q, Msg, n, cur.route, r, v)
  BY <1>2
<1>4. PICK d : d = Copy(Msg, n, Projection(Msg, n, cur.route), r, v)
  OBVIOUS
<1>5. d.msg = Msg /\ ready' = [ready EXCEPT ![q] = @ (+) SetToBag({d})]
  BY <1>3, <1>4 DEF Send, Copy
<1>6. Countable(m)' /\ Copies(m) \in Nat /\ Copies(m)' = Copies(m) + IF Msg = m THEN 1 ELSE 0
  BY <1>1, <1>5, CountSend DEF Stock
<1>7. /\ WorkerSettles(m) = 0 /\ WorkerSpare(m) = 0
      /\ WorkerSettles(m)' = IF Msg = m THEN 1 ELSE 0
      /\ WorkerSpare(m)' <= IF Msg = m THEN 1 ELSE 0
      /\ WorkerSpare(m)' \in Nat
      /\ WorkerAdrift(m)' = WorkerAdrift(m)
  BY <1>1 DEF WorkerSettles, WorkerSpare, WorkerAdrift, Holds, Msg
<1>8. ends[m] \in Nat /\ faults \in Nat /\ WorkerAdrift(m) \in {0, 1}
  BY ClaimTypes
<1>9. /\ Copies(m)' + ends'[m] - WorkerSpare(m)' >= Copies(m) + ends[m] - WorkerSpare(m)
      /\ Copies(m)' + ends'[m] + WorkerAdrift(m)' - WorkerSettles(m)' - faults'
           <= Copies(m) + ends[m] + WorkerAdrift(m) - WorkerSettles(m) - faults
  BY <1>1, <1>6, <1>7, <1>8
<1>10. Copies(m)' \in Int
  BY <1>6
<1> QED BY <1>1, <1>6, <1>9, <1>10, StockByWorker

LEMMA StockWriteFails ==
  ASSUME CopiesInv, CopiesInv', NEW m \in Messages, Stock(m), conf' = conf,
         ReleaseFails \/ DeadLetterFails
  PROVE  Stock(m)'
<1>1. /\ UNCHANGED broker /\ UNCHANGED operator /\ ends' = ends /\ faults' = faults + 1
      /\ wpc # "settle" /\ wpc' # "settle" /\ wpc \notin Resting
      /\ cur' = cur \/ wpc' \in Resting
  BY DEF ReleaseFails, DeadLetterFails, Resting, Fault, Idle
<1>2. ready' = ready /\ unsettled' = unsettled
  BY <1>1 DEF broker
<1>3. Countable(m)' /\ Copies(m) \in Nat /\ Copies(m)' = Copies(m)
  BY <1>2, CountSame DEF Stock
<1>4. /\ WorkerSettles(m) = 0 /\ WorkerSpare(m) = 0
      /\ WorkerSettles(m)' = 0 /\ WorkerSpare(m)' = 0
  BY <1>1 DEF WorkerSettles, WorkerSpare
<1>5. WorkerAdrift(m)' \in {WorkerAdrift(m), 0}
  BY <1>1, <1>2 DEF WorkerAdrift, Holds, Msg
<1>6. ends[m] \in Nat /\ faults \in Nat /\ WorkerAdrift(m) \in {0, 1}
  BY ClaimTypes
<1>7. /\ Copies(m)' + ends'[m] - WorkerSpare(m)' >= Copies(m) + ends[m] - WorkerSpare(m)
      /\ Copies(m)' + ends'[m] + WorkerAdrift(m)' - WorkerSettles(m)' - faults'
           <= Copies(m) + ends[m] + WorkerAdrift(m) - WorkerSettles(m) - faults
  BY <1>1, <1>3, <1>4, <1>5, <1>6
<1> QED BY <1>1, <1>2, <1>3, <1>7, StockByWorker

(* The worker gives its delivery back, if the broker still holds it for it.      *)
LEMMA StockGivenUp ==
  ASSUME CopiesInv, CopiesInv', NEW m \in Messages, Stock(m), conf' = conf,
         UNCHANGED operator, ends' = ends, faults' = faults \/ faults' = faults + 1,
         wpc # "settle", wpc' \in Resting,
         \/ ready' = ready /\ unsettled' = unsettled
         \/ \E d : /\ Holds("work", cur.handle) /\ GiveBack("work", cur.handle, d)
                   /\ d.msg = unsettled["work"][Position("work", cur.handle)].copy.msg
  PROVE  Stock(m)'
<1>1. "work" \in Queues /\ "dlq" \in Queues
  BY DEF Queues
<1>2. /\ Countable(m)' /\ Copies(m) \in Nat /\ Copies(m)' = Copies(m)
      /\ unsettled'["dlq"] = unsettled["dlq"]
  <2>1. CASE ready' = ready /\ unsettled' = unsettled
    BY <2>1, CountSame DEF Stock
  <2>2. ASSUME NEW d, Holds("work", cur.handle), GiveBack("work", cur.handle, d),
               d.msg = unsettled["work"][Position("work", cur.handle)].copy.msg
        PROVE  /\ Countable(m)' /\ Copies(m) \in Nat /\ Copies(m)' = Copies(m)
               /\ unsettled'["dlq"] = unsettled["dlq"]
    <3>1. Countable(m)' /\ Copies(m) \in Nat /\ Copies(m)' = Copies(m)
      BY <1>1, <2>2, CountGiveBack DEF Stock
    <3>2. unsettled'["dlq"] = unsettled["dlq"]
      BY <1>1, <2>2, FewerGivenBack
    <3> QED BY <3>1, <3>2
  <2> QED BY <2>1, <2>2
<1>3. /\ WorkerSettles(m) = 0 /\ WorkerSpare(m) = 0
      /\ WorkerSettles(m)' = 0 /\ WorkerSpare(m)' = 0 /\ WorkerAdrift(m)' = 0
  BY RestedClaims, UnwrittenClaims
<1>4. ends[m] \in Nat /\ faults \in Nat /\ WorkerAdrift(m) \in {0, 1}
  BY ClaimTypes
<1>5. /\ Copies(m)' + ends'[m] - WorkerSpare(m)' >= Copies(m) + ends[m] - WorkerSpare(m)
      /\ Copies(m)' + ends'[m] + WorkerAdrift(m)' - WorkerSettles(m)' - faults'
           <= Copies(m) + ends[m] + WorkerAdrift(m) - WorkerSettles(m) - faults
  BY <1>2, <1>3, <1>4
<1> QED BY <1>2, <1>5, StockByWorker

LEMMA StockReleaseNatively ==
  ASSUME CopiesInv, CopiesInv', NEW m \in Messages, Stock(m), conf' = conf, ReleaseNatively
  PROVE  Stock(m)'
<1> DEFINE c == unsettled["work"][Position("work", cur.handle)].copy
<1>1. /\ UNCHANGED operator /\ ends' = ends /\ faults' = faults
      /\ wpc # "settle" /\ wpc' \in Resting /\ "work" \in Queues
  BY DEF ReleaseNatively, Idle, Resting, Queues
<1>2. CASE ~Holds("work", cur.handle)
  <2>1. ready' = ready /\ unsettled' = unsettled
    BY <1>2 DEF ReleaseNatively, ChangeVisibility, broker
  <2> QED BY <1>1, <2>1, StockGivenUp
<1>3. CASE Holds("work", cur.handle)
  <2>1. PICK d : d = [c EXCEPT !.recorded = @ + Recorded]
    OBVIOUS
  <2>2. GiveBack("work", cur.handle, d)
    BY <1>3, <2>1 DEF ReleaseNatively, ChangeVisibility
  <2>3. d.msg = c.msg
    <3>1. c \in Stocks
      BY <1>1, <1>3, PositionOf, HeldCopy DEF CopiesInv, RTypeOK, Out, Copied
    <3> QED BY <2>1, <3>1 DEF Stocks
  <2> QED BY <1>1, <1>3, <2>2, <2>3, StockGivenUp
<1> QED BY <1>2, <1>3

LEMMA StockGiveUp ==
  ASSUME CopiesInv, HandlesInv, CopiesInv', NEW m \in Messages, Stock(m), conf' = conf, GiveUp
  PROVE  Stock(m)'
<1> DEFINE c == unsettled["work"][Position("work", cur.handle)].copy
<1>1. /\ UNCHANGED operator /\ ends' = ends /\ (faults' = faults \/ faults' = faults + 1)
      /\ wpc # "settle" /\ wpc' \in Resting /\ wpc \notin Resting /\ "work" \in Queues
  BY DEF GiveUp, Idle, Resting, Fault, Queues
<1>2. CASE UNCHANGED broker
  BY <1>1, <1>2, StockGivenUp DEF broker
<1>3. CASE wpc = "rewind" /\ NegativeAcknowledge(cur.handle)
  <2>1. Holds("work", cur.handle)
    BY <1>1, <1>3 DEF HandlesInv, WorkerHeld, CountedOnReceipt, CopiesInv, WorkerHolds
  <2>2. PICK counted \in BOOLEAN : GiveBack("work", cur.handle, Returned(c, counted))
    BY <1>3 DEF NegativeAcknowledge
  <2>3. Returned(c, counted).msg = c.msg
    <3>1. c \in Stocks
      BY <1>1, <2>1, PositionOf, HeldCopy DEF CopiesInv, RTypeOK, Out, Copied
    <3> QED BY <3>1 DEF Returned, Stocks
  <2> QED BY <1>1, <2>1, <2>2, <2>3, StockGivenUp
<1>4. CASE Abandon(cur.handle)
  <2>1. CASE Holds("work", cur.handle)
    <3>1. GiveBack("work", cur.handle, c)
      BY <1>4, <2>1 DEF Abandon
    <3> QED BY <1>1, <2>1, <3>1, StockGivenUp
  <2>2. CASE ~Holds("work", cur.handle)
    BY <1>2, <1>4, <2>2 DEF Abandon
  <2> QED BY <2>1, <2>2
<1> QED BY <1>2, <1>3, <1>4 DEF GiveUp

(* The worker rests, whatever became of its delivery, and no copy is gone.       *)
LEMMA StockWorkerRests ==
  ASSUME CopiesInv, CopiesInv', NEW m \in Messages, Stock(m), conf' = conf,
         UNCHANGED operator, ends' = ends, wpc' \in Resting, unsettled'["dlq"] = unsettled["dlq"],
         Countable(m)', Copies(m) \in Nat, Copies(m)' = Copies(m),
         \/ faults' = faults + 1
         \/ faults' = faults /\ (wpc # "settle" \/ ~Holds("work", cur.handle))
  PROVE  Stock(m)'
<1>1. /\ WorkerSettles(m) \in {0, 1} /\ WorkerAdrift(m) \in {0, 1} /\ WorkerSpare(m) \in {0, 1}
      /\ ends[m] \in Nat /\ faults \in Nat
  BY ClaimTypes
<1>2. faults' = faults + 1 \/ (faults' = faults /\ WorkerSettles(m) <= WorkerAdrift(m))
  BY DEF WorkerSettles, WorkerAdrift, Resting
<1>3. WorkerSettles(m)' = 0 /\ WorkerAdrift(m)' = 0 /\ WorkerSpare(m)' = 0
  BY RestedClaims
<1>4. /\ Copies(m)' + ends'[m] - WorkerSpare(m)' >= Copies(m) + ends[m] - WorkerSpare(m)
      /\ Copies(m)' + ends'[m] + WorkerAdrift(m)' - WorkerSettles(m)' - faults'
           <= Copies(m) + ends[m] + WorkerAdrift(m) - WorkerSettles(m) - faults
  BY <1>1, <1>2, <1>3
<1>5. (faults' = faults \/ faults' = faults + 1) /\ Copies(m)' \in Int
  OBVIOUS
<1> QED BY <1>4, <1>5, StockByWorker

(* The worker settles its delivery: the message ends, unless it lives on in a    *)
(* copy.                                                                         *)
LEMMA StockWorkerAcks ==
  ASSUME CopiesInv, HandlesInv, CopiesInv', NEW m \in Messages, Stock(m), conf' = conf,
         UNCHANGED operator, faults' = faults, wpc \notin Resting, wpc' \in Resting,
         Ack("work", cur.handle), ready' = ready,
         IF wpc # "settle" /\ Holds("work", cur.handle) THEN End(Msg) ELSE ends' = ends
  PROVE  Stock(m)'
<1> DEFINE held == Holds("work", cur.handle)
           one == IF held /\ Msg = m THEN 1 ELSE 0
           done == IF wpc # "settle" THEN one ELSE 0
<1>1. "work" \in Queues /\ "dlq" \in Queues
  BY DEF Queues
<1>2. unsettled'["dlq"] = unsettled["dlq"]
  BY <1>1, FewerAfterAck
<1>3. Countable(m)' /\ Copies(m) \in Nat
  BY <1>1, CountAck DEF Stock
<1>4. ASSUME AcksMatch PROVE Copies(m)' = Copies(m) - one
  <2>1. Kind = "artemis" => unsettled["work"] # <<>> /\ unsettled["work"][1].handle = cur.handle
    <3>1. unsettled["work"] \in Seq(Deliveries("work"))
      BY <1>1 DEF CopiesInv, RTypeOK, Fits
    <3>2. unsettled["work"] # <<>> => 1 \in DOMAIN unsettled["work"]
      BY <3>1
    <3> QED BY <1>4, <3>2 DEF AcksMatch, HandlesInv, InOrder
  <2>2. Copies(m)' = Copies(m) -
          IF held /\ unsettled["work"][Position("work", cur.handle)].copy.msg = m THEN 1 ELSE 0
    BY <1>1, <2>1, CountAck DEF Stock
  <2>3. held => unsettled["work"][Position("work", cur.handle)].copy.msg = Msg
    <3>1. held => /\ Position("work", cur.handle) \in DOMAIN unsettled["work"]
                  /\ unsettled["work"][Position("work", cur.handle)].handle = cur.handle
      BY <1>1, PositionOf
    <3> QED BY <3>1 DEF HandlesInv, WorkerTied, Msg
  <2> QED BY <2>2, <2>3
<1>5. ends[m] \in Nat /\ faults \in Nat
  BY ClaimTypes
<1>6. ends'[m] = ends[m] + done
  <2>1. ends \in [Messages -> Nat]
    BY DEF CopiesInv, RTypeOK
  <2> QED BY <1>5, <2>1 DEF End
<1>7. /\ WorkerSettles(m)' = 0 /\ WorkerAdrift(m)' = 0 /\ WorkerSpare(m)' = 0
  BY RestedClaims
<1>8. CASE wpc = "settle"
  <2>1. /\ WorkerSpare(m) = one /\ WorkerAdrift(m) = WorkerSettles(m) - one /\ done = 0
        /\ WorkerSettles(m) \in {0, 1} /\ one \in {0, 1}
    BY <1>8 DEF WorkerSpare, WorkerAdrift, WorkerSettles
  <2>2. AcksMatch =>
          /\ Copies(m)' + ends'[m] - WorkerSpare(m)' >= Copies(m) + ends[m] - WorkerSpare(m)
          /\ Copies(m)' + ends'[m] + WorkerAdrift(m)' - WorkerSettles(m)' - faults'
               <= Copies(m) + ends[m] + WorkerAdrift(m) - WorkerSettles(m) - faults
    <3> HIDE DEF one, done
    <3> QED BY <1>3, <1>4, <1>5, <1>6, <1>7, <2>1
  <2>3. AcksMatch => Copies(m)' \in Int
    <3> HIDE DEF one, done
    <3> QED BY <1>3, <1>4, <2>1
  <2> HIDE DEF one, done, held
  <2> QED BY <1>2, <1>3, <2>2, <2>3, StockByWorker
<1>9. CASE wpc # "settle"
  <2>1. /\ WorkerSpare(m) = 0 /\ WorkerAdrift(m) \in {0, 1} /\ WorkerSettles(m) = 0
        /\ done = one /\ one \in {0, 1}
    BY <1>9 DEF WorkerSpare, WorkerAdrift, WorkerSettles
  <2>2. AcksMatch =>
          /\ Copies(m)' + ends'[m] - WorkerSpare(m)' >= Copies(m) + ends[m] - WorkerSpare(m)
          /\ Copies(m)' + ends'[m] + WorkerAdrift(m)' - WorkerSettles(m)' - faults'
               <= Copies(m) + ends[m] + WorkerAdrift(m) - WorkerSettles(m) - faults
    <3> HIDE DEF one, done
    <3> QED BY <1>3, <1>4, <1>5, <1>6, <1>7, <2>1
  <2>3. AcksMatch => Copies(m)' \in Int
    <3> HIDE DEF one, done
    <3> QED BY <1>3, <1>4, <2>1
  <2> HIDE DEF one, done, held
  <2> QED BY <1>2, <1>3, <2>2, <2>3, StockByWorker
<1> QED BY <1>8, <1>9

LEMMA StockSettleNative ==
  ASSUME CopiesInv, HandlesInv, CopiesInv', NEW m \in Messages, Stock(m), conf' = conf, SettleNative
  PROVE  Stock(m)'
<1>1. /\ UNCHANGED operator /\ wpc = "native" /\ wpc # "settle" /\ wpc \notin Resting /\ wpc' \in Resting
  BY DEF SettleNative, Idle, Resting
<1>2. CASE /\ Kind = "asb" /\ ~AckRefused("work", cur.handle)
           /\ AsbSettleNative(cur.handle)
           /\ End(Msg) /\ UNCHANGED faults
  <2>1. Holds("work", cur.handle) /\ Ack("work", cur.handle) /\ ready' = ready /\ faults' = faults
    BY <1>2 DEF AckRefused, AsbSettleNative
  <2> QED BY <1>1, <1>2, <2>1, StockWorkerAcks
<1>3. CASE /\ ready' = ready /\ unsettled' = unsettled /\ ends' = ends
           /\ (faults' = faults \/ faults' = faults + 1)
  <2>1. Countable(m)' /\ Copies(m) \in Nat /\ Copies(m)' = Copies(m)
    BY <1>3, CountSame DEF Stock
  <2> QED BY <1>1, <1>3, <2>1, StockWorkerRests
<1> QED BY <1>2, <1>3 DEF SettleNative, SqsSettleNative, broker, Fault

LEMMA StockAckSettled ==
  ASSUME CopiesInv, HandlesInv, CopiesInv', NEW m \in Messages, Stock(m), conf' = conf, AckSettled
  PROVE  Stock(m)'
<1>1. /\ UNCHANGED operator /\ wpc \in {"final", "settle"} /\ wpc \notin Resting /\ wpc' \in Resting
      /\ ready' = ready
  BY DEF AckSettled, Idle, Resting
<1>2. CASE /\ Ack("work", cur.handle)
           /\ IF wpc = "final" /\ Holds("work", cur.handle) THEN End(Msg) ELSE UNCHANGED ends
           /\ UNCHANGED faults
  <2>1. IF wpc # "settle" /\ Holds("work", cur.handle) THEN End(Msg) ELSE ends' = ends
    BY <1>1, <1>2
  <2>2. faults' = faults
    BY <1>2
  <2> QED BY <1>1, <1>2, <2>1, <2>2, StockWorkerAcks
<1>3. CASE /\ (AckRefused("work", cur.handle) /\ UNCHANGED faults) \/ Fault
           /\ UNCHANGED <<unsettled, ends>>
  <2>1. Countable(m)' /\ Copies(m) \in Nat /\ Copies(m)' = Copies(m)
    BY <1>1, <1>3, CountSame DEF Stock
  <2>2. faults' = faults + 1 \/ (faults' = faults /\ ~Holds("work", cur.handle))
    BY <1>3 DEF AckRefused, Fault
  <2> QED BY <1>1, <1>3, <2>1, <2>2, StockWorkerRests
<1> QED BY <1>2, <1>3 DEF AckSettled

LEMMA StockWorkerStops ==
  ASSUME CopiesInv, CopiesInv', NEW m \in Messages, Stock(m), conf' = conf, WorkerCrash \/ WorkerExit
  PROVE  Stock(m)'
<1>1. /\ UNCHANGED operator /\ ends' = ends /\ wpc' \in Resting /\ Close("work")
      /\ (faults' = faults + 1 \/ (faults' = faults /\ wpc # "settle"))
      /\ "work" \in Queues /\ "dlq" \in Queues
  BY DEF WorkerCrash, WorkerExit, Fault, Idle, Resting, Queues
<1>2. Countable(m)' /\ Copies(m) \in Nat /\ Copies(m)' = Copies(m)
  BY <1>1, CountClose DEF Stock
<1>3. unsettled'["dlq"] = unsettled["dlq"]
  BY <1>1, FewerClosed
<1> QED BY <1>1, <1>2, <1>3, StockWorkerRests

(* A step of the operator that keeps the balance of copies and claims.           *)
LEMMA StockByOperator ==
  ASSUME CopiesInv, CopiesInv', NEW m \in Messages, Stock(m), conf' = conf,
         faults' = faults \/ faults' = faults + 1,
         UNCHANGED worker, ends' = ends, unsettled'["work"] = unsettled["work"],
         Countable(m)', Copies(m) \in Nat, AcksMatch => Copies(m)' \in Int,
         AcksMatch =>
           /\ Copies(m)' - OperatorSpare(m)' >= Copies(m) - OperatorSpare(m)
           /\ Copies(m)' + Cardinality(AdriftItems(m)') - OperatorSettles(m)' - faults'
                <= Copies(m) + Cardinality(AdriftItems(m)) - OperatorSettles(m) - faults,
         Cardinality(AdriftItems(m)') \in Nat
  PROVE  Stock(m)'
<1>1. /\ WorkerSettles(m)' = WorkerSettles(m) /\ WorkerAdrift(m)' = WorkerAdrift(m)
      /\ WorkerSpare(m)' = WorkerSpare(m)
  BY WorkerSame
<1>2. /\ WorkerSettles(m) \in {0, 1} /\ WorkerAdrift(m) \in {0, 1} /\ WorkerSpare(m) \in {0, 1}
      /\ OperatorSettles(m) \in {0, 1} /\ OperatorSpare(m) \in {0, 1}
      /\ Cardinality(AdriftItems(m)) \in Nat /\ ends[m] \in Nat /\ faults \in Nat
  BY ClaimTypes
<1>3. OperatorSettles(m)' \in {0, 1} /\ OperatorSpare(m)' \in {0, 1} /\ faults' \in Nat
  <2>1. faults' \in Nat
    BY DEF CopiesInv, RTypeOK
  <2> QED BY <2>1 DEF OperatorSettles, OperatorSpare
<1>4. AcksMatch' => AcksMatch
  BY MatchingStays
<1>5. ASSUME AcksMatch PROVE Kept(m)' /\ Caused(m)'
  <2>1. /\ Copies(m) + ends[m] >= 1 + WorkerSpare(m) + OperatorSpare(m)
        /\ Copies(m) + ends[m] + WorkerAdrift(m) + Cardinality(AdriftItems(m))
             <= 1 + faults + WorkerSettles(m) + OperatorSettles(m)
    BY <1>5 DEF Stock, Kept, Caused
  <2>2. PICK n : n = Cardinality(AdriftItems(m)')
    OBVIOUS
  <2>3. /\ Copies(m)' + ends[m] >= 1 + WorkerSpare(m) + OperatorSpare(m)'
        /\ Copies(m)' + ends[m] + WorkerAdrift(m) + n
             <= 1 + faults' + WorkerSettles(m) + OperatorSettles(m)'
    BY <1>2, <1>3, <1>5, <2>1, <2>2
  <2> QED BY <1>1, <2>2, <2>3 DEF Kept, Caused
<1> QED BY <1>4, <1>5 DEF Stock

(* Away from its acknowledgements the operator has nothing to settle.            *)
LEMMA NothingToSettle ==
  ASSUME opc # "ack", NEW m
  PROVE  OperatorSettles(m) = 0 /\ OperatorSpare(m) = 0
BY DEF OperatorSettles, OperatorSpare

LEMMA NothingLeftToSettle ==
  ASSUME opc' # "ack", NEW m
  PROVE  OperatorSettles(m)' = 0 /\ OperatorSpare(m)' = 0
BY DEF OperatorSettles, OperatorSpare

LEMMA StockOperatorGoesOn ==
  ASSUME CopiesInv, CopiesInv', NEW m \in Messages, Stock(m), conf' = conf,
         StartRedrive \/ Drained \/ ChooseItem \/ RepublishFails
  PROVE  Stock(m)'
<1>1. /\ UNCHANGED broker /\ UNCHANGED worker /\ ends' = ends /\ opc # "ack" /\ opc' # "ack"
      /\ (faults' = faults \/ faults' = faults + 1) /\ batch' = batch
  BY DEF StartRedrive, Drained, ChooseItem, RepublishFails, AfterFailedRepublish, Stop, Fault
<1>2. ready' = ready /\ unsettled' = unsettled
  BY <1>1 DEF broker
<1>3. Countable(m)' /\ Copies(m) \in Nat /\ Copies(m)' = Copies(m)
  BY <1>2, CountSame DEF Stock
<1>4. /\ OperatorSettles(m) = 0 /\ OperatorSpare(m) = 0
      /\ OperatorSettles(m)' = 0 /\ OperatorSpare(m)' = 0
  BY <1>1, NothingToSettle, NothingLeftToSettle
<1>5. AdriftItems(m)' = AdriftItems(m)
  BY <1>1, <1>2 DEF AdriftItems, Holds
<1>6. Cardinality(AdriftItems(m)) \in Nat /\ faults \in Nat
  BY ClaimTypes
<1>7. /\ Copies(m)' - OperatorSpare(m)' >= Copies(m) - OperatorSpare(m)
      /\ Copies(m)' + Cardinality(AdriftItems(m)') - OperatorSettles(m)' - faults'
           <= Copies(m) + Cardinality(AdriftItems(m)) - OperatorSettles(m) - faults
  BY <1>1, <1>3, <1>4, <1>5, <1>6
<1>8. Copies(m)' \in Int /\ Cardinality(AdriftItems(m)') \in Nat
  BY <1>3, <1>5, <1>6
<1> QED BY <1>1, <1>2, <1>3, <1>7, <1>8, StockByOperator

LEMMA StockDrainOne ==
  ASSUME CopiesInv, HandlesInv, CopiesInv', NEW m \in Messages, Stock(m), conf' = conf, DrainOne
  PROVE  Stock(m)'
<1>1. PICK h : h = NewHandle("dlq", {batch[i].handle : i \in DOMAIN batch})
  OBVIOUS
<1>2. PICK c \in BagToSet(ready["dlq"]) :
        Receive("dlq", c, h) /\ batch' = Append(batch, Taken(h, Received(c)))
  BY <1>1 DEF DrainOne
<1>3. /\ UNCHANGED worker /\ UNCHANGED <<opc, ends, faults>> /\ opc # "ack" /\ opc' # "ack"
      /\ "work" \in Queues /\ "dlq" \in Queues /\ "work" # "dlq"
  BY DEF DrainOne, Queues
<1>4. Countable(m)' /\ Copies(m) \in Nat /\ Copies(m)' = Copies(m)
  BY <1>2, <1>3, CountReceive DEF Stock
<1>5. /\ \A i \in DOMAIN unsettled["dlq"] : unsettled["dlq"][i].handle # h
      /\ \A i \in DOMAIN batch : batch[i].handle # h
  BY <1>1, FreshInDrain
<1>6. /\ unsettled'["work"] = unsettled["work"]
      /\ DOMAIN unsettled'["dlq"] = DOMAIN unsettled["dlq"] \cup {Len(unsettled["dlq"]) + 1}
      /\ unsettled'["dlq"][Len(unsettled["dlq"]) + 1].handle = h
      /\ \A i \in DOMAIN unsettled["dlq"] : unsettled'["dlq"][i] = unsettled["dlq"][i]
  <2>1. /\ \A r \in Queues : r # "dlq" => unsettled'[r] = unsettled[r]
        /\ DOMAIN unsettled'["dlq"] = DOMAIN unsettled["dlq"] \cup {Len(unsettled["dlq"]) + 1}
        /\ unsettled'["dlq"][Len(unsettled["dlq"]) + 1] = [handle |-> h, copy |-> Received(c)]
        /\ \A i \in DOMAIN unsettled["dlq"] : unsettled'["dlq"][i] = unsettled["dlq"][i]
    BY <1>2, <1>3, <1>5, HandlesReceive
  <2> QED BY <1>3, <2>1
<1>7. \A g : Holds("dlq", g)' <=> g = h \/ Holds("dlq", g)
  BY <1>6 DEF Holds
<1>8. AdriftItems(m)' = AdriftItems(m)
  <2>1. batch \in Seq(Drawn("dlq"))
    BY DEF CopiesInv, OperatorHolds
  <2>2. PICK d : d = Taken(h, Received(c))
    OBVIOUS
  <2>3. d.handle = h /\ batch' = Append(batch, d)
    BY <1>2, <2>2 DEF Taken
  <2>4. /\ DOMAIN batch' = DOMAIN batch \cup {Len(batch) + 1}
        /\ batch'[Len(batch) + 1] = d /\ \A i \in DOMAIN batch : batch'[i] = batch[i]
    BY <2>1, <2>3
  <2> QED BY <1>5, <1>7, <2>3, <2>4 DEF AdriftItems
<1>9. /\ OperatorSettles(m) = 0 /\ OperatorSpare(m) = 0
      /\ OperatorSettles(m)' = 0 /\ OperatorSpare(m)' = 0
  BY <1>3, NothingToSettle, NothingLeftToSettle
<1>10. Cardinality(AdriftItems(m)) \in Nat /\ faults \in Nat
  BY ClaimTypes
<1>11. /\ Copies(m)' - OperatorSpare(m)' >= Copies(m) - OperatorSpare(m)
       /\ Copies(m)' + Cardinality(AdriftItems(m)') - OperatorSettles(m)' - faults'
            <= Copies(m) + Cardinality(AdriftItems(m)) - OperatorSettles(m) - faults
  BY <1>3, <1>4, <1>8, <1>9, <1>10
<1>12. Copies(m)' \in Int /\ Cardinality(AdriftItems(m)') \in Nat
  BY <1>4, <1>8, <1>10
<1> QED BY <1>3, <1>4, <1>6, <1>11, <1>12, StockByOperator

LEMMA StockOperatorWrites ==
  ASSUME CopiesInv, CopiesInv', NEW m \in Messages, Stock(m), conf' = conf, Restore \/ Republish
  PROVE  Stock(m)'
<1>1. /\ UNCHANGED worker /\ UNCHANGED <<unsettled, batch, ends, faults>>
      /\ opc' = "ack" /\ opc # "ack" /\ "work" \in Queues /\ "dlq" \in Queues
  BY DEF Restore, Republish, Queues
<1>2. PICK q \in Queues : \E n, r, v : Send(q, Item.copy.msg, n, Item.route, r, v)
  BY <1>1 DEF Restore, Republish
<1>3. PICK n, r, v : Send(q, Item.copy.msg, n, Item.route, r, v)
  BY <1>2
<1>4. PICK d : d = Copy(Item.copy.msg, n, Projection(Item.copy.msg, n, Item.route), r, v)
  OBVIOUS
<1>5. d.msg = Item.copy.msg /\ ready' = [ready EXCEPT ![q] = @ (+) SetToBag({d})]
  BY <1>3, <1>4 DEF Send, Copy
<1>6. Countable(m)' /\ Copies(m) \in Nat /\ Copies(m)' = Copies(m) + IF Item.copy.msg = m THEN 1 ELSE 0
  BY <1>1, <1>5, CountSend DEF Stock
<1>7. /\ OperatorSettles(m) = 0 /\ OperatorSpare(m) = 0
      /\ OperatorSettles(m)' = IF Item.copy.msg = m THEN 1 ELSE 0
      /\ OperatorSpare(m)' <= IF Item.copy.msg = m THEN 1 ELSE 0
      /\ OperatorSpare(m)' \in Nat
  <2>1. Item' = Item
    BY <1>1 DEF Item
  <2> QED BY <1>1, <2>1 DEF OperatorSettles, OperatorSpare
<1>8. AdriftItems(m)' = AdriftItems(m)
  BY <1>1 DEF AdriftItems, Holds
<1>9. Cardinality(AdriftItems(m)) \in Nat /\ faults \in Nat
  BY ClaimTypes
<1>10. /\ Copies(m)' - OperatorSpare(m)' >= Copies(m) - OperatorSpare(m)
       /\ Copies(m)' + Cardinality(AdriftItems(m)') - OperatorSettles(m)' - faults'
            <= Copies(m) + Cardinality(AdriftItems(m)) - OperatorSettles(m) - faults
  BY <1>1, <1>6, <1>7, <1>8, <1>9
<1>11. Copies(m)' \in Int /\ Cardinality(AdriftItems(m)') \in Nat
  BY <1>6, <1>8, <1>9
<1> QED BY <1>1, <1>6, <1>10, <1>11, StockByOperator

(* The operator stops, and no copy is gone.                                      *)
LEMMA StockOperatorStops ==
  ASSUME CopiesInv, CopiesInv', NEW m \in Messages, Stock(m), conf' = conf,
         RedriveRaises \/ OperatorCrash \/ OperatorExit
  PROVE  Stock(m)'
<1>1. /\ UNCHANGED worker /\ ends' = ends /\ opc' = "off" /\ batch' = <<>>
      /\ (faults' = faults + 1 \/ (faults' = faults /\ (opc # "ack" \/ ~Holds("dlq", Item.handle))))
      /\ "work" \in Queues /\ "dlq" \in Queues /\ "work" # "dlq"
  <2>1. CASE RedriveRaises
    BY <2>1 DEF RedriveRaises, AckRefused, Stop, Fault, Queues
  <2>2. CASE OperatorCrash
    BY <2>2 DEF OperatorCrash, Stop, Fault, Queues
  <2>3. CASE OperatorExit
    BY <2>3 DEF OperatorExit, operator, CopiesInv, OperatorHolds, Queues
  <2> QED BY <2>1, <2>2, <2>3
<1>2. /\ Countable(m)' /\ Copies(m) \in Nat /\ Copies(m)' = Copies(m)
      /\ unsettled'["work"] = unsettled["work"]
  <2>1. CASE RedriveRaises
    BY <2>1, CountSame DEF RedriveRaises, broker, Stock
  <2>2. CASE Close("dlq")
    <3>1. Countable(m)' /\ Copies(m) \in Nat /\ Copies(m)' = Copies(m)
      BY <1>1, <2>2, CountClose DEF Stock
    <3>2. unsettled'["work"] = unsettled["work"]
      BY <1>1, <2>2, FewerClosed
    <3> QED BY <3>1, <3>2
  <2> QED BY <2>1, <2>2 DEF OperatorCrash, OperatorExit
<1>3. AdriftItems(m)' = {} /\ Cardinality(AdriftItems(m)') = 0
  <2>1. AdriftItems(m)' = {}
    BY <1>1 DEF AdriftItems
  <2> QED BY <2>1, FS_EmptySet
<1>4. /\ OperatorSettles(m) \in {0, 1} /\ OperatorSpare(m) \in {0, 1}
      /\ IsFiniteSet(AdriftItems(m)) /\ Cardinality(AdriftItems(m)) \in Nat /\ faults \in Nat
  BY ClaimTypes
<1>5. OperatorSettles(m)' = 0 /\ OperatorSpare(m)' = 0
  BY <1>1, NothingLeftToSettle
<1>6. faults' = faults + 1 \/ (faults' = faults /\ OperatorSettles(m) <= Cardinality(AdriftItems(m)))
  <2>1. CASE OperatorSettles(m) = 1 /\ ~Holds("dlq", Item.handle)
    <3>1. 1 \in AdriftItems(m)
      <4>1. opc = "ack" /\ Item.copy.msg = m
        BY <2>1 DEF OperatorSettles
      <4>2. 1 \in DOMAIN batch /\ Item = batch[1]
        BY <4>1, ItemHolding
      <4> QED BY <2>1, <4>1, <4>2 DEF AdriftItems
    <3>2. Cardinality(AdriftItems(m)) # 0
      BY <1>4, <3>1, FS_EmptySet
    <3> QED BY <1>1, <1>4, <2>1, <3>2
  <2>2. CASE OperatorSettles(m) = 0 \/ Holds("dlq", Item.handle)
    BY <1>1, <1>4, <2>2 DEF OperatorSettles
  <2> QED BY <1>4, <2>1, <2>2
<1>7. /\ Copies(m)' - OperatorSpare(m)' >= Copies(m) - OperatorSpare(m)
      /\ Copies(m)' + Cardinality(AdriftItems(m)') - OperatorSettles(m)' - faults'
           <= Copies(m) + Cardinality(AdriftItems(m)) - OperatorSettles(m) - faults
  BY <1>2, <1>3, <1>4, <1>5, <1>6
<1>8. /\ Copies(m)' \in Int /\ Cardinality(AdriftItems(m)') \in Nat
      /\ (faults' = faults \/ faults' = faults + 1)
  BY <1>1, <1>2, <1>3
<1> QED BY <1>1, <1>2, <1>7, <1>8, StockByOperator

(* What was not removed is still there.                                          *)
LEMMA OthersRemain ==
  ASSUME NEW S, NEW s \in Seq(S), NEW k \in DOMAIN s
  PROVE  \A i \in DOMAIN s : i # k => \E j \in DOMAIN RemoveAt(s, k) : RemoveAt(s, k)[j] = s[i]
<1> DEFINE t == RemoveAt(s, k)
<1>1. t \in Seq(S) /\ Len(t) = Len(s) - 1 /\ Len(s) \in Nat
  BY Leaving
<1>2. \A j \in 1 .. Len(s) - 1 : t[j] = IF j < k THEN s[j] ELSE s[j + 1]
  BY Leaving
<1> HIDE DEF t
<1>3. DOMAIN t = 1 .. Len(s) - 1 /\ DOMAIN s = 1 .. Len(s)
  BY <1>1
<1>4. ASSUME NEW i \in DOMAIN s, i # k PROVE \E j \in DOMAIN t : t[j] = s[i]
  <2>1. CASE i < k
    <3>1. i \in 1 .. Len(s) - 1
      BY <1>1, <1>3, <2>1
    <3> QED BY <1>2, <1>3, <2>1, <3>1
  <2>2. CASE ~(i < k)
    <3>1. i - 1 \in 1 .. Len(s) - 1 /\ ~(i - 1 < k) /\ (i - 1) + 1 = i
      BY <1>1, <1>3, <1>4, <2>2
    <3> QED BY <1>2, <1>3, <3>1
  <2> QED BY <2>1, <2>2
<1> QED BY <1>4 DEF t

(* An acknowledgement takes no delivery but its own.                             *)
LEMMA AckKeepsOthers ==
  ASSUME CopiesInv, NEW q \in Queues, NEW h, Ack(q, h),
         Kind = "artemis" => unsettled[q] # <<>> /\ unsettled[q][1].handle = h
  PROVE  \A g : g # h /\ Holds(q, g) => Holds(q, g)'
<1> DEFINE s == unsettled[q]
<1>1. s \in Seq(Deliveries(q)) /\ unsettled = [r \in Queues |-> unsettled[r]]
  BY DEF CopiesInv, RTypeOK, Fits
<1>2. unsettled'[q] = Acked(q, h)
  BY <1>1 DEF Ack
<1>3. Acked(q, h) = s \/ \E k \in DOMAIN s : s[k].handle = h /\ Acked(q, h) = RemoveAt(s, k)
  <2>1. CASE Kind = "artemis"
    BY <1>1, <2>1, TailLeaves DEF Acked, SettledByReceiver
  <2>2. CASE Kind # "artemis"
    BY <2>2, PositionOf DEF Acked, SettledByHandle
  <2> QED BY <2>1, <2>2
<1> SUFFICES ASSUME NEW g, g # h, Holds(q, g) PROVE Holds(q, g)'
  OBVIOUS
<1>4. PICK i \in DOMAIN s : s[i].handle = g
  BY DEF Holds
<1>5. CASE Acked(q, h) = s
  BY <1>2, <1>4, <1>5 DEF Holds
<1>6. CASE \E k \in DOMAIN s : s[k].handle = h /\ Acked(q, h) = RemoveAt(s, k)
  <2>1. PICK k \in DOMAIN s : s[k].handle = h /\ Acked(q, h) = RemoveAt(s, k)
    BY <1>6
  <2>2. i # k
    BY <1>4, <2>1
  <2>3. \E j \in DOMAIN RemoveAt(s, k) : RemoveAt(s, k)[j] = s[i]
    BY <1>1, <2>2, OthersRemain
  <2> HIDE DEF s
  <2>4. \E j \in DOMAIN unsettled'[q] : unsettled'[q][j].handle = g
    BY <1>2, <1>4, <2>1, <2>3
  <2> QED BY <2>4 DEF Holds
<1> QED BY <1>3, <1>5, <1>6

LEMMA StockAckItem ==
  ASSUME CopiesInv, HandlesInv, CopiesInv', NEW m \in Messages, Stock(m), conf' = conf, AckItem
  PROVE  Stock(m)'
<1> DEFINE held == Holds("dlq", Item.handle)
           its == IF Item.copy.msg = m THEN 1 ELSE 0
           one == IF held /\ Item.copy.msg = m THEN 1 ELSE 0
<1>1. /\ UNCHANGED worker /\ UNCHANGED <<ready, ends, faults>>
      /\ opc = "ack" /\ opc' # "ack" /\ Ack("dlq", Item.handle)
      /\ batch' = <<>> \/ batch' = Tail(batch)
      /\ "work" \in Queues /\ "dlq" \in Queues /\ "work" # "dlq"
  BY DEF AckItem, ItemSettled, Stop, Queues
<1>2. 1 \in DOMAIN batch /\ Item = batch[1]
  BY <1>1, ItemHolding
<1>3. unsettled'["work"] = unsettled["work"]
  BY <1>1, FewerAfterAck
<1>4. Countable(m)' /\ Copies(m) \in Nat
  BY <1>1, CountAck DEF Stock
<1>5. batch \in Seq(Drawn("dlq")) /\ unsettled["dlq"] \in Seq(Deliveries("dlq"))
  BY <1>1 DEF CopiesInv, OperatorHolds, RTypeOK, Fits
<1>6. AcksMatch => (Kind = "artemis" => unsettled["dlq"] # <<>> /\ unsettled["dlq"][1].handle = Item.handle)
  <2> SUFFICES ASSUME Kind = "artemis", faults = 0
               PROVE  unsettled["dlq"] # <<>> /\ unsettled["dlq"][1].handle = Item.handle
    BY DEF AcksMatch
  <2>1. Len(unsettled["dlq"]) = Len(batch) /\ unsettled["dlq"][1].handle = batch[1].handle
    BY <1>2 DEF HandlesInv, InOrder
  <2>2. Len(batch) # 0
    BY <1>2, <1>5
  <2> QED BY <1>2, <1>5, <2>1, <2>2
<1>7. AcksMatch => Copies(m)' = Copies(m) - one
  <2>1. AcksMatch => Copies(m)' = Copies(m) -
          IF held /\ unsettled["dlq"][Position("dlq", Item.handle)].copy.msg = m THEN 1 ELSE 0
    BY <1>1, <1>6, CountAck DEF Stock
  <2>2. held => unsettled["dlq"][Position("dlq", Item.handle)].copy.msg = Item.copy.msg
    <3>1. held => /\ Position("dlq", Item.handle) \in DOMAIN unsettled["dlq"]
                  /\ unsettled["dlq"][Position("dlq", Item.handle)].handle = Item.handle
      BY <1>1, PositionOf
    <3> QED BY <1>2, <3>1 DEF HandlesInv, BatchTied
  <2> QED BY <2>1, <2>2
<1>8. /\ IsFiniteSet(AdriftItems(m)) /\ Cardinality(AdriftItems(m)) \in Nat /\ faults \in Nat
      /\ OperatorSettles(m)' = 0 /\ OperatorSpare(m)' = 0
  BY <1>1, ClaimTypes, NothingLeftToSettle
<1>9. OperatorSettles(m) = its /\ OperatorSpare(m) = one /\ its \in {0, 1} /\ one \in {0, 1}
  BY <1>1 DEF OperatorSettles, OperatorSpare
<1>10. 1 \in AdriftItems(m) <=> its = 1 /\ one = 0
  BY <1>2 DEF AdriftItems
<1>11. /\ Cardinality(AdriftItems(m)') \in Nat
       /\ AcksMatch => Cardinality(AdriftItems(m)') <= Cardinality(AdriftItems(m) \ {1})
  <2>1. CASE batch' = <<>>
    <3>1. AdriftItems(m)' = {}
      BY <2>1 DEF AdriftItems
    <3>2. Cardinality(AdriftItems(m)') = 0
      BY <3>1, FS_EmptySet
    <3>3. Cardinality(AdriftItems(m) \ {1}) \in Nat
      BY <1>8, FS_RemoveElement, FS_CardinalityType
    <3> QED BY <3>2, <3>3
  <2>2. CASE batch' = Tail(batch)
    <3>1. \A i \in DOMAIN batch' : i \in Nat /\ i + 1 \in DOMAIN batch /\ i + 1 # 1 /\ batch'[i] = batch[i + 1]
      BY <1>2, <1>5, <2>2
    <3> DEFINE A == AdriftItems(m)'
               f == [i \in A |-> i + 1]
    <3>2. \A i \in A : i \in DOMAIN batch' /\ batch'[i].copy.msg = m /\ ~Holds("dlq", batch[i].handle)'
      BY DEF AdriftItems
    <3>3. IsFiniteSet(A) /\ Cardinality(A) \in Nat
      <4>1. DOMAIN batch' = 1 .. Len(batch') /\ Len(batch') \in Nat
        BY <1>2, <1>5, <2>2
      <4>2. A \in SUBSET (1 .. Len(batch')) /\ IsFiniteSet(1 .. Len(batch'))
        BY <3>2, <4>1, FS_Interval
      <4> HIDE DEF A
      <4>3. IsFiniteSet(A)
        BY <4>2, FS_Subset
      <4> QED BY <4>3, FS_CardinalityType
    <3>4. ASSUME AcksMatch PROVE Cardinality(A) <= Cardinality(AdriftItems(m) \ {1})
      <4>1. \A g : g # Item.handle /\ Holds("dlq", g) => Holds("dlq", g)'
        BY <1>1, <1>6, <3>4, AckKeepsOthers
      <4>2. \A i \in A : i + 1 \in AdriftItems(m) \ {1}
        <5> TAKE i \in A
        <5>1. /\ i + 1 \in DOMAIN batch /\ i + 1 # 1 /\ batch'[i] = batch[i + 1]
              /\ batch'[i].copy.msg = m /\ ~Holds("dlq", batch[i].handle)'
          BY <3>1, <3>2
        <5>2. PICK g : g = batch[i + 1].handle
          OBVIOUS
        <5>3. ~Holds("dlq", g)'
          BY <5>1, <5>2 DEF Holds
        <5>4. g # Item.handle
          BY <1>2, <5>1, <5>2 DEF HandlesInv, HandlesUnique, UniqueHandles
        <5>5. ~Holds("dlq", batch[i + 1].handle)
          BY <4>1, <5>2, <5>3, <5>4
        <5> QED BY <5>1, <5>5 DEF AdriftItems
      <4>3. \A i \in A : i \in Nat
        BY <3>1, <3>2
      <4> HIDE DEF A
      <4>4. f \in Injection(A, AdriftItems(m) \ {1})
        BY <4>2, <4>3 DEF Injection, IsInjective
      <4>5. IsFiniteSet(AdriftItems(m) \ {1})
        BY <1>8, FS_RemoveElement
      <4> HIDE DEF f
      <4> QED BY <4>4, <4>5, FS_Injection
    <3> QED BY <3>3, <3>4
  <2> QED BY <1>1, <2>1, <2>2
<1>12. Cardinality(AdriftItems(m) \ {1}) =
         IF 1 \in AdriftItems(m) THEN Cardinality(AdriftItems(m)) - 1 ELSE Cardinality(AdriftItems(m))
  BY <1>8, FS_RemoveElement
<1> HIDE DEF its, one, held
<1>13. AcksMatch =>
         /\ Copies(m)' - OperatorSpare(m)' >= Copies(m) - OperatorSpare(m)
         /\ Copies(m)' + Cardinality(AdriftItems(m)') - OperatorSettles(m)' - faults'
              <= Copies(m) + Cardinality(AdriftItems(m)) - OperatorSettles(m) - faults
  BY <1>1, <1>4, <1>7, <1>8, <1>9, <1>10, <1>11, <1>12
<1>14. AcksMatch => Copies(m)' \in Int
  BY <1>4, <1>7, <1>9
<1> QED BY <1>1, <1>3, <1>4, <1>11, <1>13, <1>14, StockByOperator

LEMMA StockLapses ==
  ASSUME CopiesInv, HandlesInv, CopiesInv', NEW m \in Messages, Stock(m), conf' = conf, Lapses
  PROVE  Stock(m)'
<1>1. PICK q \in Queues : Lapse(q)
  BY DEF Lapses
<1>2. PICK k \in DOMAIN unsettled[q] : GiveBack(q, unsettled[q][k].handle, unsettled[q][k].copy)
  BY <1>1 DEF Lapse
<1>3. PICK h, c : h = unsettled[q][k].handle /\ c = unsettled[q][k].copy
  OBVIOUS
<1>4. /\ UNCHANGED worker /\ UNCHANGED operator /\ ends' = ends /\ faults' = faults + 1
      /\ "work" \in Queues /\ "dlq" \in Queues
  BY DEF Lapses, Fault, Queues
<1>5. /\ unsettled = [r \in Queues |-> unsettled[r]] /\ unsettled[q] \in Seq(Deliveries(q))
  BY DEF CopiesInv, RTypeOK, Fits
<1>6. Holds(q, h) /\ Position(q, h) = k
  <2>1. Holds(q, h)
    BY <1>3 DEF Holds
  <2>2. Position(q, h) \in DOMAIN unsettled[q] /\ unsettled[q][Position(q, h)].handle = h
    BY <2>1, PositionOf
  <2> QED BY <1>3, <2>1, <2>2 DEF HandlesInv, HandlesUnique, UniqueHandles
<1>7. GiveBack(q, h, c) /\ c.msg = unsettled[q][Position(q, h)].copy.msg
  BY <1>2, <1>3, <1>6
<1>8. Countable(m)' /\ Copies(m) \in Nat /\ Copies(m)' = Copies(m)
  BY <1>6, <1>7, CountGiveBack DEF Stock
<1>9. /\ \A r \in Queues : r # q => unsettled'[r] = unsettled[r]
      /\ unsettled'[q] = RemoveAt(unsettled[q], k)
  BY <1>5, <1>6, <1>7 DEF GiveBack, SettledByHandle
<1>10. \A g : /\ Holds(q, g)' => Holds(q, g)
              /\ Holds(q, g) /\ g # h => Holds(q, g)'
  <2>1. \A i \in DOMAIN unsettled[q] : i # k => \E j \in DOMAIN unsettled'[q] : unsettled'[q][j] = unsettled[q][i]
    BY <1>5, <1>9, OthersRemain
  <2>2. \A i \in DOMAIN unsettled'[q] : \E j \in DOMAIN unsettled[q] : unsettled'[q][i] = unsettled[q][j]
    <3>1. Fewer(unsettled[q], unsettled'[q])
      BY <1>9 DEF Fewer
    <3> QED BY <1>5, <3>1, FewerHandles DEF HandlesInv, HandlesUnique
  <2> QED BY <1>3, <2>1, <2>2 DEF Holds
<1>11. /\ WorkerAdrift(m) \in {0, 1} /\ WorkerSpare(m) \in {0, 1}
       /\ OperatorSettles(m) \in {0, 1} /\ OperatorSpare(m) \in {0, 1} /\ WorkerSettles(m) \in {0, 1}
       /\ IsFiniteSet(AdriftItems(m)) /\ Cardinality(AdriftItems(m)) \in Nat
       /\ ends[m] \in Nat /\ faults \in Nat
  BY ClaimTypes
<1>12. CASE q = "work"
  <2>1. unsettled'["dlq"] = unsettled["dlq"]
    BY <1>4, <1>9, <1>12
  <2>2. /\ WorkerSettles(m)' = WorkerSettles(m) /\ WorkerSpare(m)' \in {0, WorkerSpare(m)}
        /\ WorkerAdrift(m)' \in {0, 1}
    BY <1>4, <1>10, <1>12 DEF worker, WorkerSettles, WorkerSpare, WorkerAdrift, Msg
  <2>3. /\ Copies(m)' + ends'[m] - WorkerSpare(m)' >= Copies(m) + ends[m] - WorkerSpare(m)
        /\ Copies(m)' + ends'[m] + WorkerAdrift(m)' - WorkerSettles(m)' - faults'
             <= Copies(m) + ends[m] + WorkerAdrift(m) - WorkerSettles(m) - faults
    BY <1>4, <1>8, <1>11, <2>2
  <2>4. Copies(m)' \in Int
    BY <1>8
  <2> QED BY <1>4, <1>8, <2>1, <2>3, <2>4, StockByWorker
<1>13. CASE q = "dlq"
  <2>1. unsettled'["work"] = unsettled["work"]
    BY <1>4, <1>9, <1>13
  <2>2. batch' = batch /\ opc' = opc /\ Item' = Item
    BY <1>4 DEF operator, Item
  <2>3. /\ OperatorSettles(m)' = OperatorSettles(m) /\ OperatorSpare(m)' \in {0, OperatorSpare(m)}
    BY <1>10, <1>13, <2>2 DEF OperatorSettles, OperatorSpare
  <2>4. /\ Cardinality(AdriftItems(m)') \in Nat
        /\ Cardinality(AdriftItems(m)') <= Cardinality(AdriftItems(m)) + 1
    <3>1. PICK j : \A i \in DOMAIN batch : batch[i].handle = h => i = j
      BY DEF HandlesInv, HandlesUnique, UniqueHandles
    <3>2. AdriftItems(m)' \in SUBSET (AdriftItems(m) \cup {j})
      <4> SUFFICES ASSUME NEW i \in AdriftItems(m)', i # j PROVE i \in AdriftItems(m)
        OBVIOUS
      <4>1. PICK g : g = batch[i].handle
        OBVIOUS
      <4>2. i \in DOMAIN batch /\ batch[i].copy.msg = m /\ ~Holds("dlq", g)'
        BY <2>2, <4>1 DEF AdriftItems, Holds
      <4>3. g # h
        BY <3>1, <4>1, <4>2
      <4>4. ~Holds("dlq", g)
        BY <1>10, <1>13, <4>2, <4>3
      <4> QED BY <4>1, <4>2, <4>4 DEF AdriftItems
    <3>3. /\ IsFiniteSet(AdriftItems(m) \cup {j})
          /\ Cardinality(AdriftItems(m) \cup {j}) <= Cardinality(AdriftItems(m)) + 1
      <4>1. /\ IsFiniteSet(AdriftItems(m) \cup {j})
            /\ \/ Cardinality(AdriftItems(m) \cup {j}) = Cardinality(AdriftItems(m))
               \/ Cardinality(AdriftItems(m) \cup {j}) = Cardinality(AdriftItems(m)) + 1
        BY <1>11, FS_AddElement
      <4> QED BY <1>11, <4>1
    <3>4. /\ IsFiniteSet(AdriftItems(m)')
          /\ Cardinality(AdriftItems(m)') <= Cardinality(AdriftItems(m) \cup {j})
      BY <3>2, <3>3, FS_Subset
    <3>5. Cardinality(AdriftItems(m)') \in Nat /\ Cardinality(AdriftItems(m) \cup {j}) \in Nat
      BY <3>3, <3>4, FS_CardinalityType
    <3> QED BY <1>11, <3>3, <3>4, <3>5
  <2>5. /\ Copies(m)' - OperatorSpare(m)' >= Copies(m) - OperatorSpare(m)
        /\ Copies(m)' + Cardinality(AdriftItems(m)') - OperatorSettles(m)' - faults'
             <= Copies(m) + Cardinality(AdriftItems(m)) - OperatorSettles(m) - faults
    BY <1>4, <1>8, <1>11, <2>3, <2>4
  <2>6. Copies(m)' \in Int
    BY <1>8
  <2> QED BY <1>4, <1>8, <2>1, <2>4, <2>5, <2>6, StockByOperator
<1> QED BY <1>12, <1>13 DEF Queues

LEMMA StockRedrivePolicy ==
  ASSUME CopiesInv, CopiesInv', NEW m \in Messages, Stock(m), conf' = conf, RedrivePolicy
  PROVE  Stock(m)'
<1>1. PICK c \in BagToSet(ready["work"]) :
        ready' = [ready EXCEPT !["work"] = @ (-) SetToBag({c})] /\ End(c.msg)
  BY DEF RedrivePolicy
<1>2. /\ UNCHANGED worker /\ UNCHANGED operator /\ unsettled' = unsettled /\ faults' = faults
      /\ "work" \in Queues /\ c \in DOMAIN ready["work"]
  BY <1>1 DEF RedrivePolicy, Queues, BagToSet
<1>3. /\ Countable(m)' /\ Copies(m) \in Nat
      /\ Copies(m)' = Copies(m) - IF c.msg = m THEN 1 ELSE 0
  BY <1>1, <1>2, CountRemove DEF Stock
<1>4. WorkerAdrift(m) \in {0, 1} /\ WorkerSettles(m) \in {0, 1} /\ WorkerSpare(m) \in {0, 1}
      /\ ends[m] \in Nat /\ faults \in Nat
  BY ClaimTypes
<1>5. ends'[m] = ends[m] + IF c.msg = m THEN 1 ELSE 0
  <2>1. ends \in [Messages -> Nat]
    BY DEF CopiesInv, RTypeOK
  <2> QED BY <1>1, <1>4, <2>1 DEF End
<1>6. /\ WorkerSettles(m)' = WorkerSettles(m) /\ WorkerAdrift(m)' = WorkerAdrift(m)
      /\ WorkerSpare(m)' = WorkerSpare(m)
  BY <1>2, WorkerSame
<1>7. /\ Copies(m)' + ends'[m] - WorkerSpare(m)' >= Copies(m) + ends[m] - WorkerSpare(m)
      /\ Copies(m)' + ends'[m] + WorkerAdrift(m)' - WorkerSettles(m)' - faults'
           <= Copies(m) + ends[m] + WorkerAdrift(m) - WorkerSettles(m) - faults
  BY <1>2, <1>3, <1>4, <1>5, <1>6
<1>8. Copies(m)' \in Int
  BY <1>3
<1> QED BY <1>2, <1>3, <1>7, <1>8, StockByWorker

LEMMA StockStill ==
  ASSUME CopiesInv, CopiesInv', NEW m \in Messages, Stock(m), UNCHANGED vars
  PROVE  Stock(m)'
<1>1. /\ conf' = conf /\ ready' = ready /\ unsettled' = unsettled /\ UNCHANGED worker
      /\ UNCHANGED operator /\ ends' = ends /\ faults' = faults
  BY DEF vars, broker
<1>2. Countable(m)' /\ Copies(m) \in Nat /\ Copies(m)' = Copies(m)
  BY <1>1, CountSame DEF Stock
<1>3. /\ WorkerSettles(m)' = WorkerSettles(m) /\ WorkerAdrift(m)' = WorkerAdrift(m)
      /\ WorkerSpare(m)' = WorkerSpare(m)
  BY <1>1, WorkerSame
<1>4. /\ WorkerAdrift(m) \in {0, 1} /\ WorkerSettles(m) \in {0, 1} /\ WorkerSpare(m) \in {0, 1}
      /\ ends[m] \in Nat /\ faults \in Nat
  BY ClaimTypes
<1>5. /\ Copies(m)' + ends'[m] - WorkerSpare(m)' >= Copies(m) + ends[m] - WorkerSpare(m)
      /\ Copies(m)' + ends'[m] + WorkerAdrift(m)' - WorkerSettles(m)' - faults'
           <= Copies(m) + ends[m] + WorkerAdrift(m) - WorkerSettles(m) - faults
  BY <1>1, <1>2, <1>3, <1>4
<1> QED BY <1>1, <1>2, <1>5, StockByWorker

LEMMA StockNext ==
  ASSUME CopiesInv, HandlesInv, StockInv, [Next]_vars
  PROVE  StockInv'
<1>1. CopiesInv'
  BY CopiesNext
<1> SUFFICES ASSUME NEW m \in Messages PROVE Stock(m)'
  BY DEF StockInv
<1>2. Stock(m)
  BY DEF StockInv
<1>3. CASE UNCHANGED vars \/ Quiet
  BY <1>1, <1>2, <1>3, StockStill DEF Quiet
<1>4. CASE Worker /\ conf' = conf
  BY <1>1, <1>2, <1>4, StockWorkerPop, StockWorkerGoesOn, StockReleaseNatively, StockWorkerWrites,
     StockWriteFails, StockGiveUp, StockSettleNative, StockAckSettled, StockWorkerStops DEF Worker
<1>5. CASE Operator /\ conf' = conf
  BY <1>1, <1>2, <1>5, StockOperatorGoesOn, StockDrainOne, StockOperatorWrites, StockAckItem,
     StockOperatorStops DEF Operator
<1>6. CASE Lapses /\ conf' = conf
  BY <1>1, <1>2, <1>6, StockLapses
<1>7. CASE RedrivePolicy /\ conf' = conf
  BY <1>1, <1>2, <1>7, StockRedrivePolicy
<1> QED BY <1>3, <1>4, <1>5, <1>6, <1>7 DEF Next

(* Every message is published once.                                              *)
LEMMA StockInit == Init => StockInv
<1> SUFFICES ASSUME Init, NEW m \in Messages PROVE Stock(m)
  BY DEF StockInv
<1> DEFINE first(n) == Copy(n, 0, FirstProperties(n), 0, 0)
           B == SetToBag({first(n) : n \in Messages})
<1>1. "work" \in Queues /\ "dlq" \in Queues /\ "work" # "dlq"
  BY DEF Queues
<1>2. /\ ready["work"] = B /\ ready["dlq"] = EmptyBag
      /\ unsettled["work"] = <<>> /\ unsettled["dlq"] = <<>>
      /\ ends[m] = 0 /\ faults = 0 /\ wpc = "idle" /\ opc = "off" /\ batch = <<>>
  BY <1>1 DEF Init, BrokerInit
<1>3. Stored("work", m) = {<<first(m), 1>>}
  <2>1. \A n : first(n).msg = n
    BY DEF Copy
  <2> HIDE DEF first
  <2>2. /\ DOMAIN B = {first(n) : n \in Messages}
        /\ \A c \in DOMAIN B : B[c] = 1
    BY DEF SetToBag
  <2> HIDE DEF B
  <2>3. {d \in DOMAIN B : d.msg = m} = {first(m)} /\ B[first(m)] = 1
    BY <2>1, <2>2
  <2>4. Stored("work", m) = UNION {{c} \X (1 .. B[c]) : c \in {first(m)}}
    BY <1>2, <2>3 DEF Stored
  <2>5. {first(m)} \X (1 .. 1) = {<<first(m), 1>>}
    OBVIOUS
  <2> QED BY <2>3, <2>4, <2>5
<1>4. Stored("dlq", m) = {}
  <2>1. DOMAIN EmptyBag = {}
    BY DEF EmptyBag, SetToBag
  <2> QED BY <1>2, <2>1 DEF Stored
<1>5. Held("work", m) = {} /\ Held("dlq", m) = {}
  BY <1>2 DEF Held
<1> HIDE DEF first, B
<1>6. /\ IsFiniteSet(Stored("work", m)) /\ Cardinality(Stored("work", m)) = 1
      /\ IsFiniteSet(Stored("dlq", m)) /\ Cardinality(Stored("dlq", m)) = 0
      /\ Cardinality(Held("work", m)) = 0 /\ Cardinality(Held("dlq", m)) = 0
  <2>1. PICK x : Stored("work", m) = {x}
    BY <1>3
  <2>2. IsFiniteSet({x}) /\ Cardinality({x}) = 1
    BY FS_Singleton
  <2>3. IsFiniteSet({}) /\ Cardinality({}) = 0
    BY FS_EmptySet
  <2> QED BY <1>4, <1>5, <2>1, <2>2, <2>3
<1>7. Countable(m) /\ Copies(m) = 1
  BY <1>6 DEF Countable, Queues, Copies, Located
<1>8. AdriftItems(m) = {} /\ Cardinality(AdriftItems(m)) = 0
  <2>1. AdriftItems(m) = {}
    BY <1>2 DEF AdriftItems
  <2> QED BY <2>1, FS_EmptySet
<1>9. /\ WorkerSettles(m) = 0 /\ WorkerSpare(m) = 0 /\ WorkerAdrift(m) = 0
      /\ OperatorSettles(m) = 0 /\ OperatorSpare(m) = 0
  BY <1>2 DEF WorkerSettles, WorkerSpare, WorkerAdrift, OperatorSettles, OperatorSpare, Resting
<1> QED BY <1>2, <1>7, <1>8, <1>9 DEF Stock, Kept, Caused

(* The copies of a message are a number.                                         *)
LEMMA CopiesCounted ==
  ASSUME CopiesInv, NEW m, Countable(m)
  PROVE  Copies(m) \in Nat
<1>1. \A q \in Queues : Stored(q, m) = Units(ready[q], m) /\ Held(q, m) = Places(unsettled[q], m)
  BY DEF Stored, Held, Units, Places
<1>2. \A q \in Queues : Cardinality(Units(ready[q], m)) \in Nat /\ Cardinality(Places(unsettled[q], m)) \in Nat
  BY Shelves
<1>3. \A q \in Queues : Located(q, m) \in Nat
  BY <1>1, <1>2 DEF Located
<1> QED BY <1>3 DEF Copies, Queues

LEMMA StockKept == Spec => [](CopiesInv /\ StockInv)
<1>1. Init => StockInv
  BY StockInit
<1>2. CopiesInv /\ HandlesInv /\ StockInv /\ [Next]_vars => StockInv'
  BY StockNext
<1> QED BY <1>1, <1>2, FitAndTied, PTL DEF Spec

(* A message once published is never lost: whichever call fails, whoever dies    *)
(* and however locks lapse, it ended or a copy of it is with the broker, since a *)
(* delivery is acknowledged only after the copy that stands for it is written,   *)
(* by _release() and the dead-letter write of app.py and by redrive().  On       *)
(* Artemis, whose accept() takes the oldest delivery, as long as no call failed. *)
THEOREM MessagesAreKept == Spec => []NothingLost
<1>1. CopiesInv /\ StockInv => NothingLost
  <2> SUFFICES ASSUME CopiesInv, StockInv, AcksMatch, NEW m \in Messages
               PROVE  Copies(m) + ends[m] >= 1
    BY DEF NothingLost
  <2>1. Copies(m) + ends[m] >= 1 + WorkerSpare(m) + OperatorSpare(m)
    BY DEF StockInv, Stock, Kept
  <2>2. WorkerSpare(m) \in {0, 1} /\ OperatorSpare(m) \in {0, 1} /\ ends[m] \in Nat
    BY ClaimTypes
  <2>3. Copies(m) \in Nat
    BY CopiesCounted DEF StockInv, Stock
  <2> QED BY <2>1, <2>2, <2>3
<1> QED BY <1>1, StockKept, PTL

(* No copy comes of nothing: with both processes at rest a message has at most   *)
(* one copy, waiting or ended, and one more for every fault, be it a failed      *)
(* call, a lapsed lock or a crash.  So the retries, releases, dead-letter writes *)
(* and redrives that work never multiply a message.                              *)
THEOREM RedriveCopiesAreCaused == Spec => []CopiesHaveACause
<1>1. CopiesInv /\ StockInv => CopiesHaveACause
  <2> SUFFICES ASSUME CopiesInv, StockInv, AcksMatch, wpc \in Resting, opc = "off", NEW m \in Messages
               PROVE  Copies(m) + ends[m] <= 1 + faults
    BY DEF CopiesHaveACause, Resting
  <2>1. Copies(m) + ends[m] + WorkerAdrift(m) + Cardinality(AdriftItems(m))
          <= 1 + faults + WorkerSettles(m) + OperatorSettles(m)
    BY DEF StockInv, Stock, Caused
  <2>2. WorkerSettles(m) = 0 /\ OperatorSettles(m) = 0
    BY DEF WorkerSettles, OperatorSettles, Resting
  <2>3. /\ WorkerAdrift(m) \in {0, 1} /\ Cardinality(AdriftItems(m)) \in Nat
        /\ ends[m] \in Nat /\ faults \in Nat
    BY ClaimTypes
  <2>4. Copies(m) \in Nat
    BY CopiesCounted DEF StockInv, Stock
  <2> QED BY <2>1, <2>2, <2>3, <2>4
<1> QED BY <1>1, StockKept, PTL
=============================================================================
