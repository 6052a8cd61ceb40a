---------------------------- MODULE CountedBroker ----------------------------
(***************************************************************************)
(* The transports whose broker keeps unsettled deliveries itself: SQS,     *)
(* Azure Service Bus, Pulsar, Artemis and RabbitMQ (sqs_transport.py,       *)
(* asb_transport.py, pulsar_transport.py, artemis_transport.py,            *)
(* pika_transport.py).  What differs between them is modelled per          *)
(* transport: the properties a publish projects from the body, the version *)
(* gate, how attempts is reconciled with the broker's delivery count, and  *)
(* which delivery an acknowledgement settles.                              *)
(*                                                                         *)
(* A work queue and its dead-letter queue, each read over one link: the    *)
(* worker's and the redrive operator's.  The module has no Next: Redrive   *)
(* composes its operations with those two processes.                       *)
(***************************************************************************)
EXTENDS Naturals, Sequences, FiniteSets, SequencesExt, Bags

CONSTANTS
  Messages,
  None,
  Configs     (* the configurations to explore: sets of records, see Config      *)

Kinds   == {"sqs", "asb", "pulsar", "artemis", "amqp"}
Queues  == {"work", "dlq"}

(* What a message is.  "foreign" has no properties at all, "routed" has a bq-job *)
(* property that names another URN than its body, "gated" declares an            *)
(* unsupported version (and another URN) over a body of the supported one,       *)
(* "newer" does so over a body of that same version, "poison" does not decode.   *)
Classes == {"plain", "foreign", "routed", "gated", "newer", "poison"}
Config  == [kind : Kinds, class : [Messages -> Classes], dlqOn : BOOLEAN]

ASSUME BrokerAssumption == Configs \subseteq Config /\ None \notin Nat

VARIABLES
  conf,       (* the configuration; never changes                                *)
  ready,      (* [Queues -> bags of copies]: what the broker can deliver         *)
  unsettled   (* [Queues -> sequences of deliveries]: what each link received    *)
              (* and has not settled, oldest first                               *)

broker == <<ready, unsettled>>

Kind     == conf.kind
Class(m) == conf.class[m]
Decodes(m) == Class(m) # "poison"

(* Definitions named Mut... are the mutants of the definition that follows them:  *)
(* bugs the properties must find.  No specification uses them.                   *)

-----------------------------------------------------------------------------
(* Publishing: the properties projected from the body                            *)

(* version: "none", the supported one as "text" or as an integer, or "bad";      *)
(* job: "none", the body's "own" URN or "other"; attempts: a count or None.      *)
NoProperties == [version |-> "none", job |-> "none", attempts |-> None]

(* The supported version, unless the body itself declares a newer one.           *)
BodyVersion(m, supported) == IF Class(m) = "newer" THEN "bad" ELSE supported

SqsProjection(m) ==
  IF Decodes(m) THEN [NoProperties EXCEPT !.version = BodyVersion(m, "text"), !.job = "own"]
                ELSE NoProperties

AsbProjection(m) ==
  IF Decodes(m) THEN [NoProperties EXCEPT !.version = BodyVersion(m, "int"), !.job = "own"]
                ELSE NoProperties

ArtemisProjection(m, n) ==
  IF Decodes(m) THEN [version |-> BodyVersion(m, "text"), job |-> "own", attempts |-> n]
                ELSE [NoProperties EXCEPT !.attempts = n]

AmqpProjection(m, n) ==
  IF Decodes(m) THEN [version |-> BodyVersion(m, "text"), job |-> "own", attempts |-> n]
                ELSE [NoProperties EXCEPT !.attempts = n]

(* A route is what a delivery keeps of its routing properties: was it gated, and *)
(* its bq-job.  Pulsar writes it back (RoutedPublisher); the others have none.   *)
NoRoute == [gate |-> FALSE, job |-> "none"]

MutPulsarProjection(m, n, route) ==
  [AmqpProjection(m, n) EXCEPT !.job = IF route.job # "none" THEN route.job ELSE @]
PulsarProjection(m, n, route) ==
  LET plain == AmqpProjection(m, n)
      job   == IF route.job # "none" THEN route.job ELSE plain.job
  IN  IF route.gate THEN [plain EXCEPT !.version = "bad", !.job = job]
                    ELSE [plain EXCEPT !.job = job]

Projection(m, n, route) ==
  CASE Kind = "sqs"     -> SqsProjection(m)
    [] Kind = "asb"     -> AsbProjection(m)
    [] Kind = "pulsar"  -> PulsarProjection(m, n, route)
    [] Kind = "artemis" -> ArtemisProjection(m, n)
    [] Kind = "amqp"    -> AmqpProjection(m, n)

(* A stored copy: its body's attempts, its properties, and the broker's count of *)
(* its deliveries.  recorded and received are history: the handler failures and  *)
(* the deliveries that copy stands for.                                          *)
Copy(m, n, properties, recorded, received) ==
  [msg |-> m, attempts |-> n, properties |-> properties, count |-> 0,
   recorded |-> recorded, received |-> received]

(* How each message was first published.                                         *)
FirstProperties(m) ==
  CASE Class(m) \in {"foreign", "poison"} -> NoProperties
    [] Class(m) = "routed" -> [Projection(m, 0, NoRoute) EXCEPT !.job = "other"]
    [] Class(m) = "gated"  -> [Projection(m, 0, NoRoute) EXCEPT !.version = "bad", !.job = "other"]
    [] OTHER               -> Projection(m, 0, NoRoute)

(* publish_keeping_route() with n as the body's attempts.                        *)
Send(q, m, n, route, recorded, received) ==
  ready' = [ready EXCEPT ![q] = @ (+) SetToBag({Copy(m, n, Projection(m, n, route), recorded, received)})]

-----------------------------------------------------------------------------
(* Receiving: the gate, then the attempts                                        *)

Larger(a, b) == IF a > b THEN a ELSE b

(* The versions the gates let through; RabbitMQ has no gate.                     *)
SqsAccepts     == {"none", "text"}
PulsarAccepts  == {"none", "text"}
AsbAccepts     == {"none", "text", "int"}
ArtemisAccepts == {"none", "text", "int"}

Gated(c) ==
  CASE Kind = "sqs"     -> c.properties.version \notin SqsAccepts
    [] Kind = "asb"     -> c.properties.version \notin AsbAccepts
    [] Kind = "pulsar"  -> c.properties.version \notin PulsarAccepts
    [] Kind = "artemis" -> c.properties.version \notin ArtemisAccepts
    [] Kind = "amqp"    -> FALSE

(* max(body, count - 1) with a 1-based count, max(body, count) with a 0-based    *)
(* one; a valid bq-attempts property of Pulsar stands for the body's.            *)
MutSqsAttempts(c)  == IF c.count > 1 THEN Larger(c.attempts, c.count) ELSE c.attempts
SqsAttempts(c)     == IF c.count > 1 THEN Larger(c.attempts, c.count - 1) ELSE c.attempts
AsbAttempts(c)     == IF c.count > 1 THEN Larger(c.attempts, c.count - 1) ELSE c.attempts
ArtemisAttempts(c) == Larger(c.attempts, c.count)
PulsarAttempts(c)  ==
  Larger(IF c.properties.attempts # None THEN c.properties.attempts ELSE c.attempts, c.count)

(* The native count of a delivery without a decodable body (native_attempts).    *)
(* Service Bus and Artemis have none; the bare counter that a retry leaves as    *)
(* the body of a poison message is an object, so Artemis reconciles it.  On SQS  *)
(* and Service Bus no poison body is ever retried.                               *)
SqsNativeAttempts(c)    == IF c.count > 1 THEN c.count - 1 ELSE 0
PulsarNativeAttempts(c) ==
  Larger(IF c.properties.attempts # None THEN c.properties.attempts ELSE 0, c.count)

(* The delivery a pop returns.  A gated one is handed over undecoded.            *)
Delivery(c, n, route) == [copy |-> c, attempts |-> n, route |-> route]

SqsPop(c) ==
  Delivery(c, IF Gated(c)            THEN c.attempts
              ELSE IF Decodes(c.msg) THEN SqsAttempts(c)
              ELSE                        Larger(SqsNativeAttempts(c), c.attempts), NoRoute)

AsbPop(c) ==
  Delivery(c, IF Gated(c) \/ ~Decodes(c.msg) THEN c.attempts ELSE AsbAttempts(c), NoRoute)

BareCounter(c) == ~Decodes(c.msg) /\ c.properties.attempts # None

ArtemisPop(c) ==
  Delivery(c, IF ~Gated(c) /\ (Decodes(c.msg) \/ BareCounter(c))
                THEN ArtemisAttempts(c) ELSE c.attempts, NoRoute)

AmqpPop(c) == Delivery(c, c.attempts, NoRoute)

PulsarPop(c) ==
  IF Gated(c)            THEN Delivery(c, c.attempts, [gate |-> TRUE, job |-> c.properties.job])
  ELSE IF Decodes(c.msg) THEN Delivery(c, PulsarAttempts(c), [gate |-> FALSE, job |-> c.properties.job])
  ELSE                        Delivery(c, Larger(PulsarNativeAttempts(c), c.attempts), NoRoute)

Popped(c) ==
  CASE Kind = "sqs"     -> SqsPop(c)
    [] Kind = "asb"     -> AsbPop(c)
    [] Kind = "artemis" -> ArtemisPop(c)
    [] Kind = "amqp"    -> AmqpPop(c)
    [] Kind = "pulsar"  -> PulsarPop(c)

(* SQS and Service Bus count a delivery when they make it.                       *)
CountedOnReceipt == Kind \in {"sqs", "asb"}

Received(c) ==
  [c EXCEPT !.count = IF CountedOnReceipt THEN @ + 1 ELSE @, !.received = @ + 1]

(* The broker hands copy c to the link under a handle.                           *)
Receive(q, c, handle) ==
  /\ BagIn(c, ready[q])
  /\ ready' = [ready EXCEPT ![q] = @ (-) SetToBag({c})]
  /\ unsettled' = [unsettled EXCEPT ![q] = Append(@, [handle |-> handle, copy |-> Received(c)])]

(* Where dispatch() takes a delivery: the version gate, poison, or the handler    *)
(* of the body's own URN or of the other one its property names.                 *)
Destination(c) ==
  IF Gated(c)                           THEN "gate"
  ELSE IF ~Decodes(c.msg)               THEN "poison"
  ELSE IF Popped(c).route.job = "other" THEN "other"
  ELSE                                       "own"

-----------------------------------------------------------------------------
(* Settling                                                                      *)

Holds(q, handle) == \E i \in DOMAIN unsettled[q] : unsettled[q][i].handle = handle
Position(q, handle) == CHOOSE i \in DOMAIN unsettled[q] : unsettled[q][i].handle = handle

(* ack() settles the delivery its handle names, a receipt handle, a lock, a      *)
(* message id or a delivery tag; Artemis's accept() takes no delivery, so the    *)
(* receiver settles the oldest one it holds.                                     *)
SettledByHandle(q, handle) == RemoveAt(unsettled[q], Position(q, handle))
SettledByReceiver(q)       == Tail(unsettled[q])

Acked(q, handle) ==
  IF Kind = "artemis"
    THEN IF unsettled[q] = <<>> THEN <<>> ELSE SettledByReceiver(q)
    ELSE IF Holds(q, handle) THEN SettledByHandle(q, handle) ELSE unsettled[q]

Ack(q, handle) == unsettled' = [unsettled EXCEPT ![q] = Acked(q, handle)]

(* A lock that lapsed cannot be completed any more: Service Bus raises, SQS      *)
(* accepts an old receipt handle and changes nothing.                            *)
AckRefused(q, handle) == Kind = "asb" /\ ~Holds(q, handle)

(* What becomes of the count when a copy is delivered again.  Pulsar and Artemis *)
(* count it or not, by subscription type and by how the link ended.              *)
Returned(c, counted) ==
  IF counted /\ Kind \in {"pulsar", "artemis"} THEN [c EXCEPT !.count = @ + 1] ELSE c

(* redeliver(): ChangeMessageVisibility, the body is not sent; abandon() of      *)
(* Service Bus; rewind() of Pulsar, a negative acknowledgement.                  *)
GiveBack(q, handle, back) ==
  /\ ready' = [ready EXCEPT ![q] = @ (+) SetToBag({back})]
  /\ unsettled' = [unsettled EXCEPT ![q] = SettledByHandle(q, handle)]

(* redeliver() of SQS: the receipt handle must still stand.  recorded: the       *)
(* release is a failure the next delivery has to show.                           *)
ChangeVisibility(handle, recorded) ==
  LET c == unsettled["work"][Position("work", handle)].copy
  IN  IF Holds("work", handle)
        THEN GiveBack("work", handle, [c EXCEPT !.recorded = @ + recorded])
        ELSE UNCHANGED broker

Abandon(handle) ==
  LET c == unsettled["work"][Position("work", handle)].copy
  IN  IF Holds("work", handle) THEN GiveBack("work", handle, c) ELSE UNCHANGED broker

NegativeAcknowledge(handle) ==
  LET c == unsettled["work"][Position("work", handle)].copy
  IN  \E counted \in BOOLEAN : GiveBack("work", handle, Returned(c, counted))

(* settle_native(): SQS does nothing on the wire, Service Bus dead-letters.      *)
SqsSettleNative == UNCHANGED broker
AsbSettleNative(handle) == Ack("work", handle) /\ UNCHANGED ready

-----------------------------------------------------------------------------
(* What the broker does by itself                                                *)

(* A visibility timeout or a lock lapses, whether the client still works on the  *)
(* delivery or left it unsettled.                                                *)
Lapse(q) ==
  /\ CountedOnReceipt
  /\ \E i \in DOMAIN unsettled[q] :
       GiveBack(q, unsettled[q][i].handle, unsettled[q][i].copy)

(* The link of a queue closes: everything unsettled is delivered again.          *)
ComesBack(q, counted) ==
  LET back == [i \in DOMAIN unsettled[q] |-> Returned(unsettled[q][i].copy, counted)]
  IN  [c \in {back[i] : i \in DOMAIN back} |-> Cardinality({i \in DOMAIN back : back[i] = c})]

Close(q) ==
  /\ \E counted \in BOOLEAN : ready' = [ready EXCEPT ![q] = @ (+) ComesBack(q, counted)]
  /\ unsettled' = [unsettled EXCEPT ![q] = <<>>]

BrokerInit ==
  /\ conf \in Configs
  /\ ready = [q \in Queues |->
                IF q = "work" THEN SetToBag({Copy(m, 0, FirstProperties(m), 0, 0) : m \in Messages})
                              ELSE EmptyBag]
  /\ unsettled = [q \in Queues |-> <<>>]

-----------------------------------------------------------------------------
(* Counting copies, for the properties                                           *)

(* The copies of m that q can deliver, equal ones told apart by a number, and    *)
(* the places of those its link holds.                                           *)
Stored(q, m) == UNION {{c} \X (1 .. ready[q][c]) : c \in {d \in DOMAIN ready[q] : d.msg = m}}
Held(q, m)   == {i \in DOMAIN unsettled[q] : unsettled[q][i].copy.msg = m}

Located(q, m) == Cardinality(Stored(q, m)) + Cardinality(Held(q, m))
Copies(m)     == Located("work", m) + Located("dlq", m)

=============================================================================
