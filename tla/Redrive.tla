------------------------------ MODULE Redrive ------------------------------
(***************************************************************************)
(* A worker and a redrive operator on one CountedBroker: the worker        *)
(* handles, retries, releases and dead-letters (app.py), the operator moves *)
(* the dead-letter queue back to the work queue (redrive.py).  Every broker *)
(* call is a step that may fail, both processes may crash between two of   *)
(* them, and locks lapse under them.  Settlement has every route of        *)
(* dispatch(); here only what a message's properties and its count go      *)
(* through is kept, with on_unknown_urn = fail.                            *)
(***************************************************************************)
EXTENDS CountedBroker

CONSTANTS
  MaxAttempts,
  MaxFaults,    (* bound: failed calls, lapses and crashes                       *)
  MaxRedrives,  (* bound: runs of redrive()                                      *)
  MaxReleases,  (* bound: shutdown releases                                      *)
  MaxReceives   (* maxReceiveCount of the RedrivePolicy the README asks for      *)

ASSUME RedriveAssumption ==
  /\ MaxAttempts \in Nat \ {0}
  /\ {MaxFaults, MaxRedrives, MaxReleases} \subseteq Nat
  /\ MaxReceives \in Nat /\ MaxReceives >= MaxAttempts

VARIABLES
  wpc,        (* the worker's next step                                          *)
  cur,        (* the delivery it dispatches, with its handle, or None            *)
  opc,        (* the operator's next step, "off" when redrive() is not running   *)
  batch,      (* what redrive() drained and has not finished                     *)
  raising,    (* its re-publish failed: it restores, acknowledges and raises     *)
  ends,       (* Messages -> Nat: copies settled for good (history)              *)
  redriven,   (* messages an operator sent back (history)                        *)
  faults, nredrive, nrelease

worker   == <<wpc, cur>>
operator == <<opc, batch, raising, redriven, nredrive>>
vars == <<conf, broker, worker, operator, ends, faults, nrelease>>

DlqOn == conf.dlqOn

(* What a client keeps of a delivery: its handle and what the pop made of it.    *)
Taken(handle, c) ==
  [handle |-> handle, copy |-> c, attempts |-> Popped(c).attempts, route |-> Popped(c).route]

Fault == faults < MaxFaults /\ faults' = faults + 1

(* The handle of a new delivery: not one that either client still uses.          *)
NewHandle(q, inUse) ==
  LET used == inUse \cup {unsettled[q][i].handle : i \in DOMAIN unsettled[q]}
  IN  Min((1 .. Cardinality(used) + 1) \ used)

Init ==
  /\ BrokerInit
  /\ wpc = "idle" /\ cur = None
  /\ opc = "off" /\ batch = <<>> /\ raising = FALSE
  /\ ends = [m \in Messages |-> 0] /\ redriven = {}
  /\ faults = 0 /\ nredrive = 0 /\ nrelease = 0

-----------------------------------------------------------------------------
(* The worker                                                                    *)

Msg      == cur.copy.msg
Rejected == Destination(cur.copy) \in {"gate", "poison"}

NativeSettler == Kind \in {"sqs", "asb"}

(* dispatch() by destination, with on_unknown_urn = fail.                        *)
FirstStep(to) ==
  IF to \notin {"gate", "poison"}  THEN "handle"
  ELSE IF DlqOn                    THEN "dlq"
  ELSE IF NativeSettler            THEN "native"
  ELSE IF to = "poison"            THEN "retry"
  ELSE                                  "final"

(* The queue's RedrivePolicy takes an SQS message received too often.            *)
Exhausted(c) == Kind = "sqs" /\ c.count >= MaxReceives

WorkerPop ==
  /\ wpc = "idle"
  /\ \E c \in BagToSet(ready["work"]) :
       /\ ~Exhausted(c)
       /\ LET handle == NewHandle("work", {}) IN
            /\ Receive("work", c, handle)
            /\ cur' = Taken(handle, Received(c))
            /\ wpc' = FirstStep(Destination(Received(c)))
  /\ UNCHANGED <<operator, ends, faults, nrelease>>

HandlerReturns ==
  /\ wpc = "handle" /\ wpc' = "final"
  /\ UNCHANGED <<broker, cur, operator, ends, faults, nrelease>>

HandlerRaises ==
  /\ wpc = "handle" /\ wpc' = "retry"
  /\ UNCHANGED <<broker, cur, operator, ends, faults, nrelease>>

(* Shutdown before the handler completed: _release_unprocessed().                *)
ShutdownRelease ==
  /\ wpc = "handle"
  /\ nrelease < MaxReleases /\ nrelease' = nrelease + 1
  /\ wpc' = IF Kind = "pulsar" THEN "rewind" ELSE "release"
  /\ UNCHANGED <<broker, cur, operator, ends, faults>>

(* _retry_or_dead_letter()                                                       *)
Retry ==
  /\ wpc = "retry"
  /\ wpc' = IF cur.attempts + 1 < MaxAttempts THEN "resend"
            ELSE IF DlqOn                      THEN "dlq"
            ELSE                                    "final"
  /\ UNCHANGED <<broker, cur, operator, ends, faults, nrelease>>

Idle == wpc' = "idle" /\ cur' = None

(* _release(): natively on SQS, where the body is not sent; elsewhere a copy,    *)
(* then the ack.                                                                 *)
Recorded == IF wpc = "resend" THEN 1 ELSE 0

ReleaseNatively ==
  /\ wpc \in {"resend", "release"} /\ Kind = "sqs"
  /\ ChangeVisibility(cur.handle, Recorded)
  /\ Idle
  /\ UNCHANGED <<operator, ends, faults, nrelease>>

Resent == IF wpc = "resend" THEN cur.attempts + 1 ELSE cur.attempts

ReleaseByCopy ==
  /\ wpc \in {"resend", "release"} /\ Kind # "sqs"
  /\ Send("work", Msg, Resent, cur.route, cur.copy.recorded + Recorded, cur.copy.received)
  /\ wpc' = "settle"
  /\ UNCHANGED <<unsettled, cur, operator, ends, faults, nrelease>>

(* _leave_republish_unsettled(); a failed release at shutdown raises and ends    *)
(* consume() with the delivery unsettled all the same.                           *)
ReleaseFails ==
  /\ wpc \in {"resend", "release"}
  /\ Fault
  /\ IF Kind = "pulsar" THEN wpc' = "rewind" /\ UNCHANGED cur ELSE Idle
  /\ UNCHANGED <<broker, operator, ends, nrelease>>

(* The attempts of the DLQ record: counted up for a failed message, the raw body *)
(* for a gated one, a record without a counter for a poison one.                 *)
Buried ==
  CASE Destination(cur.copy) = "gate"   -> cur.attempts
    [] Destination(cur.copy) = "poison" -> 0
    [] OTHER                            -> cur.attempts + 1

WriteDeadLetter ==
  /\ wpc = "dlq"
  /\ Send("dlq", Msg, Buried, cur.route, cur.copy.recorded, cur.copy.received)
  /\ wpc' = "settle"
  /\ UNCHANGED <<unsettled, cur, operator, ends, faults, nrelease>>

(* A rejected delivery is rewound, abandoned or left; another one is left and    *)
(* the exception ends consume().                                                 *)
DeadLetterFails ==
  /\ wpc = "dlq"
  /\ Fault
  /\ CASE Rejected /\ Kind = "pulsar" -> wpc' = "rewind" /\ UNCHANGED cur
       [] Destination(cur.copy) = "gate" /\ Kind = "asb" -> wpc' = "abandon" /\ UNCHANGED cur
       [] Rejected /\ Kind # "pulsar"
            /\ ~(Destination(cur.copy) = "gate" /\ Kind = "asb") -> Idle
       [] OTHER -> wpc' = "dead" /\ cur' = None
  /\ UNCHANGED <<broker, operator, ends, nrelease>>

(* rewind(), abandon(): a failure is logged and leaves the delivery.             *)
GiveUp ==
  /\ \/ wpc = "rewind" /\ NegativeAcknowledge(cur.handle) /\ UNCHANGED faults
     \/ wpc = "abandon" /\ Abandon(cur.handle) /\ UNCHANGED faults
     \/ wpc \in {"rewind", "abandon"} /\ Fault /\ UNCHANGED broker
  /\ Idle
  /\ UNCHANGED <<operator, ends, nrelease>>

End(m) == ends' = [ends EXCEPT ![m] = @ + 1]

(* settle_native(): an explicit dead-letter of Service Bus ends the message.     *)
SettleNative ==
  /\ wpc = "native"
  /\ \/ Kind = "sqs" /\ SqsSettleNative /\ UNCHANGED <<ends, faults>>
     \/ /\ Kind = "asb" /\ ~AckRefused("work", cur.handle)
        /\ AsbSettleNative(cur.handle)
        /\ End(Msg) /\ UNCHANGED faults
     \/ /\ Kind = "asb"
        /\ (AckRefused("work", cur.handle) /\ UNCHANGED faults) \/ Fault
        /\ UNCHANGED <<broker, ends>>
  /\ Idle
  /\ UNCHANGED <<operator, nrelease>>

(* _ack_settled(): "final" when the message ends here, "settle" when it lives on *)
(* in the copy just written.  A failure is logged.                               *)
AckSettled ==
  /\ wpc \in {"final", "settle"}
  /\ \/ /\ ~AckRefused("work", cur.handle)
        /\ Ack("work", cur.handle)
        /\ IF wpc = "final" /\ Holds("work", cur.handle) THEN End(Msg) ELSE UNCHANGED ends
        /\ UNCHANGED faults
     \/ /\ (AckRefused("work", cur.handle) /\ UNCHANGED faults) \/ Fault
        /\ UNCHANGED <<unsettled, ends>>
  /\ Idle
  /\ UNCHANGED <<ready, operator, nrelease>>

WorkerCrash ==
  /\ wpc \notin {"idle", "dead"}
  /\ Fault /\ Close("work") /\ Idle
  /\ UNCHANGED <<operator, ends, nrelease>>

(* The worker ends, of an exception or on request, and is started again.         *)
WorkerExit ==
  /\ wpc \in {"idle", "dead"}
  /\ wpc = "dead" \/ unsettled["work"] # <<>>
  /\ Close("work") /\ Idle
  /\ UNCHANGED <<operator, ends, faults, nrelease>>

-----------------------------------------------------------------------------
(* The operator: redrive()                                                       *)

Item == Head(batch)

StartRedrive ==
  /\ opc = "off" /\ opc' = "drain"
  /\ nredrive < MaxRedrives /\ nredrive' = nredrive + 1
  /\ UNCHANGED <<broker, worker, batch, raising, redriven, ends, faults, nrelease>>

(* The drain takes what is there, up to a maximum.                               *)
DrainOne ==
  /\ opc = "drain"
  /\ \E c \in BagToSet(ready["dlq"]) :
       LET handle == NewHandle("dlq", {batch[i].handle : i \in DOMAIN batch}) IN
         /\ Receive("dlq", c, handle)
         /\ batch' = Append(batch, Taken(handle, Received(c)))
  /\ UNCHANGED <<worker, opc, raising, redriven, nredrive, ends, faults, nrelease>>

Stop == opc' = "off" /\ batch' = <<>> /\ raising' = FALSE

Drained ==
  /\ opc = "drain"
  /\ IF batch = <<>> THEN Stop ELSE opc' = "item" /\ UNCHANGED <<batch, raising>>
  /\ UNCHANGED <<broker, worker, redriven, nredrive, ends, faults, nrelease>>

(* A poison body is restored; so is one not selected, and every one in a dry run. *)
ChooseItem ==
  /\ opc = "item"
  /\ \/ opc' = "restore"
     \/ opc' = "republish" /\ Decodes(Item.copy.msg)
  /\ UNCHANGED <<broker, worker, batch, raising, redriven, nredrive, ends, faults, nrelease>>

(* publish_keeping_route() back to the DLQ with the body as it was popped.       *)
Restore ==
  /\ opc = "restore" /\ opc' = "ack"
  /\ Send("dlq", Item.copy.msg, Item.attempts, Item.route, Item.copy.recorded, Item.copy.received)
  /\ UNCHANGED <<unsettled, worker, batch, raising, redriven, nredrive, ends, faults, nrelease>>

(* _publish_redriven(): attempts reset, the routing property kept.               *)
Republish ==
  /\ opc = "republish" /\ opc' = "ack"
  /\ Send("work", Item.copy.msg, 0, Item.route, 0, 0)
  /\ redriven' = redriven \cup {Item.copy.msg}
  /\ UNCHANGED <<unsettled, worker, batch, raising, nredrive, ends, faults, nrelease>>

MutAfterFailedRepublish == "ack"
AfterFailedRepublish == "restore"
RepublishFails ==
  /\ opc = "republish"
  /\ Fault
  /\ opc' = AfterFailedRepublish /\ raising' = TRUE
  /\ UNCHANGED <<broker, worker, batch, redriven, nredrive, ends, nrelease>>

(* The ack of an item; redrive() does not guard it, nor the restore.             *)
MutItemSettled == UNCHANGED unsettled
ItemSettled == Ack("dlq", Item.handle)

AckItem ==
  /\ opc = "ack" /\ ~AckRefused("dlq", Item.handle)
  /\ ItemSettled
  /\ IF raising \/ Tail(batch) = <<>>
       THEN Stop
       ELSE opc' = "item" /\ batch' = Tail(batch) /\ UNCHANGED raising
  /\ UNCHANGED <<ready, worker, redriven, nredrive, ends, faults, nrelease>>

RedriveRaises ==
  /\ \/ opc \in {"restore", "ack"} /\ Fault
     \/ opc = "ack" /\ AckRefused("dlq", Item.handle) /\ UNCHANGED faults
  /\ Stop
  /\ UNCHANGED <<broker, worker, redriven, nredrive, ends, nrelease>>

OperatorCrash ==
  /\ opc # "off"
  /\ Fault /\ Close("dlq") /\ Stop
  /\ UNCHANGED <<worker, redriven, nredrive, ends, nrelease>>

(* The operator's process ends; what redrive() left unsettled comes back.        *)
OperatorExit ==
  /\ opc = "off" /\ unsettled["dlq"] # <<>>
  /\ Close("dlq")
  /\ UNCHANGED <<worker, operator, ends, faults, nrelease>>

-----------------------------------------------------------------------------
Lapses ==
  /\ \E q \in Queues : Lapse(q)
  /\ Fault
  /\ UNCHANGED <<worker, operator, ends, nrelease>>

RedrivePolicy ==
  /\ \E c \in BagToSet(ready["work"]) :
       /\ Exhausted(c)
       /\ ready' = [ready EXCEPT !["work"] = @ (-) SetToBag({c})]
       /\ End(c.msg)
  /\ UNCHANGED <<unsettled, worker, operator, faults, nrelease>>

Worker ==
  \/ WorkerPop \/ HandlerReturns \/ HandlerRaises \/ ShutdownRelease \/ Retry
  \/ ReleaseNatively \/ ReleaseByCopy \/ ReleaseFails
  \/ WriteDeadLetter \/ DeadLetterFails \/ GiveUp \/ SettleNative \/ AckSettled
  \/ WorkerCrash \/ WorkerExit

Operator ==
  \/ StartRedrive \/ DrainOne \/ Drained \/ ChooseItem \/ Restore
  \/ Republish \/ RepublishFails \/ AckItem \/ RedriveRaises
  \/ OperatorCrash \/ OperatorExit

(* Nothing left to work on.                                                      *)
Quiet ==
  /\ wpc = "idle" /\ opc = "off" /\ ready["work"] = EmptyBag
  /\ \A q \in Queues : unsettled[q] = <<>>
  /\ UNCHANGED vars

Next == ((Worker \/ Operator \/ Lapses \/ RedrivePolicy) /\ UNCHANGED conf) \/ Quiet

Spec == Init /\ [][Next]_vars
-----------------------------------------------------------------------------
(* Properties                                                                    *)

(* An ack settles the delivery it is meant for.  On Artemis only while no call   *)
(* failed: a delivery left unsettled is in the way of every ack that follows.    *)
AcksMatch == Kind = "artemis" => faults = 0

(* redrive.py: a DLQ message is "acknowledged only after a successful            *)
(* re-publish"; app.py: acknowledged after the copy is written.  Whatever call   *)
(* fails and whoever dies, every message ended or is still with the broker.  Not *)
(* so where acks do not match: see UnsettledIsKept.                              *)
NothingLost == AcksMatch => \A m \in Messages : Copies(m) + ends[m] >= 1

(* README.md: on Artemis a delivery whose dead-letter write failed "stays        *)
(* unsettled" until the link closes.  Refuted: accept() settles the oldest       *)
(* unsettled delivery, so the next message's ack takes the failed one away.      *)
UnsettledIsKept == \A m \in Messages : Copies(m) + ends[m] >= 1

(* At-least-once, but no copy without a cause: when both processes rest, a       *)
(* message has at most one copy more than faults happened, whatever was retried, *)
(* restored and redriven.                                                        *)
CopiesHaveACause ==
  AcksMatch /\ wpc \in {"idle", "dead"} /\ opc = "off" =>
    \A m \in Messages : Copies(m) + ends[m] <= 1 + faults

(* The counter the runtime decides by never forgets a failure it recorded and    *)
(* never runs ahead of the deliveries: neither the native count nor the body's   *)
(* or the property's, whichever way the message went (_reconcile).               *)
CountsHonest ==
  cur # None => /\ cur.copy.recorded <= cur.attempts
                /\ cur.attempts < cur.copy.received

(* The destination a message was first published with.                           *)
FirstDestination(m) ==
  IF Class(m) = "poison"                                        THEN "poison"
  ELSE IF Class(m) \in {"gated", "newer"} /\ Kind # "amqp"      THEN "gate"
  ELSE IF Class(m) = "routed" /\ Kind = "pulsar"                THEN "other"
  ELSE                                                               "own"

(* A message keeps its destination through retries, releases, crashes and the    *)
(* DLQ: what the gate rejects it rejects again, and a routed message keeps its   *)
(* URN (pulsar_transport.py: "gated the same way when it is consumed again").    *)
(* Where the body's version differs from the property and the transport cannot   *)
(* pin properties, an operator's redrive lifts the gate.                         *)
RouteStays ==
  cur # None =>
    \/ Destination(cur.copy) = FirstDestination(Msg)
    \/ Kind # "pulsar" /\ Class(Msg) = "gated" /\ Msg \in redriven
=============================================================================
