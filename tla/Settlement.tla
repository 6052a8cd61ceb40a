----------------------------- MODULE Settlement -----------------------------
(***************************************************************************)
(* What dispatch() does with one reserved delivery (app.py): the route it  *)
(* takes (handler, unknown URN, version gate, poison), the settlement that *)
(* route ends in, and the broker calls the settlement is made of.  Every   *)
(* broker call is a step of its own that may fail, and the worker process  *)
(* may crash between two of them.                                          *)
(*                                                                         *)
(* A copy <<m, n>> is message m with the attempts counter n the runtime    *)
(* reads from it.  The transport is given by the capabilities the runtime  *)
(* asks for (transport.py): the table below says which transport of the    *)
(* repository has which.                                                   *)
(***************************************************************************)
EXTENDS Naturals, FiniteSets

CONSTANTS
  Messages,
  None,
  MaxAttempts,  (* max_attempts                                                  *)
  Configs,      (* the configurations to explore: sets of records, see Config    *)
  MaxFailures,  (* bound: broker calls that fail                                 *)
  MaxCrashes,   (* bound: crashes of the worker                                  *)
  MaxLapses     (* bound: reservations that lapse under a live worker            *)

Transports == {"amqp", "redis", "sqs", "asb", "pulsar", "kafka", "kafka0"}
Strategies == {"fail", "delete", "release", "dead_letter"}
Classes    == {"ok", "unknown", "gated", "poison"}

(* Transport, on_unknown_urn, dead_letter, and what each message is: with a      *)
(* handler, with an unmapped URN, of an unsupported schema version, or poison.   *)
Config == [transport : Transports, strategy : Strategies, deadLetter : BOOLEAN,
           class : [Messages -> Classes]]

ASSUME SettlementAssumption ==
  /\ MaxAttempts \in Nat \ {0}
  /\ Configs \subseteq Config
  /\ {MaxFailures, MaxCrashes, MaxLapses} \subseteq Nat
  /\ None \notin Messages \X (0 .. MaxAttempts)

VARIABLES
  conf,       (* the configuration; never changes                                *)
  ready,      (* Copies -> Nat: deliverable copies                               *)
  waiting,    (* Copies -> Nat: unsettled copies nobody works on; they come back *)
              (* when the lock, the visibility timeout or the session lapses     *)
  cur,        (* the copy being dispatched, or None                              *)
  owned,      (* its reservation stands: neither settled nor lapsed              *)
  pc,         (* the settlement step the worker is at                            *)
  inTry,      (* dispatch() is inside its try block: an exception there is       *)
              (* caught by dispatch(); one raised in its except clause is not    *)
  done, dropped, dlq, nativeDlq,  (* where messages ended (sets of messages)      *)
  toldDlq,    (* messages the dead-letter observer was told about                *)
  runs,       (* Messages -> Nat: handler invocations, up to RunsCap (history)   *)
  resent,     (* messages the runtime put back with its own publish/redeliver    *)
  nfail, ncrash, nlapse

Transport  == conf.transport
Strategy   == conf.strategy
DeadLetter == conf.deadLetter
Class      == conf.class
DlqOn      == DeadLetter \/ Strategy = "dead_letter"

(* Definitions named Mut... are the mutants of the definition that follows them:  *)
(* bugs the properties must find.  No specification uses them.                   *)

(* Capabilities.  "kafka0" is a Kafka transport without retry tiers.             *)
IsKafka          == Transport \in {"kafka", "kafka0"}
Redeliverer      == IsKafka \/ Transport \in {"redis", "sqs"}
DeadLetterWriter == Transport = "redis"
Rewinder         == IsKafka \/ Transport = "pulsar"
Abandoner        == Transport = "asb"
NativeSettler    == Transport \in {"sqs", "asb"}
(* Brokers whose delivery count raises the attempts the runtime reads.           *)
CountsDeliveries == Transport \in {"sqs", "asb", "pulsar"}

Copies == Messages \X (0 .. MaxAttempts)
Msg(c) == c[1]
Attempts(c) == c[2]
ends   == <<done, dropped, dlq, nativeDlq>>
bounds == <<nfail, ncrash, nlapse>>
history == <<toldDlq, runs, resent>>
vars == <<conf, ready, waiting, cur, owned, pc, inTry, ends, history, bounds>>

(* More runs than RunBudget ever allows: where the history stops counting.       *)
RunsCap == 1 + MaxAttempts * (1 + MaxFailures + MaxCrashes + MaxLapses)

Add(bag, c) == [bag EXCEPT ![c] = @ + 1]
Remove(bag, c) == [bag EXCEPT ![c] = @ - 1]

Init ==
  /\ conf \in Configs
  /\ ready = [c \in Copies |-> IF Attempts(c) = 0 THEN 1 ELSE 0]
  /\ waiting = [c \in Copies |-> 0]
  /\ cur = None /\ owned = FALSE
  /\ pc = "idle" /\ inTry = FALSE
  /\ done = {} /\ dropped = {} /\ dlq = {} /\ nativeDlq = {}
  /\ toldDlq = {} /\ resent = {}
  /\ runs = [m \in Messages |-> 0]
  /\ nfail = 0 /\ ncrash = 0 /\ nlapse = 0

Fail == nfail < MaxFailures /\ nfail' = nfail + 1 /\ UNCHANGED <<ncrash, nlapse>>

(* dispatch() is over; an unsettled delivery comes back by itself.               *)
Finish(q) == pc' = q /\ cur' = None /\ owned' = FALSE /\ inTry' = FALSE
LeaveUnsettled(q) ==
  /\ Finish(q)
  /\ waiting' = IF owned THEN Add(waiting, cur) ELSE waiting

-----------------------------------------------------------------------------
(* Reservation and routing                                                       *)

(* The SQS RedrivePolicy the README asks for (maxReceiveCount = max_attempts).   *)
MovedNatively(c) == Transport = "sqs" /\ Attempts(c) = MaxAttempts

Pop ==
  /\ pc = "idle"
  /\ \E c \in Copies :
       /\ ready[c] > 0 /\ ~MovedNatively(c)
       /\ ready' = Remove(ready, c) /\ cur' = c
  /\ pc' = "route" /\ owned' = TRUE /\ inTry' = TRUE
  /\ UNCHANGED <<waiting, ends, history, bounds>>

(* _route_unknown(), checks in the code's order.                                 *)
RouteUnknown(m) ==
  CASE Strategy = "delete"      -> "drop"
    [] Strategy = "release"     -> "release"
    [] Strategy = "dead_letter" -> "dlq"
    [] OTHER                    -> "retry"   \* raises UnknownUrnError

(* _settle_version_gated()                                                       *)
RouteGated(m) ==
  IF Strategy = "delete" THEN "drop"
  ELSE IF DlqOn          THEN "dlq"
  ELSE IF NativeSettler  THEN "native"
  ELSE                        "drop"

(* _route_poison() (Kafka), _settle_transport_poison() (Redis) and               *)
(* _route_body_poison() (the others)                                             *)
MutRoutePoison(m) ==
  IF Strategy = "delete"                 THEN "drop"
  ELSE IF Transport = "redis" \/ DlqOn   THEN "dlq"
  ELSE IF Transport = "kafka0"           THEN "drop"
  ELSE IF NativeSettler                  THEN "native"
  ELSE                                        "retry"
RoutePoison(m) ==
  IF Transport = "redis"        THEN "dlq"
  ELSE IF Strategy = "delete"   THEN "drop"
  ELSE IF DlqOn                 THEN "dlq"
  ELSE IF Transport = "kafka0"  THEN "drop"
  ELSE IF NativeSettler         THEN "native"
  ELSE                               "retry"

(* The handler lookup and the order of the checks in dispatch().                 *)
RouteOf(m) ==
  CASE Class[m] = "ok"      -> "handle"
    [] Class[m] = "unknown" -> RouteUnknown(m)
    [] Class[m] = "gated"   -> RouteGated(m)
    [] Class[m] = "poison"  -> RoutePoison(m)

Route ==
  /\ pc = "route"
  /\ pc' = RouteOf(Msg(cur))
  /\ inTry' = (Class[Msg(cur)] # "unknown" \/ pc' # "retry")
  /\ runs' = IF pc' = "handle" /\ runs[Msg(cur)] < RunsCap
               THEN [runs EXCEPT ![Msg(cur)] = @ + 1] ELSE runs
  /\ UNCHANGED <<ready, waiting, cur, owned, ends, toldDlq, resent, bounds>>

HandlerReturns ==
  /\ pc = "handle" /\ pc' = "ack"
  /\ UNCHANGED <<ready, waiting, cur, owned, inTry, ends, history, bounds>>

HandlerRaises ==
  /\ pc = "handle" /\ pc' = "retry" /\ inTry' = FALSE
  /\ UNCHANGED <<ready, waiting, cur, owned, ends, history, bounds>>

-----------------------------------------------------------------------------
(* Settlements                                                                   *)

(* _ack_settled(): a failure is logged, never raised, and the delivery is left   *)
(* to come back.  A settle of a lapsed Redis reservation changes nothing.        *)
AckOk == Finish("idle") /\ UNCHANGED <<waiting, bounds>>
AckFails == owned /\ Fail /\ LeaveUnsettled("idle")

AckHandled ==
  /\ pc = "ack"
  /\ AckOk \/ AckFails
  /\ done' = done \cup {Msg(cur)}
  /\ UNCHANGED <<ready, dropped, dlq, nativeDlq, history>>

AckDropped ==
  /\ pc = "drop"
  /\ \/ AckOk /\ dropped' = IF owned THEN dropped \cup {Msg(cur)} ELSE dropped
     \/ AckFails /\ UNCHANGED dropped
  /\ UNCHANGED <<ready, done, dlq, nativeDlq, history>>

(* _retry_or_dead_letter(), reached from the except clause of dispatch().        *)
MutNextAttempts == Attempts(cur)
NextAttempts == Attempts(cur) + 1

RetryOrDeadLetter ==
  /\ pc = "retry"
  /\ pc' = IF NextAttempts < MaxAttempts THEN "republish"
           ELSE IF DeadLetter            THEN "dlq"
           ELSE                               "drop"
  /\ UNCHANGED <<ready, waiting, cur, owned, inTry, ends, history, bounds>>

(* The copy a release makes deliverable.                                         *)
ReleasedCopy == IF pc = "republish" THEN <<Msg(cur), NextAttempts>> ELSE cur

(* A broker that counts deliveries counts the next one.                          *)
Counted(c) == IF CountsDeliveries /\ Attempts(c) < MaxAttempts
                THEN <<Msg(c), Attempts(c) + 1>> ELSE c

(* _release(): one guarded call of a Redeliverer, or publish, then ack.          *)
ReleaseNatively ==
  /\ pc \in {"release", "republish"}
  /\ Redeliverer /\ ~IsKafka
  /\ LET back == IF Transport = "sqs" THEN Counted(cur) ELSE ReleasedCopy
     IN  ready' = IF owned THEN Add(ready, back) ELSE ready
  /\ resent' = resent \cup {Msg(cur)}
  /\ Finish("idle")
  /\ UNCHANGED <<waiting, ends, toldDlq, runs, bounds>>

ReleaseByCopy ==
  /\ pc \in {"release", "republish"}
  /\ (~Redeliverer \/ Transport = "kafka")
  /\ ready' = Add(ready, ReleasedCopy)
  /\ resent' = resent \cup {Msg(cur)}
  /\ pc' = "releaseAck"
  /\ UNCHANGED <<waiting, cur, owned, inTry, ends, toldDlq, runs, bounds>>

ReleaseAck ==
  /\ pc = "releaseAck"
  /\ AckOk \/ AckFails
  /\ UNCHANGED <<ready, ends, history>>

(* The release failed, or a Kafka transport has no tier to park the retry on:    *)
(* _leave_republish_unsettled().                                                 *)
MutReleaseFails ==
  /\ pc \in {"release", "republish"}
  /\ Fail
  /\ Finish("idle")
  /\ UNCHANGED <<ready, waiting, ends, history>>
ReleaseFails ==
  /\ pc \in {"release", "republish"}
  /\ IF Transport = "kafka0" THEN UNCHANGED bounds ELSE Fail
  /\ IF Rewinder THEN pc' = "rewind" /\ UNCHANGED <<waiting, cur, owned, inTry>>
                 ELSE LeaveUnsettled("idle")
  /\ UNCHANGED <<ready, ends, history>>

(* _rewind_unsettled(): the record is delivered again.  The failure is logged.   *)
Rewind ==
  /\ pc = "rewind"
  /\ \/ Finish("idle") /\ ready' = Add(ready, Counted(cur)) /\ UNCHANGED <<waiting, bounds>>
     \/ Fail /\ LeaveUnsettled("idle") /\ UNCHANGED ready
  /\ UNCHANGED <<ends, history>>

(* Abandoner.abandon() of a version-gated delivery.                              *)
Abandon ==
  /\ pc = "abandon"
  /\ \/ Finish("idle") /\ ready' = Add(ready, Counted(cur)) /\ UNCHANGED <<waiting, bounds>>
     \/ Fail /\ LeaveUnsettled("idle") /\ UNCHANGED ready
  /\ UNCHANGED <<ends, history>>

(* _settle_native(): Service Bus dead-letters natively (and reports it), SQS     *)
(* does nothing.  A failure is logged.                                           *)
SettleNative ==
  /\ pc = "native"
  /\ \/ /\ Transport = "asb"
        /\ Finish("idle")
        /\ nativeDlq' = nativeDlq \cup {Msg(cur)} /\ toldDlq' = toldDlq \cup {Msg(cur)}
        /\ UNCHANGED <<waiting, bounds>>
     \/ /\ Transport = "sqs"
        /\ LeaveUnsettled("idle")
        /\ UNCHANGED <<nativeDlq, toldDlq, bounds>>
     \/ Transport = "asb" /\ Fail /\ LeaveUnsettled("idle") /\ UNCHANGED <<nativeDlq, toldDlq>>
  /\ UNCHANGED <<ready, done, dropped, dlq, runs, resent>>

-----------------------------------------------------------------------------
(* Dead-lettering: _write_dead_letter()                                          *)

(* A DeadLetterWriter writes and settles in one guarded script, which does       *)
(* nothing for a lapsed reservation; the observer is told in either case.        *)
WriteDeadLetterGuarded ==
  /\ pc = "dlq" /\ DeadLetterWriter
  /\ dlq' = IF owned THEN dlq \cup {Msg(cur)} ELSE dlq
  /\ pc' = "notify" /\ owned' = FALSE
  /\ UNCHANGED <<ready, waiting, cur, inTry, done, dropped, nativeDlq, history, bounds>>

WriteDeadLetter ==
  /\ pc = "dlq" /\ ~DeadLetterWriter
  /\ dlq' = dlq \cup {Msg(cur)}
  /\ pc' = "dlqAck"
  /\ UNCHANGED <<ready, waiting, cur, owned, inTry, done, dropped, nativeDlq, history, bounds>>

(* _ack_settled() after the write: a failure leaves the original to come back.   *)
DeadLetterAck ==
  /\ pc = "dlqAck" /\ pc' = "notify"
  /\ owned' = FALSE
  /\ \/ UNCHANGED <<waiting, bounds>>
     \/ Fail /\ waiting' = Add(waiting, cur)
  /\ UNCHANGED <<ready, cur, inTry, ends, history>>

NotifyObserver ==
  /\ pc = "notify"
  /\ toldDlq' = toldDlq \cup {Msg(cur)}
  /\ Finish("idle")
  /\ UNCHANGED <<ready, waiting, ends, runs, resent, bounds>>

(* Where a failed DLQ write leads: a gated or poison delivery is left unsettled  *)
(* (abandoned or rewound when the transport can), an unknown URN's strategy      *)
(* write is caught by dispatch() and takes the retry path, and a write from the  *)
(* except clause leaves dispatch() and ends consume().                           *)
MutAfterFailedWrite(m) == IF inTry THEN "retry" ELSE "dead"
AfterFailedWrite(m) ==
  IF Class[m] \in {"gated", "poison"} /\ Rewinder   THEN "rewind"
  ELSE IF Class[m] = "gated" /\ Abandoner           THEN "abandon"
  ELSE IF Class[m] \in {"gated", "poison"}          THEN "idle"
  ELSE IF Class[m] = "unknown" /\ inTry             THEN "retry"
  ELSE                                                   "dead"

DeadLetterFails ==
  /\ pc = "dlq"
  /\ Fail
  /\ LET next == AfterFailedWrite(Msg(cur)) IN
       IF next \in {"idle", "dead"}
         THEN LeaveUnsettled(next)
         ELSE pc' = next /\ inTry' = FALSE /\ UNCHANGED <<waiting, cur, owned>>
  /\ UNCHANGED <<ready, ends, history>>

-----------------------------------------------------------------------------
(* The broker and the process                                                    *)

(* An unsettled copy is delivered again: lock or visibility timeout, sweep,      *)
(* nack, new session, committed offset of a new consumer.                        *)
Redeliver ==
  /\ \E c \in Copies :
       /\ waiting[c] > 0
       /\ waiting' = Remove(waiting, c)
       /\ ready' = Add(ready, Counted(c))
  /\ UNCHANGED <<cur, owned, pc, inTry, ends, history, bounds>>

(* The SQS RedrivePolicy moves a message received too often.                     *)
NativeRedrive ==
  /\ \E c \in Copies :
       /\ ready[c] > 0 /\ MovedNatively(c)
       /\ ready' = Remove(ready, c)
       /\ nativeDlq' = nativeDlq \cup {Msg(c)}
  /\ UNCHANGED <<waiting, cur, owned, pc, inTry, done, dropped, dlq, history, bounds>>

(* A Redis reservation outlives its deadline under a slow worker and is swept.   *)
Lapse ==
  /\ Transport = "redis"
  /\ nlapse < MaxLapses /\ nlapse' = nlapse + 1
  /\ owned /\ owned' = FALSE
  /\ ready' = Add(ready, cur)
  /\ UNCHANGED <<waiting, cur, pc, inTry, ends, history, nfail, ncrash>>

Crash ==
  /\ ncrash < MaxCrashes /\ ncrash' = ncrash + 1
  /\ cur # None
  /\ LeaveUnsettled("idle")
  /\ UNCHANGED <<ready, ends, history, nfail, nlapse>>

(* consume() raised; the process manager starts the worker again.                *)
Restart ==
  /\ pc = "dead" /\ pc' = "idle"
  /\ UNCHANGED <<ready, waiting, cur, owned, inTry, ends, history, bounds>>
-----------------------------------------------------------------------------
Dispatch ==
  \/ Pop \/ Route \/ RetryOrDeadLetter
  \/ AckHandled \/ AckDropped
  \/ ReleaseNatively \/ ReleaseByCopy \/ ReleaseAck \/ ReleaseFails
  \/ Rewind \/ Abandon \/ SettleNative
  \/ WriteDeadLetterGuarded \/ WriteDeadLetter \/ DeadLetterAck \/ NotifyObserver
  \/ DeadLetterFails

Handler == HandlerReturns \/ HandlerRaises

Broker == Redeliver \/ NativeRedrive

Step == Dispatch \/ Handler \/ Broker \/ Lapse \/ Crash \/ Restart

Live(m) == \/ \E c \in Copies : Msg(c) = m /\ (ready[c] > 0 \/ waiting[c] > 0)
           \/ owned /\ Msg(cur) = m

(* Nothing is left to deliver.                                                   *)
Drained == pc = "idle" /\ (\A m \in Messages : ~Live(m)) /\ UNCHANGED vars

Next == (Step /\ UNCHANGED conf) \/ Drained

Spec == Init /\ [][Next]_vars

(* The worker runs (and is started again when it died), handlers end, and the    *)
(* broker gives back what was left unsettled.  Failures, crashes and lapses      *)
(* happen or not; how handlers end is not assumed.                               *)
FairSpec == Spec /\ WF_vars((Dispatch \/ Handler \/ Restart) /\ UNCHANGED conf)
                 /\ WF_vars(Broker /\ UNCHANGED conf)

-----------------------------------------------------------------------------
(* Properties                                                                    *)

(* Every variable keeps its type (dispatch() and its helpers, app.py).           *)
TypeOK ==
  /\ conf \in Configs
  /\ ready \in [Copies -> Nat] /\ waiting \in [Copies -> Nat]
  /\ cur \in Copies \cup {None} /\ owned \in BOOLEAN /\ inTry \in BOOLEAN
  /\ (cur = None) <=> (pc \in {"idle", "dead"})
  /\ pc \in {"idle", "route", "handle", "retry", "release", "republish", "releaseAck", "ack",
             "drop", "dlq", "dlqAck", "notify", "native", "rewind", "abandon", "dead"}
  /\ {done, dropped, dlq, nativeDlq, toldDlq, resent} \subseteq SUBSET Messages
  /\ runs \in [Messages -> 0 .. RunsCap]
  /\ nfail \in 0 .. MaxFailures /\ ncrash \in 0 .. MaxCrashes /\ nlapse \in 0 .. MaxLapses

(* app.py: "a message is acked or released, never dropped": whichever broker     *)
(* call fails and wherever the process crashes, a message that is not live any   *)
(* more was handled, dead-lettered, or dropped where the configuration says so.  *)
NoLoss == \A m \in Messages : Live(m) \/ m \in done \cup dropped \cup dlq \cup nativeDlq

(* Where the configuration drops: on_unknown_urn = delete, or no dead-lettering  *)
(* and no native mechanism.  A poison reservation of Redis is never dropped      *)
(* (broker-bindings 1.1), a genuinely unknown URN released verbatim never is.    *)
DropPermitted(m) ==
  CASE Class[m] = "ok"      -> ~DeadLetter
    [] Class[m] = "unknown" -> Strategy = "delete" \/ (~DeadLetter /\ Strategy # "release")
    [] Class[m] = "gated"   -> Strategy = "delete" \/ (~DlqOn /\ ~NativeSettler)
    [] Class[m] = "poison"  -> /\ Transport # "redis"
                               /\ Strategy = "delete" \/ (~DlqOn /\ ~NativeSettler)

(* No sequence of failures makes the runtime drop a message the configuration    *)
(* keeps (_retry_or_dead_letter after a failed strategy write, native settles).  *)
OnlyPermittedDrops == \A m \in dropped : DropPermitted(m)

(* A version-gated or poison delivery never reaches a handler; a gated one is    *)
(* never re-published, and a poison one only while no DLQ could take it, not     *)
(* even when its dead-letter write fails (the except clause of dispatch()).      *)
RejectedStaysOut ==
  \A m \in Messages :
    /\ Class[m] \in {"gated", "poison"} => runs[m] = 0
    /\ Class[m] = "gated" => m \notin resent
    /\ Class[m] = "poison" /\ DlqOn => m \notin resent

(* max_attempts bounds the handler runs of a message; every failure, crash or    *)
(* lapse can at most start the count over.  A Kafka transport without tiers is   *)
(* excepted: there a failing handler "keeps failing in place" (app.py).          *)
RunBudget ==
  \A m \in Messages :
    Transport # "kafka0" => runs[m] <= MaxAttempts * (1 + nfail + ncrash + nlapse)

(* The dead-letter observer is told after the write is confirmed                 *)
(* (dead_letter.py), never of a write that failed or a native no-op.  Not so on  *)
(* Redis, which reports the write of a lapsed reservation by a log line only.    *)
ObserverAfterWrite == toldDlq \subseteq dlq \cup nativeDlq

(* The same where a reservation cannot lapse unnoticed: on every other transport *)
(* (_write_dead_letter, _settle_native), and on Redis while none has lapsed.     *)
ObserverTruthful == Transport # "redis" \/ nlapse = 0 => ObserverAfterWrite

(* Where a message can end although its handler always fails: with tiers to      *)
(* retry through, and no verbatim release of an unknown URN.                     *)
Ending == /\ Transport = "kafka0" => \A m \in Messages : Class[m] \notin {"ok", "unknown"}
          /\ Strategy = "release" => \A m \in Messages : Class[m] # "unknown"

(* Every message is settled for good, whatever its handler does: at-least-once   *)
(* retry, bounded by max_attempts, always ends (_retry_or_dead_letter).          *)
EventuallySettled == Ending => \A m \in Messages : <>[] ~Live(m)

=============================================================================
