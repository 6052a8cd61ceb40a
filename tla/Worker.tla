------------------------------- MODULE Worker -------------------------------
(***************************************************************************)
(* The consume loop of the runtime (app.py, BabelQueue.consume, dispatch   *)
(* and the shutdown machinery).                                            *)
(*                                                                         *)
(* One main thread runs the loop.  It shares `stop', `signalled',          *)
(* `deadlineHit' and `phase' with                                          *)
(*   - the signal handler, which Python runs on the main thread between    *)
(*     any two of the loop's steps and which may raise there;              *)
(*   - the deadline timer thread, which can only send a signal;            *)
(*   - other threads that call stop().                                     *)
(*                                                                         *)
(* `pc' names the places where the interpreter runs pending signal         *)
(* handlers (calls and backward jumps); statements with no such point      *)
(* between them are one step.  Signals are modelled while the handlers of  *)
(* consume() are installed: before and after, the caller's apply.          *)
(*                                                                         *)
(* The broker keeps a reservation until it is settled (the memory          *)
(* transport, Redis with retry_after = None), so nothing but the worker    *)
(* gives a delivery back.  What a settlement does to the message is        *)
(* module Settlement's subject; here it is an ack, a release for retry, or *)
(* a broker failure that leaves the delivery reserved.                     *)
(***************************************************************************)
EXTENDS Naturals, FiniteSets

CONSTANTS
  Messages,      (* the messages published before the worker starts            *)
  None,          (* Python's None                                              *)
  Configs,       (* the configurations: the transport's capability releaseBy   *)
                 (* ("rewind" | "redeliver" | "copy"), zeroTimeout             *)
                 (* (shutdown_timeout <= 0) and maxMessages of consume(), 0    *)
                 (* for None                                                   *)
  MaxRuns,       (* bound: calls of consume()                                  *)
  MaxSignals,    (* bound: SIGTERM / SIGINT sent by the environment            *)
  MaxStops,      (* bound: stop() calls from other threads                     *)
  MaxFailures    (* bound: broker calls that fail                              *)

ASSUME WorkerAssumption ==
  /\ None \notin Messages
  /\ Configs \subseteq [releaseBy : {"rewind", "redeliver", "copy"},
                        zeroTimeout : BOOLEAN, maxMessages : Nat]
  /\ MaxRuns \in Nat \ {0}
  /\ MaxSignals \in Nat
  /\ MaxStops \in Nat
  /\ MaxFailures \in Nat

VARIABLES
  config,        (* the configuration of this worker                           *)
  pc,            (* where the main thread is                                   *)
  queue,         (* messages the broker would deliver                          *)
  held,          (* message the broker has reserved for this worker, or None   *)
  received,      (* local variable of consume()                                *)
  inflight,      (* local variable of consume()                                *)
  processed,     (* local variable of consume(), counted up to maxMessages     *)
  phase,         (* _phase                                                     *)
  lastPhase,     (* _last_phase                                                *)
  stop,          (* _stop                                                      *)
  signalled,     (* _signalled                                                 *)
  deadlineHit,   (* _deadline_hit                                              *)
  run,           (* calls of consume() so far                                  *)
  timerRef,      (* _deadline_timer: the call that started it, 0 for None      *)
  timerThread,   (* the timer thread each call started:                        *)
                 (* "none" | "waiting" | "fired" | "gone"                      *)
  kill,          (* pthread_kill() was called, its handler has not run yet     *)
  installed,     (* this call's signal handlers are in place                   *)
  closed,        (* transport.close() was called                               *)
  excuse,        (* exception on its way out: "none" | "deadline" | "kbd" | "error" *)
  fate,          (* what became of the current delivery: subset of             *)
                 (* {"acked", "released", "failed"} (history)                  *)
  lateTake,      (* the current delivery was reserved after `stop' (history)   *)
  forcedAt,      (* places at which a KeyboardInterrupt was raised (history)   *)
  nsig, nstop, nfail  (* counters of the bounds                                *)

loopVars   == <<received, inflight, processed>>
brokerVars == <<queue, held, fate, lateTake>>
flagVars   == <<stop, signalled, deadlineHit>>
timerVars  == <<timerRef, timerThread, kill>>
exitVars   == <<installed, closed>>
bounds     == <<nsig, nstop, nfail>>
vars == <<config, run, pc, phase, lastPhase, excuse, forcedAt, loopVars, brokerVars, flagVars,
          timerVars, exitVars, bounds>>

IDLE     == "idle"
HANDLING == "handling"
SETTLING == "settling"

(* Places inside dispatch(), where an exception runs its `finally' first.       *)
InDispatch == {"pre", "handle", "returned"}
(* Places inside the `except KeyboardInterrupt' clause of consume().            *)
InKbdClause == {"kbd", "kbdRel", "kbdRelAck"}
(* Places at which a message on its way back to the broker is not back yet.     *)
InRelease == {"rel", "relAck"} \cup InKbdClause
(* Places inside the `finally' clause of consume(), handlers still installed.   *)
InFinally == {"exit", "restore"}
Returned == {"done", "escaped"}
PCs == {"start", "loop", "pop", "popped", "check", "rel", "relAck", "settle", "fin",
        "after", "unwind", "deadline", "clear", "close"}
         \cup InDispatch \cup InKbdClause \cup InFinally \cup Returned

Init ==
  /\ config \in Configs
  /\ pc = "start" /\ run = 0
  /\ queue = Messages /\ held = None /\ fate = {} /\ lateTake = FALSE
  /\ received = None /\ inflight = None /\ processed = 0
  /\ phase = IDLE /\ lastPhase = IDLE
  /\ stop = FALSE /\ signalled = FALSE /\ deadlineHit = FALSE
  /\ timerRef = 0 /\ timerThread = [r \in 1 .. MaxRuns |-> "none"] /\ kill = FALSE
  /\ installed = FALSE /\ closed = FALSE
  /\ excuse = "none" /\ forcedAt = {}
  /\ nsig = 0 /\ nstop = 0 /\ nfail = 0

Goto(p, q) == pc = p /\ pc' = q /\ UNCHANGED run

-----------------------------------------------------------------------------
(* Definitions named Mut... are the mutants of the definition that follows them: *)
(* bugs the properties must find.  No specification uses them.                  *)

(* The consume loop                                                             *)

(* A delivery an earlier call left reserved has no handle any more.             *)
Start ==
  /\ pc \in {"start", "done"} /\ pc' = "loop"
  /\ run < MaxRuns /\ run' = run + 1
  /\ signalled' = FALSE /\ deadlineHit' = FALSE
  /\ installed' = TRUE /\ closed' = FALSE
  /\ received' = None /\ inflight' = None /\ processed' = 0
  /\ held' = None /\ fate' = {} /\ forcedAt' = {}
  /\ UNCHANGED <<phase, lastPhase, excuse, queue, lateTake, stop, timerVars, bounds>>

MutLoopGoesOn == config.maxMessages = 0 \/ processed < config.maxMessages
LoopGoesOn == ~stop /\ (config.maxMessages = 0 \/ processed < config.maxMessages)

LoopTest ==
  /\ pc = "loop"
  /\ pc' = IF LoopGoesOn THEN "pop" ELSE "exit"
  /\ UNCHANGED <<run, phase, lastPhase, excuse, forcedAt, loopVars, brokerVars, flagVars,
                 timerVars, exitVars, bounds>>

PopNothing ==
  /\ Goto("pop", IF config.maxMessages > 0 THEN "exit" ELSE "loop")
  /\ queue = {}
  /\ UNCHANGED <<phase, lastPhase, excuse, forcedAt, loopVars, brokerVars, flagVars,
                 timerVars, exitVars, bounds>>

(* transport.pop() reserves a message at the broker; its result is not yet      *)
(* bound to `received'.                                                         *)
PopReserve ==
  /\ Goto("pop", "popped")
  /\ \E m \in queue : queue' = queue \ {m} /\ held' = m
  /\ fate' = {} /\ lateTake' = stop
  /\ UNCHANGED <<phase, lastPhase, excuse, forcedAt, loopVars, flagVars, timerVars,
                 exitVars, bounds>>

MutPopReturn ==
  /\ Goto("popped", "check")
  /\ received' = held /\ inflight' = held
  /\ UNCHANGED <<phase, lastPhase, excuse, forcedAt, processed, brokerVars, flagVars, timerVars,
                 exitVars, bounds>>
PopReturn ==
  /\ Goto("popped", "check")
  /\ received' = held /\ inflight' = held
  /\ lastPhase' = IDLE
  /\ UNCHANGED <<phase, excuse, forcedAt, processed, brokerVars, flagVars, timerVars,
                 exitVars, bounds>>

(* Reserved after the stop was requested: hand it straight back.                *)
HandBack == stop

StopCheck ==
  /\ pc = "check"
  /\ pc' = IF HandBack THEN "rel" ELSE "pre"
  /\ inflight' = IF HandBack THEN None ELSE inflight
  /\ UNCHANGED <<run, phase, lastPhase, excuse, forcedAt, received, processed, brokerVars,
                 flagVars, timerVars, exitVars, bounds>>

Count ==
  /\ Goto("after", "loop")
  /\ inflight' = None
  /\ processed' = IF config.maxMessages = 0 THEN 0 ELSE processed + 1
  /\ UNCHANGED <<phase, lastPhase, excuse, forcedAt, received, brokerVars, flagVars,
                 timerVars, exitVars, bounds>>

-----------------------------------------------------------------------------
(* dispatch()                                                                   *)

(* Routed to a handler.                                                         *)
DispatchHandler ==
  /\ Goto("pre", "handle")
  /\ phase' = HANDLING
  /\ UNCHANGED <<lastPhase, excuse, forcedAt, loopVars, brokerVars, flagVars, timerVars,
                 exitVars, bounds>>

(* Poison or no handler: straight to settlement.                                *)
DispatchUnhandled ==
  /\ Goto("pre", "settle")
  /\ phase' = SETTLING
  /\ UNCHANGED <<lastPhase, excuse, forcedAt, loopVars, brokerVars, flagVars, timerVars,
                 exitVars, bounds>>

HandlerReturns ==
  /\ Goto("handle", "returned")
  /\ UNCHANGED <<phase, lastPhase, excuse, forcedAt, loopVars, brokerVars, flagVars,
                 timerVars, exitVars, bounds>>

(* The except clause of dispatch() takes over without a signal point.           *)
HandlerRaises ==
  /\ Goto("handle", "settle")
  /\ phase' = SETTLING
  /\ UNCHANGED <<lastPhase, excuse, forcedAt, loopVars, brokerVars, flagVars, timerVars,
                 exitVars, bounds>>

BeginSettling ==
  /\ Goto("returned", "settle")
  /\ phase' = SETTLING
  /\ UNCHANGED <<lastPhase, excuse, forcedAt, loopVars, brokerVars, flagVars, timerVars,
                 exitVars, bounds>>

(* The delivery leaves the worker's hands, acknowledged or put back.            *)
Acked == /\ held' = None /\ fate' = fate \cup {"acked"} /\ UNCHANGED <<queue, lateTake>>
PutBack == /\ queue' = queue \cup {received}
           /\ held' = None
           /\ fate' = fate \cup {"released"}
           /\ UNCHANGED lateTake
BrokerFails == /\ nfail < MaxFailures /\ nfail' = nfail + 1
               /\ fate' = fate \cup {"failed"}
               /\ UNCHANGED <<queue, held, lateTake, nsig, nstop>>

(* A failing call is logged, or leaves dispatch() (a dead-letter write in its    *)
(* except clause).                                                              *)
Settle ==
  /\ Goto("settle", "fin")
  /\ \/ (Acked \/ PutBack) /\ UNCHANGED <<excuse, bounds>>
     \/ BrokerFails /\ excuse' \in {"none", "error"}
  /\ UNCHANGED <<phase, lastPhase, forcedAt, loopVars, flagVars, timerVars, exitVars>>

DispatchFinally ==
  /\ Goto("fin", IF excuse = "error" THEN "exit" ELSE "after")
  /\ lastPhase' = phase /\ phase' = IDLE
  /\ UNCHANGED <<excuse, forcedAt, loopVars, brokerVars, flagVars, timerVars, exitVars,
                 bounds>>

(* The same finally, run by an exception on its way to consume().               *)
DispatchUnwinds ==
  /\ Goto("unwind", IF excuse = "deadline" THEN "deadline" ELSE "kbd")
  /\ lastPhase' = phase /\ phase' = IDLE
  /\ excuse' = "none"
  /\ UNCHANGED <<forcedAt, loopVars, brokerVars, flagVars, timerVars, exitVars, bounds>>

-----------------------------------------------------------------------------
(* Releases at shutdown                                                         *)

CatchDeadline ==
  /\ Goto("deadline", "rel")
  /\ inflight' = None
  /\ UNCHANGED <<phase, lastPhase, excuse, forcedAt, received, processed, brokerVars,
                 flagVars, timerVars, exitVars, bounds>>

MutReleaseDueAlways == inflight # None
ReleaseDue == inflight # None /\ lastPhase # SETTLING

CatchInterrupt ==
  /\ pc = "kbd"
  /\ pc' = IF ReleaseDue THEN "kbdRel" ELSE "exit"
  /\ UNCHANGED <<run, phase, lastPhase, excuse, forcedAt, loopVars, brokerVars, flagVars,
                 timerVars, exitVars, bounds>>

(* _release_unprocessed(): a rewind or a native redelivery is one broker call;  *)
(* otherwise a copy is published and then the original acknowledged.            *)
ReleaseUnprocessed ==
  /\ pc \in {"rel", "kbdRel"}
  /\ \/ /\ PutBack
        /\ config.releaseBy # "copy"
        /\ pc' = "exit"
        /\ UNCHANGED <<excuse, bounds>>
     \/ /\ config.releaseBy = "copy"
        /\ queue' = queue \cup {received}
        /\ fate' = fate \cup {"released"}
        /\ pc' = IF pc = "rel" THEN "relAck" ELSE "kbdRelAck"
        /\ UNCHANGED <<held, lateTake, excuse, bounds>>
     \/ /\ BrokerFails  \* logged for a rewind, raised by the others
        /\ pc' = "exit"
        /\ excuse' = IF config.releaseBy = "rewind" THEN excuse ELSE "error"
  /\ UNCHANGED <<run, phase, lastPhase, forcedAt, loopVars, flagVars, timerVars, exitVars>>

(* _ack_settled() of the released original; a failure is only logged.           *)
ReleaseAck ==
  /\ pc \in {"relAck", "kbdRelAck"}
  /\ pc' = "exit"
  /\ \/ held' = None /\ UNCHANGED <<queue, fate, lateTake, bounds>>
     \/ BrokerFails
  /\ UNCHANGED <<run, phase, lastPhase, excuse, forcedAt, loopVars, flagVars, timerVars, exitVars>>

-----------------------------------------------------------------------------
(* The finally clause of consume()                                              *)

(* Under _deadline_lock, so it never overlaps Expire.  cancel() ends a timer    *)
(* thread that is still waiting, not one that already woke up.                  *)
CancelDeadline ==
  /\ Goto("exit", "restore")
  /\ timerRef' = 0
  /\ timerThread' = [timerThread EXCEPT ![run] = IF @ = "waiting" THEN "gone" ELSE @]
  /\ UNCHANGED <<phase, lastPhase, excuse, forcedAt, loopVars, brokerVars, flagVars, kill,
                 exitVars, bounds>>

(* signal.signal() runs the handlers of pending signals before it replaces them. *)
RestoreHandlers ==
  /\ Goto("restore", "clear")
  /\ ~kill
  /\ installed' = FALSE
  /\ UNCHANGED <<phase, lastPhase, excuse, forcedAt, loopVars, brokerVars, flagVars,
                 timerVars, closed, bounds>>

ClearStop ==
  /\ Goto("clear", "close")
  /\ stop' = FALSE
  /\ UNCHANGED <<phase, lastPhase, excuse, forcedAt, loopVars, brokerVars, signalled,
                 deadlineHit, timerVars, exitVars, bounds>>

CloseAndReturn ==
  /\ Goto("close", IF excuse = "none" THEN "done" ELSE "escaped")
  /\ closed' = signalled
  /\ UNCHANGED <<phase, lastPhase, excuse, forcedAt, loopVars, brokerVars, flagVars,
                 timerVars, installed, bounds>>

-----------------------------------------------------------------------------
(* Signals                                                                      *)

(* An exception raised by the signal handler at the main thread's current place. *)
Raise(exc) ==
  /\ pc' = CASE pc \in InDispatch \cup {"unwind"} -> "unwind"
             [] pc \in InKbdClause -> "exit"
             [] pc \in InFinally \cup {"escaped"} -> "escaped"
             [] OTHER              -> "kbd"
  /\ excuse' = IF pc' = "kbd" THEN excuse ELSE exc
  /\ forcedAt' = IF exc = "kbd" THEN forcedAt \cup {pc} ELSE forcedAt

Ignored == UNCHANGED <<pc, excuse, forcedAt, stop, signalled, timerRef, timerThread>>

MutDeadlineInterrupts == phase = IDLE
DeadlineInterrupts == phase = HANDLING

DeadlineSignal ==
  /\ deadlineHit
  /\ IF DeadlineInterrupts
       THEN Raise("deadline") /\ UNCHANGED <<stop, signalled, timerRef, timerThread>>
       ELSE Ignored

ForceAllowed == phase # SETTLING

SecondSignal ==
  /\ ~deadlineHit /\ stop /\ signalled
  /\ IF ForceAllowed
       THEN Raise("kbd") /\ UNCHANGED <<stop, signalled, timerRef, timerThread>>
       ELSE Ignored

FirstSignal ==
  /\ ~deadlineHit /\ ~(stop /\ signalled)
  /\ signalled' = TRUE /\ stop' = TRUE
  /\ IF phase = HANDLING /\ config.zeroTimeout
       THEN Raise("deadline")
       ELSE UNCHANGED <<pc, excuse, forcedAt>>
  /\ IF phase = HANDLING /\ ~config.zeroTimeout
       THEN timerRef' = run /\ timerThread' = [timerThread EXCEPT ![run] = "waiting"]
       ELSE UNCHANGED <<timerRef, timerThread>>

OnShutdownSignal ==
  /\ installed
  /\ DeadlineSignal \/ SecondSignal \/ FirstSignal
  /\ UNCHANGED <<run, phase, lastPhase, loopVars, brokerVars, deadlineHit, exitVars, nstop, nfail>>

Signal ==
  /\ nsig < MaxSignals
  /\ nsig' = nsig + 1
  /\ OnShutdownSignal
  /\ UNCHANGED kill

(* The signal the timer thread sent.                                            *)
DeliverKill ==
  /\ kill
  /\ kill' = FALSE
  /\ OnShutdownSignal
  /\ UNCHANGED <<config, nsig>>

TimerWakes ==
  /\ \E r \in 1 .. MaxRuns :
       timerThread[r] = "waiting" /\ timerThread' = [timerThread EXCEPT ![r] = "fired"]
  /\ UNCHANGED <<run, pc, phase, lastPhase, excuse, forcedAt, loopVars, brokerVars, flagVars,
                 timerRef, kill, exitVars, bounds>>

(* expire(), under _deadline_lock.                                              *)
MutTimerIsCurrent(r) == TRUE
TimerIsCurrent(r) == timerRef = r

Expire(r) ==
  /\ timerThread[r] = "fired"
  /\ timerThread' = [timerThread EXCEPT ![r] = "gone"]
  /\ IF TimerIsCurrent(r)
       THEN deadlineHit' = TRUE /\ kill' = TRUE
       ELSE UNCHANGED <<deadlineHit, kill>>
  /\ UNCHANGED <<run, pc, phase, lastPhase, excuse, forcedAt, loopVars, brokerVars, stop,
                 signalled, timerRef, exitVars, bounds>>

(* stop() from another thread.                                                  *)
Stop ==
  /\ nstop < MaxStops
  /\ nstop' = nstop + 1
  /\ stop' = TRUE
  /\ UNCHANGED <<run, pc, phase, lastPhase, excuse, forcedAt, loopVars, brokerVars, signalled,
                 deadlineHit, timerVars, exitVars, nsig, nfail>>

-----------------------------------------------------------------------------
HandlerEnds == (HandlerReturns \/ HandlerRaises) /\ UNCHANGED config
TimerStep == (TimerWakes \/ \E r \in 1 .. MaxRuns : Expire(r)) /\ UNCHANGED config

MainStep == UNCHANGED config /\ (
  \/ Start \/ LoopTest \/ PopNothing \/ PopReserve \/ PopReturn \/ StopCheck \/ Count
  \/ DispatchHandler \/ DispatchUnhandled \/ BeginSettling \/ Settle
  \/ DispatchFinally \/ DispatchUnwinds
  \/ CatchDeadline \/ CatchInterrupt \/ ReleaseUnprocessed \/ ReleaseAck
  \/ CancelDeadline \/ RestoreHandlers \/ ClearStop \/ CloseAndReturn)

Terminated == (pc = "escaped" \/ (pc = "done" /\ run = MaxRuns)) /\ UNCHANGED vars

Next ==
  \/ MainStep \/ HandlerEnds \/ DeliverKill \/ TimerStep
  \/ (Signal \/ Stop) /\ UNCHANGED config
  \/ Terminated

Spec == Init /\ [][Next]_vars

(* The main thread and the timer thread are scheduled, pop() returns within     *)
(* its timeout, a sent signal is handled.  A handler may run for ever and       *)
(* nobody has to send a signal or call stop().                                  *)
Fairness == WF_vars(MainStep) /\ WF_vars(DeliverKill) /\ WF_vars(TimerStep)
FairSpec == Spec /\ Fairness

-----------------------------------------------------------------------------
(* Properties                                                                   *)

(* Every variable keeps its type; the loop's flags and locals are never mixed   *)
(* up with a message (state of BabelQueue and locals of consume(), app.py).     *)
TypeOK ==
  /\ config \in Configs
  /\ pc \in PCs
  /\ run \in 0 .. MaxRuns
  /\ queue \subseteq Messages
  /\ {held, received, inflight} \subseteq Messages \cup {None}
  /\ processed \in 0 .. config.maxMessages
  /\ phase \in {IDLE, HANDLING, SETTLING} /\ lastPhase \in {IDLE, HANDLING, SETTLING}
  /\ {stop, signalled, deadlineHit, kill, installed, closed, lateTake} \subseteq BOOLEAN
  /\ timerRef \in 0 .. MaxRuns
  /\ timerThread \in [1 .. MaxRuns -> {"none", "waiting", "fired", "gone"}]
  /\ excuse \in {"none", "deadline", "kbd", "error"}
  /\ fate \subseteq {"acked", "released", "failed"}
  /\ forcedAt \subseteq PCs
  /\ nsig \in 0 .. MaxSignals /\ nstop \in 0 .. MaxStops /\ nfail \in 0 .. MaxFailures

(* tests/test_shutdown.py: the in-flight message is acked or released, "never   *)
(* both": a settlement that began is never followed by a shutdown release of    *)
(* the same delivery, wherever the signals land.                                *)
NeverBoth == ~ ({"acked", "released"} \subseteq fate)

(* A message reserved after the stop was requested (a pop() that was already    *)
(* blocking, a signal between the loop test and the reservation) never reaches  *)
(* its handler (app.py, "Reserved after the stop was requested").               *)
NoHandlerAfterStop == phase = HANDLING => ~lateTake

(* A delivery the worker took is settled by the time consume() is over: acked   *)
(* or put back, unless a broker call failed (app.py: "a message is either acked *)
(* or released, never dropped").  Wherever signals, the deadline and stop()     *)
(* fall, around the handler, at the stop test, while dispatch() unwinds, before *)
(* the count, in the finally clause; saved out are only a second signal between *)
(* the reservation and `inflight', and one inside the release, the clause for   *)
(* KeyboardInterrupt included: those leave it reserved by nobody.               *)
ExitSettles ==
  pc \in Returned /\ forcedAt \cap ({"popped"} \cup InRelease) = {} => held = None \/ "failed" \in fate

(* The deadline's signal is only ever in flight while the handlers of the call  *)
(* that started the timer are installed: never at the caller's handlers after   *)
(* consume() restored them, never at a later consume() (_start_deadline,        *)
(* _cancel_deadline and the identity test in expire()).                         *)
DeadlineOnlyForItsCall == (kill => installed) /\ (deadlineHit => signalled)

(* A settlement (ack, retry, dead-letter) runs to its end: no signal and no     *)
(* deadline takes the main thread out of it (_SETTLING, "must not be            *)
(* interrupted").                                                               *)
SettlementUninterrupted ==
  [][ (pc = "settle" => pc' \in {"settle", "fin"}) /\ (pc = "fin" => pc' \in {"fin", IF excuse = "error" THEN "exit" ELSE "after"}) ]_vars

(* Once a deadline was started for a handler, that call of consume() ends, even *)
(* if the handler itself never does (shutdown_timeout).                         *)
DeadlineEndsConsume == (timerRef # 0) ~> (pc \in Returned)

(* With handlers that end, every stop request, from a signal or from stop(),    *)
(* ends the loop, also while no message arrives.                                *)
StopEndsConsume == WF_vars(HandlerEnds) => (stop ~> (pc \in Returned))

=============================================================================
