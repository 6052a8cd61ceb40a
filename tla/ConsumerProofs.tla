--------------------------- MODULE ConsumerProofs ---------------------------
(***************************************************************************)
(* Proofs about the consumer's side: the consume loop (Worker) and the data *)
(* its handlers are handed (FieldProtection).                               *)
(*                                                                         *)
(* Worker, for any number of messages, signals, stop() calls, broker         *)
(* failures and calls of consume(): signals may land anywhere, so the        *)
(* inductive invariant WInv says for each place of the main thread what its  *)
(* flags and locals promise there: the phase (PhaseAtPlace), what has become *)
(* of the delivery so far (FateAtPlace), what the interrupt clause may rely  *)
(* on (ReleasableAtPlace) and which call the deadline belongs to             *)
(* (DeadlineAtPlace).                                                       *)
(*                                                                         *)
(* FieldProtection, for any schemas, documents, attempts and faults: sealing *)
(* one more leaf of a document, or opening one, is sealing it at one leaf    *)
(* more or less (Sealing, Opening), so that FieldInv can say of every        *)
(* document that it is the producer's, sealed at some outermost marks.  On    *)
(* its way down a path the walk is at all values of one level (DescentInv,    *)
(* ChildrenLevel, ElementsLevel), so it ends at the leaves the path declares. *)
(***************************************************************************)
EXTENDS Worker, FieldProtection, WellFoundedInduction, TLAPS

-----------------------------------------------------------------------------
(* The inductive invariant                                                      *)

Before == {"popped", "check", "pre", "handle", "returned", "settle", "unwind", "deadline"}
Outside == {"start", "restore", "clear", "close", "done"}

(* A handler's phase is HANDLING, a settlement's SETTLING, and elsewhere IDLE;   *)
(* an exception out of dispatch() passes its finally clause first.              *)
PhaseAtPlace ==
  /\ pc \in {"handle", "returned"} => phase = HANDLING
  /\ pc \in {"settle", "fin"} => phase = SETTLING
  /\ pc = "unwind" => phase \in {IDLE, HANDLING}
  /\ pc \notin {"handle", "returned", "settle", "fin", "unwind"} => phase = IDLE

(* The locals: a message is known from pop() on, and inflight is that message.   *)
LocalsAtPlace ==
  /\ pc = "popped" => held # None
  /\ pc \in {"check", "pre", "handle", "returned", "settle", "unwind", "rel", "kbdRel", "deadline"}
       => received # None
  /\ inflight \in {None, received}
  /\ pc \in {"start", "loop", "pop", "popped", "rel", "relAck"} => inflight = None
  /\ pc \in {"check", "pre", "handle", "returned"} => inflight # None
  /\ config.maxMessages > 0 /\ pc \in Before \cup {"pop", "fin", "after"} => processed < config.maxMessages

(* Nothing has become of a delivery before its settlement; one that was         *)
(* acknowledged is not in flight any more, or the last phase says so.           *)
FateAtPlace ==
  /\ pc \in Before => fate = {}
  /\ "acked" \in fate =>
       /\ "released" \notin fate
       /\ pc \notin {"rel", "relAck", "kbdRel", "kbdRelAck"}
       /\ pc \in {"loop", "pop", "after", "kbd"} => inflight = None \/ lastPhase = SETTLING

(* A delivery reserved after the stop is handed back at the stop test.          *)
LateAtPlace ==
  /\ lateTake /\ pc \in {"popped", "check"} => stop
  /\ pc \in {"pre", "handle", "returned", "unwind"} => ~lateTake

(* Unless a second signal fell after a reservation or into a release, what is    *)
(* not settled is still in flight, and the interrupt clause will release it:     *)
(* the last phase is not that of an earlier delivery.                           *)
Settled == held = None \/ "failed" \in fate
ReleasableAtPlace ==
  forcedAt \cap ({"popped"} \cup InRelease) = {} =>
    /\ pc \in {"start", "loop", "pop", "fin", "after", "exit", "restore", "clear", "close"} \cup Returned
         => Settled
    /\ pc \in {"unwind", "deadline"} => inflight # None
    /\ pc \in {"check", "deadline"} => lastPhase # SETTLING
    /\ pc = "kbd" => Settled \/ (inflight # None /\ lastPhase # SETTLING)

(* A deadline belongs to the running call, whose signal handlers are in place.   *)
DeadlineAtPlace ==
  /\ pc \in {"clear", "close", "start", "done"} => ~installed
  /\ pc \in Outside => timerRef = 0
  /\ timerRef # 0 => installed /\ signalled
  /\ DeadlineOnlyForItsCall

WInv ==
  /\ TypeOK
  /\ PhaseAtPlace /\ LocalsAtPlace /\ FateAtPlace /\ LateAtPlace
  /\ ReleasableAtPlace /\ DeadlineAtPlace

-----------------------------------------------------------------------------

USE DEF WInv, TypeOK, PhaseAtPlace, LocalsAtPlace, FateAtPlace, LateAtPlace, ReleasableAtPlace,
        DeadlineAtPlace, DeadlineOnlyForItsCall, Settled, Before, Outside,
        PCs, InDispatch, InKbdClause, InRelease, InFinally, Returned, IDLE, HANDLING, SETTLING,
        loopVars, brokerVars, flagVars, timerVars, exitVars, bounds, Goto

LEMMA Initially == Init => WInv
  <1> SUFFICES ASSUME Init PROVE WInv
    OBVIOUS
  <1>1. TypeOK
    <2>1. {stop, signalled, deadlineHit, kill, installed, closed, lateTake} \subseteq BOOLEAN
      BY DEF Init
    <2> QED BY <2>1, WorkerAssumption DEF Init
  <1>2. PhaseAtPlace
    BY WorkerAssumption DEF Init
  <1>3. LocalsAtPlace
    BY WorkerAssumption DEF Init
  <1>4. FateAtPlace
    BY WorkerAssumption DEF Init
  <1>5. LateAtPlace
    BY WorkerAssumption DEF Init
  <1>6. ReleasableAtPlace
    BY WorkerAssumption DEF Init
  <1>7. DeadlineAtPlace
    BY WorkerAssumption DEF Init
  <1> QED BY <1>1, <1>2, <1>3, <1>4, <1>5, <1>6, <1>7

LEMMA MainKeeps ==
  ASSUME WInv, MainStep
  PROVE  WInv'
  <1> USE WorkerAssumption
  <1>1. CASE Start
    <2>1. TypeOK'
      <3>1. ({stop, signalled, deadlineHit, kill, installed, closed, lateTake} \subseteq BOOLEAN)'
        BY <1>1 DEF MainStep, Start
      <3> QED BY <3>1, <1>1 DEF MainStep, Start
    <2>2. PhaseAtPlace'
      BY <1>1 DEF MainStep, Start
    <2>3. LocalsAtPlace'
      BY <1>1 DEF MainStep, Start
    <2>4. FateAtPlace'
      BY <1>1 DEF MainStep, Start
    <2>5. LateAtPlace'
      BY <1>1 DEF MainStep, Start
    <2>6. ReleasableAtPlace'
      BY <1>1 DEF MainStep, Start
    <2>7. DeadlineAtPlace'
      BY <1>1 DEF MainStep, Start
    <2> QED BY <2>1, <2>2, <2>3, <2>4, <2>5, <2>6, <2>7
  <1>2. CASE LoopTest
    BY <1>2 DEF MainStep, LoopTest, LoopGoesOn
  <1>3. CASE PopNothing
    BY <1>3 DEF MainStep, PopNothing
  <1>4. CASE PopReserve
    BY <1>4 DEF MainStep, PopReserve
  <1>5. CASE PopReturn
    BY <1>5 DEF MainStep, PopReturn
  <1>6. CASE StopCheck
    BY <1>6 DEF MainStep, StopCheck, HandBack
  <1>7. CASE Count
    BY <1>7 DEF MainStep, Count
  <1>8. CASE DispatchHandler
    BY <1>8 DEF MainStep, DispatchHandler
  <1>9. CASE DispatchUnhandled
    BY <1>9 DEF MainStep, DispatchUnhandled
  <1>10. CASE BeginSettling
    BY <1>10 DEF MainStep, BeginSettling
  <1>11. CASE Settle
    <2>1. TypeOK'
      <3>1. ({stop, signalled, deadlineHit, kill, installed, closed, lateTake} \subseteq BOOLEAN)'
        BY <1>11 DEF MainStep, Settle, Acked, PutBack, BrokerFails
      <3>2. (nsig \in 0 .. MaxSignals /\ nstop \in 0 .. MaxStops /\ nfail \in 0 .. MaxFailures)'
        BY <1>11 DEF MainStep, Settle, Acked, PutBack, BrokerFails
      <3>3. (queue \subseteq Messages /\ {held, received, inflight} \subseteq Messages \cup {None})'
        BY <1>11 DEF MainStep, Settle, Acked, PutBack, BrokerFails
      <3> QED BY <3>1, <3>2, <3>3, <1>11 DEF MainStep, Settle, Acked, PutBack, BrokerFails
    <2>2. PhaseAtPlace'
      BY <1>11 DEF MainStep, Settle, Acked, PutBack, BrokerFails
    <2>3. LocalsAtPlace'
      BY <1>11 DEF MainStep, Settle, Acked, PutBack, BrokerFails
    <2>4. FateAtPlace'
      BY <1>11 DEF MainStep, Settle, Acked, PutBack, BrokerFails
    <2>5. LateAtPlace'
      BY <1>11 DEF MainStep, Settle, Acked, PutBack, BrokerFails
    <2>6. ReleasableAtPlace'
      BY <1>11 DEF MainStep, Settle, Acked, PutBack, BrokerFails
    <2>7. DeadlineAtPlace'
      BY <1>11 DEF MainStep, Settle, Acked, PutBack, BrokerFails
    <2> QED BY <2>1, <2>2, <2>3, <2>4, <2>5, <2>6, <2>7
  <1>12. CASE DispatchFinally
    BY <1>12 DEF MainStep, DispatchFinally
  <1>13. CASE DispatchUnwinds
    BY <1>13 DEF MainStep, DispatchUnwinds
  <1>14. CASE CatchDeadline
    BY <1>14 DEF MainStep, CatchDeadline
  <1>15. CASE CatchInterrupt
    BY <1>15 DEF MainStep, CatchInterrupt, ReleaseDue
  <1>16. CASE ReleaseUnprocessed
    <2>1. TypeOK'
      <3>1. ({stop, signalled, deadlineHit, kill, installed, closed, lateTake} \subseteq BOOLEAN)'
        BY <1>16 DEF MainStep, ReleaseUnprocessed, PutBack, BrokerFails
      <3>2. (nsig \in 0 .. MaxSignals /\ nstop \in 0 .. MaxStops /\ nfail \in 0 .. MaxFailures)'
        BY <1>16 DEF MainStep, ReleaseUnprocessed, PutBack, BrokerFails
      <3>3. (queue \subseteq Messages /\ {held, received, inflight} \subseteq Messages \cup {None})'
        BY <1>16 DEF MainStep, ReleaseUnprocessed, PutBack, BrokerFails
      <3> QED BY <3>1, <3>2, <3>3, <1>16 DEF MainStep, ReleaseUnprocessed, PutBack, BrokerFails
    <2>2. PhaseAtPlace'
      BY <1>16 DEF MainStep, ReleaseUnprocessed, PutBack, BrokerFails
    <2>3. LocalsAtPlace'
      BY <1>16 DEF MainStep, ReleaseUnprocessed, PutBack, BrokerFails
    <2>4. FateAtPlace'
      BY <1>16 DEF MainStep, ReleaseUnprocessed, PutBack, BrokerFails
    <2>5. LateAtPlace'
      BY <1>16 DEF MainStep, ReleaseUnprocessed, PutBack, BrokerFails
    <2>6. ReleasableAtPlace'
      BY <1>16 DEF MainStep, ReleaseUnprocessed, PutBack, BrokerFails
    <2>7. DeadlineAtPlace'
      BY <1>16 DEF MainStep, ReleaseUnprocessed, PutBack, BrokerFails
    <2> QED BY <2>1, <2>2, <2>3, <2>4, <2>5, <2>6, <2>7
  <1>17. CASE ReleaseAck
    <2>1. TypeOK'
      <3>1. ({stop, signalled, deadlineHit, kill, installed, closed, lateTake} \subseteq BOOLEAN)'
        BY <1>17 DEF MainStep, ReleaseAck, BrokerFails
      <3>2. (nsig \in 0 .. MaxSignals /\ nstop \in 0 .. MaxStops /\ nfail \in 0 .. MaxFailures)'
        BY <1>17 DEF MainStep, ReleaseAck, BrokerFails
      <3>3. (queue \subseteq Messages /\ {held, received, inflight} \subseteq Messages \cup {None})'
        BY <1>17 DEF MainStep, ReleaseAck, BrokerFails
      <3> QED BY <3>1, <3>2, <3>3, <1>17 DEF MainStep, ReleaseAck, BrokerFails
    <2>2. PhaseAtPlace'
      BY <1>17 DEF MainStep, ReleaseAck, BrokerFails
    <2>3. LocalsAtPlace'
      BY <1>17 DEF MainStep, ReleaseAck, BrokerFails
    <2>4. FateAtPlace'
      BY <1>17 DEF MainStep, ReleaseAck, BrokerFails
    <2>5. LateAtPlace'
      BY <1>17 DEF MainStep, ReleaseAck, BrokerFails
    <2>6. ReleasableAtPlace'
      BY <1>17 DEF MainStep, ReleaseAck, BrokerFails
    <2>7. DeadlineAtPlace'
      BY <1>17 DEF MainStep, ReleaseAck, BrokerFails
    <2> QED BY <2>1, <2>2, <2>3, <2>4, <2>5, <2>6, <2>7
  <1>18. CASE CancelDeadline
    <2>1. TypeOK'
      <3>1. ({stop, signalled, deadlineHit, kill, installed, closed, lateTake} \subseteq BOOLEAN)'
        BY <1>18 DEF MainStep, CancelDeadline
      <3>2. (timerThread \in [1 .. MaxRuns -> {"none", "waiting", "fired", "gone"}])'
        BY <1>18 DEF MainStep, CancelDeadline
      <3> QED BY <3>1, <3>2, <1>18 DEF MainStep, CancelDeadline
    <2>2. PhaseAtPlace'
      BY <1>18 DEF MainStep, CancelDeadline
    <2>3. LocalsAtPlace'
      BY <1>18 DEF MainStep, CancelDeadline
    <2>4. FateAtPlace'
      BY <1>18 DEF MainStep, CancelDeadline
    <2>5. LateAtPlace'
      BY <1>18 DEF MainStep, CancelDeadline
    <2>6. ReleasableAtPlace'
      BY <1>18 DEF MainStep, CancelDeadline
    <2>7. DeadlineAtPlace'
      BY <1>18 DEF MainStep, CancelDeadline
    <2> QED BY <2>1, <2>2, <2>3, <2>4, <2>5, <2>6, <2>7
  <1>19. CASE RestoreHandlers
    BY <1>19 DEF MainStep, RestoreHandlers
  <1>20. CASE ClearStop
    <2>1. TypeOK'
      <3>1. ({stop, signalled, deadlineHit, kill, installed, closed, lateTake} \subseteq BOOLEAN)'
        BY <1>20 DEF MainStep, ClearStop
      <3> QED BY <3>1, <1>20 DEF MainStep, ClearStop
    <2>2. PhaseAtPlace' /\ LocalsAtPlace'
      BY <1>20 DEF MainStep, ClearStop
    <2>3. FateAtPlace' /\ LateAtPlace'
      BY <1>20 DEF MainStep, ClearStop
    <2>4. ReleasableAtPlace'
      BY <1>20 DEF MainStep, ClearStop
    <2>5. DeadlineAtPlace'
      BY <1>20 DEF MainStep, ClearStop
    <2> QED BY <2>1, <2>2, <2>3, <2>4, <2>5
  <1>21. CASE CloseAndReturn
    BY <1>21 DEF MainStep, CloseAndReturn
  <1> QED
    BY <1>1, <1>2, <1>3, <1>4, <1>5, <1>6, <1>7, <1>8, <1>9, <1>10, <1>11, <1>12, <1>13, <1>14,
       <1>15, <1>16, <1>17, <1>18, <1>19, <1>20, <1>21 DEF MainStep

(* A handler that ends, the timer thread and stop() touch few of the variables.   *)
LEMMA OthersKeep ==
  ASSUME WInv, HandlerEnds \/ TimerStep \/ (Stop /\ UNCHANGED config)
  PROVE  WInv'
  <1> USE WorkerAssumption
  <1>1. CASE HandlerReturns /\ UNCHANGED config
    BY <1>1 DEF HandlerReturns
  <1>2. CASE HandlerRaises /\ UNCHANGED config
    BY <1>2 DEF HandlerRaises
  <1>3. CASE TimerWakes /\ UNCHANGED config
    BY <1>3 DEF TimerWakes
  <1>4. ASSUME NEW r \in 1 .. MaxRuns, Expire(r), UNCHANGED config
        PROVE  WInv'
    <2>1. ({stop, signalled, deadlineHit, kill, installed, closed, lateTake} \subseteq BOOLEAN)'
      BY <1>4 DEF Expire, TimerIsCurrent
    <2>2. (timerThread \in [1 .. MaxRuns -> {"none", "waiting", "fired", "gone"}])'
      BY <1>4 DEF Expire, TimerIsCurrent
    <2>3. DeadlineAtPlace'
      BY <1>4 DEF Expire, TimerIsCurrent
    <2> QED BY <2>1, <2>2, <2>3, <1>4 DEF Expire, TimerIsCurrent
  <1>5. CASE Stop /\ UNCHANGED config
    BY <1>5 DEF Stop
  <1> QED BY <1>1, <1>2, <1>3, <1>4, <1>5 DEF HandlerEnds, TimerStep

(* An exception raised by the signal handler leads to a place of the main thread.  *)
LEMMA RaisedSomewhere ==
  ASSUME TypeOK, NEW exc \in {"deadline", "kbd"}, Raise(exc)
  PROVE  pc' \in PCs /\ excuse' \in {"none", "deadline", "kbd", "error"} /\ forcedAt' \subseteq PCs
  <1>1. pc' \in {"unwind", "exit", "escaped", "kbd"}
    BY DEF Raise
  <1>2. pc \in PCs /\ forcedAt \subseteq PCs /\ excuse \in {"none", "deadline", "kbd", "error"}
    OBVIOUS
  <1>3. excuse' \in {excuse, exc} /\ forcedAt' \in {forcedAt, forcedAt \cup {pc}}
    BY DEF Raise
  <1> QED BY <1>1, <1>2, <1>3

(* The signal handler raises only where the phase lets it, and every place it    *)
(* leads to keeps its promises.                                                 *)
LEMMA SignalKeeps ==
  ASSUME WInv, OnShutdownSignal, UNCHANGED config, kill' \in {kill, FALSE}, nsig' \in 0 .. MaxSignals
  PROVE  WInv'
  <1> USE WorkerAssumption
  <1>1. CASE DeadlineSignal
    <2>1. TypeOK'
      <3>1. ({stop, signalled, deadlineHit, kill, installed, closed, lateTake} \subseteq BOOLEAN)'
        BY <1>1 DEF OnShutdownSignal, DeadlineSignal, Ignored
      <3>2. Raise("deadline") \/ UNCHANGED <<pc, excuse, forcedAt>>
        BY <1>1 DEF DeadlineSignal, Ignored
      <3>3. pc' \in PCs /\ excuse' \in {"none", "deadline", "kbd", "error"} /\ forcedAt' \subseteq PCs
        BY <3>2, RaisedSomewhere
      <3>4. UNCHANGED <<timerThread, timerRef>>
        BY <1>1 DEF DeadlineSignal, Ignored
      <3> QED BY <3>1, <3>3, <3>4 DEF OnShutdownSignal
    <2>2. PhaseAtPlace'
      BY <1>1 DEF OnShutdownSignal, DeadlineSignal, DeadlineInterrupts, Raise, Ignored
    <2>3. LocalsAtPlace'
      BY <1>1 DEF OnShutdownSignal, DeadlineSignal, DeadlineInterrupts, Raise, Ignored
    <2>4. FateAtPlace'
      BY <1>1 DEF OnShutdownSignal, DeadlineSignal, DeadlineInterrupts, Raise, Ignored
    <2>5. LateAtPlace'
      BY <1>1 DEF OnShutdownSignal, DeadlineSignal, DeadlineInterrupts, Raise, Ignored
    <2>6. ReleasableAtPlace'
      BY <1>1 DEF OnShutdownSignal, DeadlineSignal, DeadlineInterrupts, Raise, Ignored
    <2>7. DeadlineAtPlace'
      BY <1>1 DEF OnShutdownSignal, DeadlineSignal, DeadlineInterrupts, Raise, Ignored
    <2> QED BY <2>1, <2>2, <2>3, <2>4, <2>5, <2>6, <2>7
  <1>2. CASE SecondSignal
    <2>1. TypeOK'
      <3>1. ({stop, signalled, deadlineHit, kill, installed, closed, lateTake} \subseteq BOOLEAN)'
        BY <1>2 DEF OnShutdownSignal, SecondSignal, Ignored
      <3>2. Raise("kbd") \/ UNCHANGED <<pc, excuse, forcedAt>>
        BY <1>2 DEF SecondSignal, Ignored
      <3>3. pc' \in PCs /\ excuse' \in {"none", "deadline", "kbd", "error"} /\ forcedAt' \subseteq PCs
        BY <3>2, RaisedSomewhere
      <3>4. UNCHANGED <<timerThread, timerRef>>
        BY <1>2 DEF SecondSignal, Ignored
      <3> QED BY <3>1, <3>3, <3>4 DEF OnShutdownSignal
    <2>2. PhaseAtPlace'
      BY <1>2 DEF OnShutdownSignal, SecondSignal, ForceAllowed, Raise, Ignored
    <2>3. LocalsAtPlace'
      BY <1>2 DEF OnShutdownSignal, SecondSignal, ForceAllowed, Raise, Ignored
    <2>4. FateAtPlace'
      BY <1>2 DEF OnShutdownSignal, SecondSignal, ForceAllowed, Raise, Ignored
    <2>5. LateAtPlace'
      BY <1>2 DEF OnShutdownSignal, SecondSignal, ForceAllowed, Raise, Ignored
    <2>6. ReleasableAtPlace'
      BY <1>2 DEF OnShutdownSignal, SecondSignal, ForceAllowed, Raise, Ignored
    <2>7. DeadlineAtPlace'
      BY <1>2 DEF OnShutdownSignal, SecondSignal, ForceAllowed, Raise, Ignored
    <2> QED BY <2>1, <2>2, <2>3, <2>4, <2>5, <2>6, <2>7
  <1>3. CASE FirstSignal
    <2>1. TypeOK'
      <3>1. ({stop, signalled, deadlineHit, kill, installed, closed, lateTake} \subseteq BOOLEAN)'
        BY <1>3 DEF OnShutdownSignal, FirstSignal
      <3>2. Raise("deadline") \/ UNCHANGED <<pc, excuse, forcedAt>>
        BY <1>3 DEF FirstSignal
      <3>3. pc' \in PCs /\ excuse' \in {"none", "deadline", "kbd", "error"} /\ forcedAt' \subseteq PCs
        BY <3>2, RaisedSomewhere
      <3>4. /\ timerThread' \in [1 .. MaxRuns -> {"none", "waiting", "fired", "gone"}]
            /\ timerRef' \in 0 .. MaxRuns
        BY <1>3 DEF FirstSignal
      <3> QED BY <3>1, <3>3, <3>4 DEF OnShutdownSignal
    <2>2. PhaseAtPlace'
      BY <1>3 DEF OnShutdownSignal, FirstSignal, Raise
    <2>3. LocalsAtPlace'
      BY <1>3 DEF OnShutdownSignal, FirstSignal, Raise
    <2>4. FateAtPlace'
      BY <1>3 DEF OnShutdownSignal, FirstSignal, Raise
    <2>5. LateAtPlace'
      BY <1>3 DEF OnShutdownSignal, FirstSignal, Raise
    <2>6. ReleasableAtPlace'
      BY <1>3 DEF OnShutdownSignal, FirstSignal, Raise
    <2>7. DeadlineAtPlace'
      BY <1>3 DEF OnShutdownSignal, FirstSignal, Raise
    <2> QED BY <2>1, <2>2, <2>3, <2>4, <2>5, <2>6, <2>7
  <1> QED BY <1>1, <1>2, <1>3 DEF OnShutdownSignal

-----------------------------------------------------------------------------
(* Theorems                                                                     *)

HIDE DEF WInv, TypeOK, PhaseAtPlace, LocalsAtPlace, FateAtPlace, LateAtPlace, ReleasableAtPlace,
         DeadlineAtPlace, DeadlineOnlyForItsCall

(* The inductive invariant of consume(), its signal handler and its timers.     *)
THEOREM Invariants == Spec => []WInv
  <1>1. WInv /\ [Next]_vars => WInv'
    <2> SUFFICES ASSUME WInv, [Next]_vars PROVE WInv'
      OBVIOUS
    <2>1. CASE Signal /\ UNCHANGED config
      <3>1. nsig' \in 0 .. MaxSignals /\ kill' \in {kill, FALSE}
        BY <2>1, WorkerAssumption DEF Signal, WInv, TypeOK
      <3> QED BY <2>1, <3>1, SignalKeeps DEF Signal
    <2>2. CASE DeliverKill
      <3>1. nsig' \in 0 .. MaxSignals /\ kill' \in {kill, FALSE} /\ UNCHANGED config
        BY <2>2 DEF DeliverKill, WInv, TypeOK
      <3> QED BY <2>2, <3>1, SignalKeeps DEF DeliverKill
    <2>3. CASE UNCHANGED vars
      BY <2>3 DEF vars, WInv, TypeOK, PhaseAtPlace, LocalsAtPlace, FateAtPlace, LateAtPlace,
                  ReleasableAtPlace, DeadlineAtPlace, DeadlineOnlyForItsCall
    <2> QED BY <2>1, <2>2, <2>3, MainKeeps, OthersKeep DEF Next, Terminated
  <1> QED BY <1>1, Initially, PTL DEF Spec

(* The flags and locals keep their types for any number of signals and calls.   *)
THEOREM TypeCorrect == Spec => []TypeOK
  <1>1. WInv => TypeOK
    BY DEF WInv
  <1> QED BY <1>1, Invariants, PTL

(* A delivery is never both acknowledged and put back, wherever signals land:    *)
(* the phase the interrupt clause reads tells a settlement that began.          *)
THEOREM AckedXorReleased == Spec => []NeverBoth
  <1>1. WInv => NeverBoth
    BY DEF WInv, FateAtPlace, NeverBoth
  <1> QED BY <1>1, Invariants, PTL

(* No handler starts with a message that was reserved after the stop.           *)
THEOREM StopComesFirst == Spec => []NoHandlerAfterStop
  <1>1. WInv => NoHandlerAfterStop
    BY DEF WInv, PhaseAtPlace, LateAtPlace, NoHandlerAfterStop
  <1> QED BY <1>1, Invariants, PTL

(* consume() leaves nothing reserved behind, unless the broker failed or a second *)
(* signal fell between a reservation and `inflight' or into a release.          *)
THEOREM ExitsSettle == Spec => []ExitSettles
  <1>1. WInv => ExitSettles
    BY DEF WInv, ReleasableAtPlace, ExitSettles
  <1> QED BY <1>1, Invariants, PTL

(* The deadline of a call interrupts no other call and not the caller.          *)
THEOREM DeadlinesStayHome == Spec => []DeadlineOnlyForItsCall
  <1>1. WInv => DeadlineOnlyForItsCall
    BY DEF WInv, DeadlineAtPlace
  <1> QED BY <1>1, Invariants, PTL

(* Nothing takes the main thread out of a settlement.                           *)
THEOREM SettlesInPeace == Spec => SettlementUninterrupted
  <1> DEFINE Goes ==
        /\ pc = "settle" => pc' \in {"settle", "fin"}
        /\ pc = "fin" => pc' \in {"fin", IF excuse = "error" THEN "exit" ELSE "after"}
  <1>1. ASSUME WInv, Next PROVE Goes
    <2> USE DEF WInv, PhaseAtPlace
    <2>1. CASE MainStep
      BY <2>1 DEF MainStep, Start, LoopTest, PopNothing, PopReserve, PopReturn, StopCheck, Count,
         DispatchHandler, DispatchUnhandled, BeginSettling, Settle, DispatchFinally, DispatchUnwinds,
         CatchDeadline, CatchInterrupt, ReleaseUnprocessed, ReleaseAck, CancelDeadline,
         RestoreHandlers, ClearStop, CloseAndReturn
    <2>2. CASE HandlerEnds
      BY <2>2 DEF HandlerEnds, HandlerReturns, HandlerRaises
    <2>3. CASE Signal \/ DeliverKill
      <3>1. phase = SETTLING => pc' = pc
        BY <2>3 DEF Signal, DeliverKill, OnShutdownSignal, DeadlineSignal, DeadlineInterrupts,
           SecondSignal, ForceAllowed, FirstSignal, Ignored
      <3> QED BY <3>1, <1>1
    <2>4. CASE TimerStep \/ Stop
      BY <2>4 DEF TimerStep, TimerWakes, Expire, Stop
    <2>5. CASE Terminated
      BY <2>5 DEF Terminated, vars
    <2> QED BY <1>1, <2>1, <2>2, <2>3, <2>4, <2>5 DEF Next
  <1>2. WInv /\ [Next]_vars => [Goes]_vars
    BY <1>1
  <1> QED BY <1>2, Invariants, PTL DEF Spec, SettlementUninterrupted

-----------------------------------------------------------------------------
(* Field encryption: prefixes of addresses and paths                             *)


LEMMA PrefixIs ==
  ASSUME NEW E, NEW a \in Seq(E), NEW b \in Seq(E)
  PROVE  IsPrefix(a, b) <=> Len(a) <= Len(b) /\ \A i \in 1 .. Len(a) : a[i] = b[i]
<1>1. CASE Len(a) <= Len(b)
  <2> DEFINE A == SubSeq(a, 1, Len(a))  B == SubSeq(b, 1, Len(a))
  <2>1. A \in Seq(E) /\ Len(A) = Len(a) /\ \A i \in 1 .. Len(a) : A[i] = a[i]
    OBVIOUS
  <2>2. B \in Seq(E) /\ Len(B) = Len(a) /\ \A i \in 1 .. Len(a) : B[i] = b[i]
    BY <1>1
  <2>3. A = B <=> \A i \in 1 .. Len(a) : A[i] = B[i]
    BY <2>1, <2>2
  <2> QED BY <1>1, <2>1, <2>2, <2>3 DEF IsPrefix
<1>2. CASE ~(Len(a) <= Len(b))
  BY <1>2 DEF IsPrefix
<1> QED BY <1>1, <1>2

LEMMA PrefixReflexive ==
  ASSUME NEW E, NEW a \in Seq(E)
  PROVE  IsPrefix(a, a)
BY PrefixIs

LEMMA PrefixAntisymmetric ==
  ASSUME NEW E, NEW a \in Seq(E), NEW b \in Seq(E), IsPrefix(a, b), IsPrefix(b, a)
  PROVE  a = b
<1>1. Len(a) = Len(b) /\ \A i \in 1 .. Len(a) : a[i] = b[i]
  BY PrefixIs
<1> QED BY <1>1

LEMMA PrefixTransitive ==
  ASSUME NEW E, NEW a \in Seq(E), NEW b \in Seq(E), NEW c \in Seq(E),
         IsPrefix(a, b), IsPrefix(b, c)
  PROVE  IsPrefix(a, c)
<1>1. /\ Len(a) <= Len(b) /\ \A i \in 1 .. Len(a) : a[i] = b[i]
      /\ Len(b) <= Len(c) /\ \A i \in 1 .. Len(b) : b[i] = c[i]
  BY PrefixIs
<1>2. Len(a) <= Len(c) /\ \A i \in 1 .. Len(a) : a[i] = c[i]
  BY <1>1
<1> QED BY <1>2, PrefixIs

(* Two prefixes of one address lie on one line.                                  *)
LEMMA PrefixesComparable ==
  ASSUME NEW E, NEW a \in Seq(E), NEW b \in Seq(E), NEW c \in Seq(E),
         IsPrefix(a, c), IsPrefix(b, c)
  PROVE  IsPrefix(a, b) \/ IsPrefix(b, a)
<1>1. /\ \A i \in 1 .. Len(a) : a[i] = c[i]
      /\ \A i \in 1 .. Len(b) : b[i] = c[i]
  BY PrefixIs
<1>2. CASE Len(a) <= Len(b)
  <2>1. \A i \in 1 .. Len(a) : a[i] = b[i]
    BY <1>1, <1>2
  <2> QED BY <1>2, <2>1, PrefixIs
<1>3. CASE Len(b) <= Len(a)
  <2>1. \A i \in 1 .. Len(b) : b[i] = a[i]
    BY <1>1, <1>3
  <2> QED BY <1>3, <2>1, PrefixIs
<1> QED BY <1>2, <1>3

LEMMA SpeltIsPath ==
  ASSUME NEW at \in Seq(STRING \X Nat)
  PROVE  Spelt(at) \in Seq(STRING) /\ Len(Spelt(at)) = Len(at)
<1>1. \A i \in DOMAIN at : at[i][1] \in STRING
  OBVIOUS
<1>2. DOMAIN Spelt(at) = 1 .. Len(at) /\ \A i \in 1 .. Len(at) : Spelt(at)[i] \in STRING
  BY <1>1 DEF Spelt
<1> QED BY <1>1, <1>2 DEF Spelt

(* An address further up is spelt by a path further up.                          *)
LEMMA SpeltStrictly ==
  ASSUME NEW a \in Seq(STRING \X Nat), NEW b \in Seq(STRING \X Nat), IsStrictPrefix(a, b)
  PROVE  IsStrictPrefix(Spelt(a), Spelt(b))
<1>1. a # b /\ Len(a) <= Len(b) /\ \A i \in 1 .. Len(a) : a[i] = b[i]
  BY PrefixIs DEF IsStrictPrefix
<1>2. Len(a) # Len(b)
  BY <1>1
<1>3. /\ Spelt(a) \in Seq(STRING) /\ Len(Spelt(a)) = Len(a)
      /\ Spelt(b) \in Seq(STRING) /\ Len(Spelt(b)) = Len(b)
  BY SpeltIsPath
<1>4. \A i \in 1 .. Len(a) : Spelt(a)[i] = Spelt(b)[i]
  BY <1>1 DEF Spelt
<1>5. IsPrefix(Spelt(a), Spelt(b))
  BY <1>1, <1>3, <1>4, PrefixIs
<1> QED BY <1>2, <1>3, <1>5 DEF IsStrictPrefix

-----------------------------------------------------------------------------
(* Sealing a document                                                           *)

Addresses == Seq(STRING \X Nat)
Apart(S) == \A s, t \in S : ~IsStrictPrefix(s, t)
Ciphers(doc) == {at \in DOMAIN doc : Is("cipher", doc[at])}

(* Nothing sealed apart from a leaf is at it or below it.                        *)
LEMMA NothingSealedBelow ==
  ASSUME NEW S \in SUBSET Addresses, NEW a \in Addresses, a \notin S, Apart(S \cup {a}),
         NEW b \in Addresses, IsPrefix(a, b)
  PROVE  b \notin S /\ \A s \in S : ~IsStrictPrefix(s, b)
<1>1. b \notin S
  BY DEF Apart, IsStrictPrefix
<1>2. ASSUME NEW s \in S, IsStrictPrefix(s, b) PROVE FALSE
  <2>1. IsPrefix(a, s) \/ IsPrefix(s, a)
    BY <1>2, PrefixesComparable DEF Addresses, IsStrictPrefix
  <2> QED BY <2>1 DEF Apart, IsStrictPrefix
<1> QED BY <1>1, <1>2

LEMMA Sealing ==
  ASSUME NEW D, DOMAIN D \subseteq Addresses, NEW S \in SUBSET DOMAIN D,
         NEW a \in DOMAIN D, a \notin S, Apart(S \cup {a})
  PROVE  Replaced(Sealed(D, S), a, Encrypted(Sealed(D, S), a)) = Sealed(D, S \cup {a})
<1> DEFINE T == Sealed(D, S)
<1>1. /\ DOMAIN T = {b \in DOMAIN D : \A s \in S : ~IsStrictPrefix(s, b)}
      /\ \A b \in DOMAIN T : T[b] = IF b \in S THEN <<"cipher", Under(D, b)>> ELSE D[b]
  BY DEF Sealed
<1>2. \A b \in DOMAIN D : IsPrefix(a, b) => b \in DOMAIN T /\ T[b] = D[b]
  BY <1>1, NothingSealedBelow
<1> HIDE DEF T
<1>3. Under(T, a) = Under(D, a)
  <2>1. {b \in DOMAIN T : IsPrefix(a, b)} = {b \in DOMAIN D : IsPrefix(a, b)}
    BY <1>1, <1>2
  <2> QED BY <1>2, <2>1 DEF Under, Restrict
<1>4. IsPrefix(a, a)
  BY PrefixReflexive DEF Addresses
<1> DEFINE E == Encrypted(T, a)
           R == {b \in DOMAIN T : ~IsPrefix(a, b)} \cup {a}
<1>5. DOMAIN E = {a} /\ E[a] = <<"cipher", Under(D, a)>>
  BY <1>3 DEF Encrypted
<1>6. R = {b \in DOMAIN D : \A s \in S \cup {a} : ~IsStrictPrefix(s, b)}
  BY <1>1, <1>2, <1>4 DEF IsStrictPrefix
<1>7. \A b \in R : (IF b \in DOMAIN E THEN E[b] ELSE T[b])
                      = IF b \in S \cup {a} THEN <<"cipher", Under(D, b)>> ELSE D[b]
  BY <1>1, <1>5
<1>8. Replaced(T, a, E) = [b \in R |-> IF b \in DOMAIN E THEN E[b] ELSE T[b]]
  BY <1>5 DEF Replaced
<1>9. Replaced(T, a, E) = Sealed(D, S \cup {a})
  <2> HIDE DEF E, R
  <2> QED BY <1>6, <1>7, <1>8 DEF Sealed
<1> QED BY <1>9 DEF E, T

LEMMA Opening ==
  ASSUME NEW D, DOMAIN D \subseteq Addresses, NEW S \in SUBSET DOMAIN D,
         NEW a \in S, Apart(S)
  PROVE  /\ Replaced(Sealed(D, S), a, Under(D, a)) = Sealed(D, S \ {a})
         /\ DOMAIN Sealed(D, S) \subseteq DOMAIN Sealed(D, S \ {a})
<1> DEFINE T == Sealed(D, S)
<1>1. /\ DOMAIN T = {b \in DOMAIN D : \A s \in S : ~IsStrictPrefix(s, b)}
      /\ \A b \in DOMAIN T : T[b] = IF b \in S THEN <<"cipher", Under(D, b)>> ELSE D[b]
  BY DEF Sealed
<1> HIDE DEF T
<1>2. \A b \in DOMAIN D : IsPrefix(a, b) =>
        b \notin S \ {a} /\ \A s \in S \ {a} : ~IsStrictPrefix(s, b)
  <2>1. Apart((S \ {a}) \cup {a}) /\ S \ {a} \in SUBSET Addresses /\ a \notin S \ {a} /\ a \in Addresses
    BY DEF Apart
  <2> QED BY <2>1, NothingSealedBelow
<1>3. IsPrefix(a, a)
  BY PrefixReflexive DEF Addresses
<1> DEFINE U == Under(D, a)
           R == {b \in DOMAIN T : ~IsPrefix(a, b)} \cup DOMAIN U
<1>4. DOMAIN U = {b \in DOMAIN D : IsPrefix(a, b)} /\ \A b \in DOMAIN U : U[b] = D[b]
  BY DEF Under, Restrict
<1>5. R = {b \in DOMAIN D : \A s \in S \ {a} : ~IsStrictPrefix(s, b)}
  BY <1>1, <1>2, <1>4 DEF IsStrictPrefix
<1>6. \A b \in R : (IF b \in DOMAIN U THEN U[b] ELSE T[b])
                      = IF b \in S \ {a} THEN <<"cipher", Under(D, b)>> ELSE D[b]
  <2> HIDE DEF U
  <2> QED BY <1>1, <1>2, <1>3, <1>4
<1>7. Replaced(T, a, U) = [b \in R |-> IF b \in DOMAIN U THEN U[b] ELSE T[b]]
  BY DEF Replaced
<1>8. Replaced(T, a, U) = Sealed(D, S \ {a})
  <2> HIDE DEF U, R
  <2> QED BY <1>5, <1>6, <1>7 DEF Sealed
<1>9. DOMAIN Sealed(D, S) \subseteq DOMAIN Sealed(D, S \ {a})
  BY DEF Sealed
<1> QED BY <1>8, <1>9 DEF U, T

LEMMA SealedCiphers ==
  ASSUME NEW D, NEW S \in SUBSET DOMAIN D, Apart(S), \A at \in DOMAIN D : ~Is("cipher", D[at])
  PROVE  /\ Ciphers(Sealed(D, S)) = S
         /\ S \subseteq DOMAIN Sealed(D, S) /\ DOMAIN Sealed(D, S) \subseteq DOMAIN D
         /\ \A at \in S : Sealed(D, S)[at][2] = Under(D, at)
<1>1. S \subseteq DOMAIN Sealed(D, S) /\ DOMAIN Sealed(D, S) \subseteq DOMAIN D
  BY DEF Sealed, Apart
<1>2. \A at \in S : Sealed(D, S)[at] = <<"cipher", Under(D, at)>>
  BY <1>1 DEF Sealed
<1>3. \A at \in DOMAIN Sealed(D, S) \ S : Sealed(D, S)[at] = D[at]
  BY DEF Sealed
<1> QED BY <1>1, <1>2, <1>3 DEF Ciphers, Is

LEMMA NothingSealed ==
  ASSUME NEW D, D \in [DOMAIN D -> Range(D)]
  PROVE  Sealed(D, {}) = D
<1>1. Sealed(D, {}) = [at \in DOMAIN D |-> D[at]]
  BY DEF Sealed
<1> QED BY <1>1

-----------------------------------------------------------------------------
(* Going down a document                                                        *)

(* A document in which every value but the root is in an object or in an array;   *)
(* a sealed one is not in IsDocument's sense a value of its own, but is so too.   *)
TreeLike(doc) ==
  /\ <<>> \in DOMAIN doc /\ DOMAIN doc \subseteq Addresses
  /\ \A at \in DOMAIN doc \ {<<>>} :
       /\ Front(at) \in DOMAIN doc
       /\ IF Last(at)[1] = "[]" THEN Is("array", doc[Front(at)])
          ELSE Last(at)[2] = 0 /\ Is("object", doc[Front(at)])

(* The values k steps down the path.                                             *)
Level(doc, k) == {at \in DOMAIN doc : Len(at) = k /\ \A i \in 1 .. k : at[i][1] = path[i]}

LEMMA FrontLast ==
  ASSUME NEW at \in Addresses, at # <<>>
  PROVE  /\ Front(at) \in Addresses /\ Len(Front(at)) = Len(at) - 1 /\ Len(at) \in Nat \ {0}
         /\ \A i \in 1 .. Len(at) - 1 : Front(at)[i] = at[i]
         /\ Last(at) = at[Len(at)] /\ Last(at) \in STRING \X Nat
         /\ at = Append(Front(at), Last(at))
         /\ IsStrictPrefix(Front(at), at)
<1>1. at \in Seq(STRING \X Nat) /\ Len(at) \in Nat \ {0}
  BY DEF Addresses
<1>2. /\ Front(at) \in Addresses /\ Len(Front(at)) = Len(at) - 1
      /\ \A i \in 1 .. Len(at) - 1 : Front(at)[i] = at[i]
  <2> DEFINE n == Len(at) - 1
  <2>1. n \in Nat /\ n <= Len(at)
    BY <1>1
  <2> HIDE DEF n
  <2>2. /\ SubSeq(at, 1, n) \in Seq(STRING \X Nat) /\ Len(SubSeq(at, 1, n)) = n
        /\ \A i \in 1 .. n : SubSeq(at, 1, n)[i] = at[i]
    BY <1>1, <2>1
  <2> QED BY <2>2 DEF Front, Addresses, n
<1>3. Last(at) = at[Len(at)] /\ Last(at) \in STRING \X Nat
  BY <1>1 DEF Last
<1>4. at = Append(Front(at), Last(at))
  <2> DEFINE f == Front(at)  l == Last(at)
  <2>1. f \in Seq(STRING \X Nat) /\ l \in STRING \X Nat
    BY <1>2, <1>3 DEF Addresses
  <2>2. Len(f) = Len(at) - 1 /\ l = at[Len(at)] /\ \A i \in 1 .. Len(at) - 1 : f[i] = at[i]
    BY <1>2, <1>3
  <2> HIDE DEF f, l
  <2>3. Append(f, l) \in Seq(STRING \X Nat) /\ Len(Append(f, l)) = Len(at)
    BY <1>1, <2>1, <2>2
  <2>4. \A i \in 1 .. Len(at) : Append(f, l)[i] = at[i]
    BY <1>1, <2>1, <2>2
  <2>5. at = Append(f, l)
    BY <1>1, <2>3, <2>4
  <2> QED BY <2>5 DEF f, l
<1>5. IsPrefix(Front(at), at)
  <2> DEFINE f == Front(at)
  <2>1. f \in Seq(STRING \X Nat) /\ Len(f) <= Len(at) /\ \A i \in 1 .. Len(f) : f[i] = at[i]
    BY <1>1, <1>2 DEF Addresses
  <2> HIDE DEF f
  <2>2. IsPrefix(f, at)
    BY <1>1, <2>1, PrefixIs
  <2> QED BY <2>2 DEF f
<1>6. Front(at) # at
  BY <1>1, <1>2
<1> QED BY <1>1, <1>2, <1>3, <1>4, <1>5, <1>6 DEF IsStrictPrefix

LEMMA FrontAt ==
  ASSUME NEW at \in Addresses, NEW k \in Nat, Len(at) = k + 1
  PROVE  /\ at # <<>> /\ Front(at) \in Addresses /\ Len(Front(at)) = k
         /\ \A i \in 1 .. k : Front(at)[i] = at[i]
         /\ Last(at) = at[k + 1] /\ Last(at) \in STRING \X Nat
         /\ at = Append(Front(at), Last(at)) /\ IsStrictPrefix(Front(at), at)
<1>1. at # <<>>
  OBVIOUS
<1>2. Len(at) - 1 = k
  OBVIOUS
<1> QED BY <1>1, <1>2, FrontLast

(* Sealing keeps the shape of what is not sealed away.                           *)
LEMMA SealedTreeLike ==
  ASSUME NEW D, IsDocument(D), NEW S \in SUBSET DOMAIN D
  PROVE  TreeLike(Sealed(D, S))
<1> DEFINE T == Sealed(D, S)
<1>1. /\ DOMAIN T = {b \in DOMAIN D : \A s \in S : ~IsStrictPrefix(s, b)}
      /\ \A b \in DOMAIN T : b \notin S => T[b] = D[b]
  BY DEF Sealed
<1> HIDE DEF T
<1>2. DOMAIN D \subseteq Addresses
  BY DEF IsDocument, Addresses
<1>3. <<>> \in DOMAIN T
  <2>1. ASSUME NEW s \in S, IsStrictPrefix(s, <<>>) PROVE FALSE
    <3>1. s \in Seq(STRING \X Nat) /\ <<>> \in Seq(STRING \X Nat)
      BY <1>2 DEF Addresses
    <3>2. Len(s) <= Len(<<>>) /\ s # <<>>
      BY <2>1 DEF IsStrictPrefix, IsPrefix
    <3> QED BY <3>1, <3>2
  <2> QED BY <1>1, <2>1 DEF IsDocument
<1>4. ASSUME NEW at \in DOMAIN T, at # <<>>
      PROVE  /\ Front(at) \in DOMAIN T
             /\ IF Last(at)[1] = "[]" THEN Is("array", T[Front(at)])
                ELSE Last(at)[2] = 0 /\ Is("object", T[Front(at)])
  <2>1. at \in DOMAIN D /\ at \in Addresses /\ Front(at) \in DOMAIN D
    BY <1>1, <1>2, <1>4 DEF IsDocument
  <2>2. IsStrictPrefix(Front(at), at)
    BY <1>4, <2>1, FrontLast
  <2>3. Front(at) \notin S
    BY <1>1, <2>2
  <2>4. ASSUME NEW s \in S, IsStrictPrefix(s, Front(at)) PROVE FALSE
    <3>1. s \in Addresses /\ Front(at) \in Addresses
      BY <1>2, <2>1
    <3>2. IsPrefix(s, at)
      BY <2>1, <2>2, <2>4, <3>1, PrefixTransitive DEF Addresses, IsStrictPrefix
    <3>3. s # at
      BY <2>1, <2>2, <2>4, <3>1, PrefixAntisymmetric DEF Addresses, IsStrictPrefix
    <3> QED BY <1>1, <3>2, <3>3 DEF IsStrictPrefix
  <2>5. Front(at) \in DOMAIN T /\ T[Front(at)] = D[Front(at)]
    BY <1>1, <2>1, <2>3, <2>4
  <2> QED BY <1>4, <2>1, <2>5 DEF IsDocument
<1>5. TreeLike(T)
  BY <1>1, <1>2, <1>3, <1>4 DEF TreeLike
<1> QED BY <1>5 DEF T

LEMMA RootLevel ==
  ASSUME NEW doc, TreeLike(doc)
  PROVE  Level(doc, 0) = {<<>>}
<1>1. \A at \in DOMAIN doc : at \in Seq(STRING \X Nat)
  BY DEF TreeLike, Addresses
<1>2. \A at \in DOMAIN doc : Len(at) = 0 <=> at = <<>>
  BY <1>1
<1> QED BY <1>2 DEF Level, TreeLike

(* One key down.                                                                 *)
LEMMA ChildrenLevel ==
  ASSUME NEW doc, TreeLike(doc), NEW k \in Nat,
         Head(rest) = path[k + 1], Head(rest) # "[]", Head(rest) \in STRING
  PROVE  UNION {Children(doc, node) : node \in Level(doc, k)} = Level(doc, k + 1)
<1> DEFINE key == Head(rest)
<1>1. ASSUME NEW node \in Level(doc, k), NEW at \in Children(doc, node)
      PROVE  at \in Level(doc, k + 1)
  <2>1. /\ node \in Seq(STRING \X Nat) /\ Len(node) = k /\ <<key, 0>> \in STRING \X Nat
        /\ \A i \in 1 .. k : node[i][1] = path[i]
    BY DEF Level, TreeLike, Addresses
  <2>2. at = Append(node, <<key, 0>>) /\ at \in DOMAIN doc
    BY DEF Children
  <2>3. Len(at) = k + 1 /\ at[k + 1] = <<key, 0>> /\ \A i \in 1 .. k : at[i] = node[i]
    BY <2>1, <2>2
  <2>4. \A i \in 1 .. k + 1 : at[i][1] = path[i]
    BY <2>1, <2>3
  <2> QED BY <2>2, <2>3, <2>4 DEF Level
<1>2. ASSUME NEW at \in Level(doc, k + 1)
      PROVE  \E node \in Level(doc, k) : at \in Children(doc, node)
  <2>1. at \in DOMAIN doc /\ at \in Addresses /\ Len(at) = k + 1 /\ \A i \in 1 .. k + 1 : at[i][1] = path[i]
    BY DEF Level, TreeLike
  <2>2. at \in Addresses /\ Len(at) = k + 1
    BY <2>1
  <2>3. /\ at # <<>>
        /\ Front(at) \in Addresses /\ Len(Front(at)) = k /\ \A i \in 1 .. k : Front(at)[i] = at[i]
        /\ Last(at) = at[k + 1] /\ Last(at) \in STRING \X Nat /\ at = Append(Front(at), Last(at))
    BY <2>2, FrontAt
  <2>4. Last(at)[1] = key
    BY <2>1, <2>3
  <2>5. Front(at) \in DOMAIN doc /\ Last(at)[2] = 0 /\ Is("object", doc[Front(at)])
    BY <2>1, <2>3, <2>4 DEF TreeLike
  <2>6. Last(at) = <<key, 0>>
    BY <2>3, <2>4, <2>5
  <2>7. Front(at) \in Level(doc, k)
    BY <2>1, <2>3, <2>5 DEF Level
  <2> QED BY <2>1, <2>3, <2>5, <2>6, <2>7 DEF Children
<1> QED BY <1>1, <1>2

LEMMA SameSequence ==
  ASSUME NEW E, NEW a \in Seq(E), NEW b \in Seq(E), Len(a) = Len(b), \A i \in 1 .. Len(a) : a[i] = b[i]
  PROVE  a = b
OBVIOUS

(* The elements of the arrays there.                                             *)
LEMMA ElementsLevel ==
  ASSUME NEW doc, TreeLike(doc), NEW k \in Nat, path[k + 1] = "[]"
  PROVE  UNION {Elements(doc, child) : child \in Level(doc, k)} = Level(doc, k + 1)
<1>1. ASSUME NEW child \in Level(doc, k), NEW at \in Elements(doc, child)
      PROVE  at \in Level(doc, k + 1)
  <2>1. /\ child \in Seq(STRING \X Nat) /\ Len(child) = k /\ \A i \in 1 .. k : child[i][1] = path[i]
        /\ at \in DOMAIN doc /\ at \in Seq(STRING \X Nat) /\ Len(at) = k + 1
        /\ Is("array", doc[child]) /\ IsPrefix(child, at)
    BY DEF Level, TreeLike, Addresses, Elements
  <2>2. \A i \in 1 .. k : child[i] = at[i]
    <3>1. child \in Seq(STRING \X Nat) /\ at \in Seq(STRING \X Nat) /\ IsPrefix(child, at) /\ Len(child) = k
      BY <2>1
    <3>2. \A i \in 1 .. Len(child) : child[i] = at[i]
      BY <3>1, PrefixIs
    <3> QED BY <3>1, <3>2
  <2>3. at \in Addresses /\ Len(at) = k + 1
    BY <2>1 DEF Addresses
  <2>4. /\ at # <<>> /\ Front(at) \in Seq(STRING \X Nat) /\ Len(Front(at)) = k
        /\ \A i \in 1 .. k : Front(at)[i] = at[i]
        /\ Last(at) = at[k + 1]
    BY <2>3, FrontAt DEF Addresses
  <2>5. Front(at) = child
    <3> DEFINE f == Front(at)
    <3>1. f \in Seq(STRING \X Nat) /\ Len(f) = Len(child) /\ child \in Seq(STRING \X Nat)
      BY <2>1, <2>4
    <3>2. \A i \in 1 .. Len(f) : f[i] = child[i]
      BY <2>2, <2>4
    <3> HIDE DEF f
    <3>3. f = child
      BY <3>1, <3>2, SameSequence
    <3> QED BY <3>3 DEF f
  <2>6. Last(at)[1] = "[]"
    BY <2>1, <2>4, <2>5 DEF TreeLike, Is
  <2>7. Last(at) = at[k + 1]
    BY <2>4
  <2>8. \A i \in 1 .. k + 1 : at[i][1] = path[i]
    BY <2>1, <2>2, <2>6, <2>7
  <2> QED BY <2>1, <2>8 DEF Level
<1>2. ASSUME NEW at \in Level(doc, k + 1)
      PROVE  \E child \in Level(doc, k) : at \in Elements(doc, child)
  <2>1. at \in DOMAIN doc /\ at \in Addresses /\ Len(at) = k + 1 /\ \A i \in 1 .. k + 1 : at[i][1] = path[i]
    BY DEF Level, TreeLike
  <2>2. at \in Addresses /\ Len(at) = k + 1
    BY <2>1
  <2>3. /\ at # <<>> /\ Len(Front(at)) = k /\ \A i \in 1 .. k : Front(at)[i] = at[i]
        /\ Last(at) = at[k + 1] /\ IsStrictPrefix(Front(at), at)
    BY <2>2, FrontAt
  <2>4. Front(at) \in DOMAIN doc /\ Is("array", doc[Front(at)])
    BY <2>1, <2>2, <2>3 DEF TreeLike
  <2>5. Front(at) \in Level(doc, k)
    BY <2>1, <2>3, <2>4 DEF Level
  <2> QED BY <2>1, <2>3, <2>4, <2>5 DEF Elements, IsStrictPrefix
<1> QED BY <1>1, <1>2

-----------------------------------------------------------------------------
(* The marked leaves of the data                                                *)

Declared  == {at \in DOMAIN Cleartext : Spelt(at) \in Paths \ {<<>>} /\ Resolvable(Spelt(at))}
Outermost == {at \in Declared : \A b \in Declared : ~IsStrictPrefix(b, at)}

(* What is known of the published case.                                          *)
LEMMA CaseIs ==
  ASSUME case \in DOMAIN Cases
  PROVE  /\ Cleartext \in [DOMAIN Cleartext -> Range(Cleartext)] /\ IsDocument(Cleartext)
         /\ DOMAIN Cleartext \subseteq Addresses
         /\ \A at \in DOMAIN Cleartext : ~Is("cipher", Cleartext[at])
         /\ Paths \subseteq Seq(STRING)
         /\ Outermost \subseteq Declared /\ Declared \subseteq DOMAIN Cleartext
         /\ Apart(Outermost)
BY ProtectionAssumption DEF Cleartext, Paths, IsDocument, Addresses, Outermost, Declared, Apart

(* A non-empty set of naturals has a least element.                             *)
LEMMA Least ==
  ASSUME NEW S \in SUBSET Nat, S # {}
  PROVE  \E n \in S : \A k \in S : n <= k
<1>1. PICK n \in S : \A k \in S : <<k, n>> \notin OpToRel(<, Nat)
  BY NatLessThanWellFounded, WFMin
<1>2. \A k \in S : ~(k < n)
  BY <1>1 DEF OpToRel
<1> QED BY <1>2

(* Above a declared leaf, or at it, is an outermost one.                         *)
LEMMA UnderOutermost ==
  ASSUME case \in DOMAIN Cases, NEW a \in Declared, NEW b \in Addresses, IsStrictPrefix(a, b)
  PROVE  \E t \in Outermost : IsStrictPrefix(t, b)
<1> DEFINE Above == {s \in Declared : IsStrictPrefix(s, b)}
           Lengths == {Len(s) : s \in Above}
<1>1. Declared \subseteq Addresses
  BY CaseIs
<1>2. Lengths \in SUBSET Nat /\ Lengths # {}
  <2>1. \A s \in Above : s \in Seq(STRING \X Nat)
    BY <1>1 DEF Addresses
  <2>2. \A s \in Above : Len(s) \in Nat
    BY <2>1
  <2>3. a \in Above
    OBVIOUS
  <2> QED BY <2>2, <2>3
<1>3. PICK n \in Lengths : \A k \in Lengths : n <= k
  BY <1>2, Least
<1>4. PICK t \in Above : Len(t) = n
  OBVIOUS
<1>5. ASSUME NEW s \in Declared, IsStrictPrefix(s, t) PROVE FALSE
  <2>1. s \in Addresses /\ t \in Addresses
    BY <1>1
  <2>2. IsPrefix(s, b)
    BY <1>4, <1>5, <2>1, PrefixTransitive DEF Addresses, IsStrictPrefix
  <2>3. s # b
    BY <1>4, <1>5, <2>1, PrefixAntisymmetric DEF Addresses, IsStrictPrefix
  <2>4. Len(t) <= Len(s)
    BY <1>3, <1>4, <1>5, <2>2, <2>3 DEF IsStrictPrefix
  <2>5. IsPrefix(t, s)
    <3>1. Len(s) <= Len(t) /\ \A i \in 1 .. Len(s) : s[i] = t[i]
      BY <1>5, <2>1, PrefixIs DEF Addresses, IsStrictPrefix
    <3> QED BY <2>1, <2>4, <3>1, PrefixIs DEF Addresses
  <2> QED BY <1>5, <2>1, <2>5, PrefixAntisymmetric DEF Addresses, IsStrictPrefix
<1> QED BY <1>4, <1>5 DEF Outermost

(* What the marks say is sealed by sealing the outermost leaves, if the walk can *)
(* address all of them.                                                         *)
LEMMA SealedAsMarked ==
  ASSUME case \in DOMAIN Cases, Reachable
  PROVE  Sealed(Cleartext, Outermost) = Sealed(Cleartext, Marked)
<1>1. Declared = Marked
  <2>1. \A at \in DOMAIN Cleartext : at = <<>> <=> Spelt(at) = <<>>
    <3>1. \A at \in DOMAIN Cleartext : at \in Seq(STRING \X Nat)
      BY CaseIs DEF Addresses
    <3>2. \A at \in DOMAIN Cleartext : Spelt(at) \in Seq(STRING) /\ Len(Spelt(at)) = Len(at)
      BY <3>1, SpeltIsPath
    <3> QED BY <3>1, <3>2
  <2> QED BY <2>1 DEF Declared, Marked, Reachable
<1>2. \A b \in DOMAIN Cleartext :
        (\A s \in Outermost : ~IsStrictPrefix(s, b)) <=> \A s \in Declared : ~IsStrictPrefix(s, b)
  BY CaseIs, UnderOutermost
<1>3. \A b \in DOMAIN Cleartext :
        (\A s \in Declared : ~IsStrictPrefix(s, b)) => (b \in Outermost <=> b \in Declared)
  BY DEF Outermost
<1>4. Sealed(Cleartext, Outermost) = Sealed(Cleartext, Declared)
  BY <1>2, <1>3 DEF Sealed
<1> QED BY <1>1, <1>4

-----------------------------------------------------------------------------
(* The inductive invariant                                                      *)

SealedForm(doc) ==
  Ciphers(doc) \subseteq Outermost /\ doc = Sealed(Cleartext, Ciphers(doc))

FieldTypes ==
  /\ case \in DOMAIN Cases /\ takes \in {"data", "envelope"}
  /\ stage \in {"protect", "abandoned", "queued", "unprotect", "work", "failed", "acked", "dead"}
  /\ todo \subseteq Paths /\ path \in Seq(STRING) /\ rest \in Seq(STRING)
  /\ attempts \in Nat /\ faults \in 0 .. MaxFaults

(* On its way down, the walk is at all values that lie as far down the path as it *)
(* has come: path is the part it has passed, which is resolvable, and the rest.   *)
DescentInv ==
  stage \in {"protect", "unprotect"} /\ rest # <<>> =>
    /\ path \in Paths /\ path \notin todo /\ First(path) /\ Len(rest) <= Len(path)
    /\ LET k == Len(path) - Len(rest)
       IN  /\ \A i \in 1 .. Len(rest) : rest[i] = path[k + i]
           /\ \A i \in 1 .. k : path[i] = "[]" => i > 1 /\ path[i - 1] # "[]"
           /\ k > 0 => path[k + 1] # "[]"
           /\ places = Level(Data, k)

(* The leaves the walk has still before it.                                      *)
Waiting(at) == Spelt(at) \in todo \/ IF rest = <<>> THEN at \in places ELSE Spelt(at) = path

(* protect() has sealed what it has passed, and no more.                         *)
ProducerInv ==
  stage = "protect" =>
    /\ wire = NoBody /\ attempts = 0
    /\ rest = <<>> => places \subseteq Outermost /\ \A at \in places : Spelt(at) \notin todo
    /\ owned = Sealed(Cleartext, {at \in Outermost : ~Waiting(at)})

(* The broker's body can always be opened; all of it is sealed, if no handler    *)
(* has opened any of it in the runtime's envelope.                               *)
WireInv ==
  /\ stage \in {"abandoned", "acked"} => wire = NoBody
  /\ stage \in {"queued", "unprotect", "work", "failed", "dead"} =>
       SealedForm(wire) /\ (attempts = 0 \/ Private => Ciphers(wire) = Outermost)

(* The handler has opened all the runtime has, and what it has not opened is     *)
(* still before unprotect().                                                    *)
HandlerInv ==
  stage \in {"unprotect", "work", "failed"} =>
    /\ SealedForm(owned) /\ SealedForm(view) /\ Ciphers(view) \subseteq Ciphers(owned)
    /\ Private => Ciphers(owned) = Outermost
    /\ stage = "unprotect" =>
         /\ rest = <<>> => places \subseteq DOMAIN view
         /\ \A at \in Ciphers(view) : Waiting(at)
    /\ stage = "work" => Ciphers(view) = {}

FieldInv == FieldTypes /\ DescentInv /\ ProducerInv /\ WireInv /\ HandlerInv

(* A document sealed at some of the outermost leaves.                            *)
LEMMA SealedAt ==
  ASSUME case \in DOMAIN Cases, NEW S \in SUBSET Outermost
  PROVE  /\ Ciphers(Sealed(Cleartext, S)) = S /\ SealedForm(Sealed(Cleartext, S))
         /\ S \subseteq DOMAIN Sealed(Cleartext, S)
         /\ DOMAIN Sealed(Cleartext, S) \subseteq DOMAIN Cleartext
         /\ \A at \in S : Sealed(Cleartext, S)[at][2] = Under(Cleartext, at)
<1>1. S \in SUBSET DOMAIN Cleartext /\ Apart(S)
  BY CaseIs DEF Apart
<1> QED BY <1>1, CaseIs, SealedCiphers DEF SealedForm

(* Opening one leaf of such a document.                                          *)
LEMMA OpenedAt ==
  ASSUME case \in DOMAIN Cases, NEW doc, SealedForm(doc), NEW at \in Ciphers(doc)
  PROVE  LET opened == Replaced(doc, at, Under(Cleartext, at))
         IN  /\ SealedForm(opened) /\ Ciphers(opened) = Ciphers(doc) \ {at}
             /\ DOMAIN doc \subseteq DOMAIN opened
             /\ doc[at][2] = Under(Cleartext, at)
<1> DEFINE S == Ciphers(doc)
<1>1. S \in SUBSET Outermost /\ S \in SUBSET DOMAIN Cleartext /\ Apart(S) /\ at \in S
  BY CaseIs DEF SealedForm, Apart
<1>2. doc = Sealed(Cleartext, S)
  BY DEF SealedForm
<1> HIDE DEF S
<1>3. /\ Replaced(Sealed(Cleartext, S), at, Under(Cleartext, at)) = Sealed(Cleartext, S \ {at})
      /\ DOMAIN Sealed(Cleartext, S) \subseteq DOMAIN Sealed(Cleartext, S \ {at})
  BY <1>1, CaseIs, Opening
<1>4. Ciphers(Sealed(Cleartext, S \ {at})) = S \ {at} /\ SealedForm(Sealed(Cleartext, S \ {at}))
  BY <1>1, SealedAt
<1>5. Sealed(Cleartext, S)[at][2] = Under(Cleartext, at)
  BY <1>1, SealedAt
<1> QED BY <1>2, <1>3, <1>4, <1>5 DEF S

(* The data a walk goes over is such a document.                                 *)
LEMMA DataIs ==
  ASSUME FieldTypes, ProducerInv, HandlerInv, stage \in {"protect", "unprotect"}
  PROVE  /\ TreeLike(Data) /\ DOMAIN Data \subseteq DOMAIN Cleartext
         /\ \E S \in SUBSET Outermost : Data = Sealed(Cleartext, S)
<1>1. PICK S \in SUBSET Outermost : Data = Sealed(Cleartext, S)
  BY DEF ProducerInv, HandlerInv, SealedForm, Data
<1>2. S \in SUBSET DOMAIN Cleartext /\ IsDocument(Cleartext)
  BY <1>1, CaseIs DEF FieldTypes
<1>3. TreeLike(Data)
  BY <1>1, <1>2, SealedTreeLike
<1> QED BY <1>1, <1>3, SealedAt DEF FieldTypes

-----------------------------------------------------------------------------
(* Every step keeps the invariant                                               *)

LEMMA SameCase ==
  ASSUME UNCHANGED <<case, takes>>
  PROVE  /\ Cleartext' = Cleartext /\ Paths' = Paths /\ Outermost' = Outermost
         /\ Private' = Private
BY DEF Cleartext, Paths, Declared, Outermost, Private

LEMMA FieldInitInv == FieldInit => FieldInv
<1> SUFFICES ASSUME FieldInit PROVE FieldInv
  OBVIOUS
<1> USE DEF FieldInit
<1>1. FieldTypes
  BY ProtectionAssumption DEF FieldTypes
<1>2. {at \in Outermost : ~Waiting(at)} = {}
  BY DEF Outermost, Declared, Waiting
<1>3. Sealed(Cleartext, {}) = Cleartext
  BY CaseIs, NothingSealed
<1>4. ProducerInv
  BY <1>2, <1>3 DEF ProducerInv
<1> QED BY <1>1, <1>4 DEF FieldInv, DescentInv, WireInv, HandlerInv

(* All of the way behind it, the walk is at the values that are spelt so.        *)
LEMMA LevelLeaves ==
  ASSUME NEW doc, TreeLike(doc), path \in Seq(STRING)
  PROVE  Level(doc, Len(path)) = {at \in DOMAIN doc : Spelt(at) = path}
<1> SUFFICES ASSUME NEW at \in DOMAIN doc
             PROVE  (Len(at) = Len(path) /\ \A i \in 1 .. Len(path) : at[i][1] = path[i]) <=> Spelt(at) = path
  BY DEF Level
<1>1. at \in Seq(STRING \X Nat)
  BY DEF TreeLike, Addresses
<1>2. Spelt(at) \in Seq(STRING) /\ Len(Spelt(at)) = Len(at)
  BY <1>1, SpeltIsPath
<1>3. \A i \in 1 .. Len(at) : Spelt(at)[i] = at[i][1]
  BY <1>1 DEF Spelt
<1> QED BY <1>2, <1>3

(* One segment down: either it is none that data has a key for, or the walk is at *)
(* the values below.                                                            *)
LEMMA DescendTo ==
  ASSUME FieldInv, Descend
  PROVE  /\ rest' \in Seq(STRING)
         /\ \/ rest' = <<>> /\ places' = {} /\ ~Resolvable(path)
            \/ /\ Len(rest') <= Len(path)
               /\ LET k == Len(path) - Len(rest')
                  IN  /\ \A i \in 1 .. Len(rest') : rest'[i] = path[k + i]
                      /\ \A i \in 1 .. k : path[i] = "[]" => i > 1 /\ path[i - 1] # "[]"
                      /\ rest' # <<>> => path[k + 1] # "[]"
                      /\ places' = Level(Data, k)
<1> DEFINE k == Len(path) - Len(rest)
<1>1. /\ path \in Seq(STRING) /\ rest \in Seq(STRING) /\ rest # <<>>
      /\ stage \in {"protect", "unprotect"} /\ Len(rest) <= Len(path)
      /\ \A i \in 1 .. Len(rest) : rest[i] = path[k + i]
      /\ \A i \in 1 .. k : path[i] = "[]" => i > 1 /\ path[i - 1] # "[]"
      /\ k > 0 => path[k + 1] # "[]"
      /\ places = Level(Data, k)
  BY DEF FieldInv, FieldTypes, DescentInv, Descend
<1>2. TreeLike(Data)
  BY <1>1, DataIs DEF FieldInv
<1>3. /\ Len(path) \in Nat /\ Len(rest) \in Nat \ {0} /\ k \in Nat /\ Len(path) = k + Len(rest)
      /\ Head(rest) = rest[1] /\ Head(rest) \in STRING
  BY <1>1
<1>4. rest[1] = path[k + 1] /\ (Len(rest) > 1 => rest[2] = path[k + 2]) /\ (Len(rest) > 2 => rest[3] = path[k + 3])
  BY <1>1, <1>3
<1> DEFINE children == UNION {Children(Data, node) : node \in places}
<1>5. \/ ~KeyIsName /\ places' = {} /\ rest' = <<>>
      \/ KeyIsName /\ ~IsArray /\ places' = children /\ rest' = Tail(rest)
      \/ /\ KeyIsName /\ IsArray
         /\ places' = UNION {Elements(Data, child) : child \in children}
         /\ rest' = Tail(Tail(rest))
  BY DEF Descend
<1>6. KeyIsName => children = Level(Data, k + 1)
  BY <1>1, <1>2, <1>3, <1>4, ChildrenLevel DEF KeyIsName
<1> HIDE DEF children, k
<1>7. CASE ~KeyIsName
  <2>1. rest' = <<>> /\ places' = {}
    BY <1>5, <1>7
  <2>2. ~Resolvable(path)
    <3>1. CASE Head(rest) = "[]"
      <4>1. k = 0 /\ 1 \in DOMAIN path /\ path[1] = "[]"
        BY <1>1, <1>3, <1>4, <3>1
      <4> QED BY <4>1 DEF Resolvable
    <3>2. CASE IsArray /\ Len(rest) > 2 /\ rest[3] = "[]"
      <4>1. k + 3 \in DOMAIN path /\ path[k + 3] = "[]" /\ path[k + 2] = "[]" /\ (k + 3) - 1 = k + 2
        BY <1>1, <1>3, <1>4, <3>2 DEF IsArray
      <4> QED BY <4>1 DEF Resolvable
    <3> QED BY <1>7, <3>1, <3>2 DEF KeyIsName
  <2> QED BY <2>1, <2>2
<1>8. CASE KeyIsName /\ ~IsArray
  <2>1. rest' = Tail(rest) /\ places' = Level(Data, k + 1)
    BY <1>5, <1>6, <1>8
  <2>2. rest' \in Seq(STRING) /\ Len(rest') = Len(rest) - 1 /\ \A i \in 1 .. Len(rest') : rest'[i] = rest[i + 1]
    BY <1>1, <2>1
  <2>3. Len(path) - Len(rest') = k + 1 /\ Len(rest') <= Len(path)
    BY <1>3, <2>2
  <2>4. \A i \in 1 .. Len(rest') : rest'[i] = path[(k + 1) + i]
    <3> SUFFICES ASSUME NEW i \in 1 .. Len(rest') PROVE rest'[i] = path[(k + 1) + i]
      OBVIOUS
    <3>1. i + 1 \in 1 .. Len(rest) /\ k + (i + 1) = (k + 1) + i
      BY <1>3, <2>2
    <3>2. rest[i + 1] = path[k + (i + 1)]
      BY <1>1, <3>1 DEF k
    <3> QED BY <2>2, <3>1, <3>2
  <2>5. \A i \in 1 .. k + 1 : path[i] = "[]" => i > 1 /\ path[i - 1] # "[]"
    <3>1. path[k + 1] # "[]"
      BY <1>3, <1>4, <1>8 DEF KeyIsName
    <3> QED BY <1>1, <1>3, <3>1
  <2>6. rest' # <<>> => path[(k + 1) + 1] # "[]"
    <3> SUFFICES ASSUME rest' # <<>> PROVE path[(k + 1) + 1] # "[]"
      OBVIOUS
    <3>1. Len(rest) > 1 /\ (k + 1) + 1 = k + 2
      BY <1>3, <2>2
    <3> QED BY <1>4, <1>8, <3>1 DEF IsArray
  <2> QED BY <2>1, <2>2, <2>3, <2>4, <2>5, <2>6
<1>9. CASE KeyIsName /\ IsArray
  <2>1. Len(rest) > 1 /\ rest[2] = "[]" /\ path[k + 2] = "[]" /\ path[(k + 1) + 1] = "[]" /\ k + 1 \in Nat
    BY <1>3, <1>4, <1>9 DEF IsArray
  <2>2. rest' = Tail(Tail(rest)) /\ places' = Level(Data, k + 2)
    <3>1. places' = UNION {Elements(Data, child) : child \in Level(Data, k + 1)}
      BY <1>5, <1>6, <1>9
    <3>2. places' = Level(Data, (k + 1) + 1)
      BY <1>2, <2>1, <3>1, ElementsLevel
    <3>3. (k + 1) + 1 = k + 2
      BY <1>3
    <3> QED BY <1>5, <1>9, <3>2, <3>3
  <2>3. rest' \in Seq(STRING) /\ Len(rest') = Len(rest) - 2 /\ \A i \in 1 .. Len(rest') : rest'[i] = rest[i + 2]
    <3> DEFINE t == Tail(rest)
    <3>1. t \in Seq(STRING) /\ Len(t) = Len(rest) - 1 /\ \A i \in 1 .. Len(t) : t[i] = rest[i + 1]
      BY <1>1
    <3> HIDE DEF t
    <3>2. /\ Tail(t) \in Seq(STRING) /\ Len(Tail(t)) = Len(t) - 1
          /\ \A i \in 1 .. Len(Tail(t)) : Tail(t)[i] = t[i + 1]
      BY <1>3, <2>1, <3>1
    <3>3. \A i \in 1 .. Len(Tail(t)) : Tail(t)[i] = rest[i + 2]
      BY <1>3, <3>1, <3>2
    <3>4. rest' = Tail(t)
      BY <2>2 DEF t
    <3> QED BY <1>3, <3>1, <3>2, <3>3, <3>4
  <2>4. Len(path) - Len(rest') = k + 2 /\ Len(rest') <= Len(path)
    BY <1>3, <2>3
  <2>5. \A i \in 1 .. Len(rest') : rest'[i] = path[(k + 2) + i]
    <3> SUFFICES ASSUME NEW i \in 1 .. Len(rest') PROVE rest'[i] = path[(k + 2) + i]
      OBVIOUS
    <3>1. i + 2 \in 1 .. Len(rest) /\ k + (i + 2) = (k + 2) + i
      BY <1>3, <2>3
    <3>2. rest[i + 2] = path[k + (i + 2)]
      BY <1>1, <3>1 DEF k
    <3> QED BY <2>3, <3>1, <3>2
  <2>6. \A i \in 1 .. k + 2 : path[i] = "[]" => i > 1 /\ path[i - 1] # "[]"
    <3>1. path[k + 1] # "[]" /\ (k + 2) - 1 = k + 1 /\ k + 2 > 1
      BY <1>3, <1>4, <1>9 DEF KeyIsName
    <3>2. \A i \in 1 .. k + 2 : i \in 1 .. k \/ i = k + 1 \/ i = k + 2
      BY <1>3
    <3> QED BY <1>1, <3>1, <3>2 DEF k
  <2>7. rest' # <<>> => path[(k + 2) + 1] # "[]"
    <3> SUFFICES ASSUME rest' # <<>> PROVE path[(k + 2) + 1] # "[]"
      OBVIOUS
    <3>1. Len(rest) > 2 /\ (k + 2) + 1 = k + 3
      BY <1>3, <2>3
    <3> QED BY <1>4, <1>9, <3>1 DEF KeyIsName
  <2> QED BY <2>2, <2>3, <2>4, <2>5, <2>6, <2>7
<1> QED BY <1>7, <1>8, <1>9

(* At its end, a way down has led to the leaves its path means.                  *)
LEMMA Arrives ==
  ASSUME FieldInv, Descend, rest' = <<>>
  PROVE  places' = Leaves(Data, path)
<1>1. path \in Paths /\ path \in Seq(STRING) /\ path # <<>> /\ TreeLike(Data)
  <2>1. path \in Paths /\ path \in Seq(STRING) /\ Len(rest) <= Len(path) /\ rest # <<>> /\ rest \in Seq(STRING)
    BY DEF FieldInv, FieldTypes, DescentInv, Descend
  <2>2. stage \in {"protect", "unprotect"}
    BY DEF Descend
  <2> QED BY <2>1, <2>2, DataIs DEF FieldInv
<1>2. CASE places' = {} /\ ~Resolvable(path)
  BY <1>2 DEF Leaves
<1>3. CASE ~(places' = {} /\ ~Resolvable(path))
  <2>1. Len(rest') = 0 /\ Len(path) - 0 = Len(path)
    BY <1>1
  <2>2. /\ \A i \in 1 .. Len(path) : path[i] = "[]" => i > 1 /\ path[i - 1] # "[]"
        /\ places' = Level(Data, Len(path))
    BY <1>3, <2>1, DescendTo
  <2>3. Resolvable(path)
    BY <1>1, <2>2 DEF Resolvable
  <2>4. places' = {at \in DOMAIN Data : Spelt(at) = path}
    BY <1>1, <2>2, LevelLeaves
  <2> QED BY <1>1, <2>3, <2>4 DEF Leaves
<1> QED BY <1>2, <1>3

(* On the way, it is where the path says.                                        *)
LEMMA OnTheWay ==
  ASSUME FieldInv, Descend
  PROVE  DescentInv'
<1> SUFFICES ASSUME rest' # <<>> PROVE DescentInv'
  BY DEF DescentInv
<1>1. UNCHANGED <<case, stage, todo, path, owned, view>>
  BY DEF Descend, handled
<1>2. path \in Paths /\ path \notin todo /\ First(path)
  BY DEF FieldInv, DescentInv, Descend
<1>3. (path \in Paths /\ path \notin todo)' /\ First(path)' /\ Data' = Data
  BY <1>1, <1>2 DEF Paths, First, Data
<1> DEFINE k == Len(path) - Len(rest')
<1>4. /\ Len(rest') <= Len(path)
      /\ \A i \in 1 .. Len(rest') : rest'[i] = path[k + i]
      /\ \A i \in 1 .. k : path[i] = "[]" => i > 1 /\ path[i - 1] # "[]"
      /\ path[k + 1] # "[]"
      /\ places' = Level(Data, k)
  BY DescendTo
<1> HIDE DEF k
<1>5. Level(Data, k) = {at \in DOMAIN Data : Len(at) = k /\ \A i \in 1 .. k : at[i][1] = path[i]}
  BY DEF Level
<1>6. places' = {at \in DOMAIN Data' : Len(at) = k /\ \A i \in 1 .. k : at[i][1] = path'[i]}
  BY <1>1, <1>3, <1>4, <1>5
<1>7. k = Len(path') - Len(rest')
  BY <1>1 DEF k
<1> QED BY <1>1, <1>3, <1>4, <1>6, <1>7 DEF DescentInv, Level


(* The leaves a way down led to are those that waited for its path.              *)
LEMMA DescendInv ==
  ASSUME FieldInv, Descend
  PROVE  FieldInv'
<1>1. /\ Cleartext' = Cleartext /\ Paths' = Paths /\ Outermost' = Outermost /\ Private' = Private
      /\ UNCHANGED <<case, takes, stage, todo, path, owned, view, private, wire, attempts, faults>>
      /\ stage \in {"protect", "unprotect"} /\ rest # <<>>
  BY SameCase DEF Descend, handled
<1>2. DescentInv' /\ rest' \in Seq(STRING)
  BY OnTheWay, DescendTo
<1> USE DEF FieldInv
<1>3. FieldTypes'
  BY <1>1, <1>2 DEF FieldTypes
<1>4. WireInv'
  BY <1>1 DEF WireInv, SealedForm
<1>5. path \in Paths /\ path \in Seq(STRING) /\ path # <<>> /\ path \notin todo /\ First(path)
  <2>1. /\ path \in Paths /\ path \in Seq(STRING) /\ path \notin todo /\ First(path)
        /\ Len(rest) <= Len(path) /\ rest \in Seq(STRING)
    BY <1>1 DEF FieldTypes, DescentInv
  <2> QED BY <1>1, <2>1
<1>6. \A at : Waiting(at) <=> Spelt(at) \in todo \cup {path}
  BY <1>1 DEF Waiting
<1>7. CASE stage = "protect"
  <2> DEFINE Now == {at \in Outermost : Spelt(at) \notin todo \cup {path}}
  <2>1. owned = Sealed(Cleartext, Now) /\ wire = NoBody /\ attempts = 0
    BY <1>6, <1>7 DEF ProducerInv
  <2>2. CASE rest' # <<>>
    <3>1. \A at : Waiting(at)' <=> Waiting(at)
      BY <1>1, <2>2 DEF Waiting, Spelt
    <3>2. {at \in Outermost : ~Waiting(at)}' = Now
      BY <1>1, <1>6, <3>1
    <3> QED BY <1>1, <1>2, <1>3, <1>4, <1>7, <2>1, <2>2, <3>2 DEF ProducerInv, HandlerInv, NoBody
  <2>3. CASE rest' = <<>>
    <3>1. places' = Leaves(owned, path)
      BY <1>7, <2>3, Arrives DEF Data
    <3>2. ASSUME NEW at \in places' PROVE at \in Outermost /\ Spelt(at) = path
      <4>1. /\ at \in DOMAIN owned /\ Resolvable(path) /\ Spelt(at) = path
            /\ at \in DOMAIN Cleartext /\ \A s \in Now : ~IsStrictPrefix(s, at)
        BY <2>1, <3>1, <3>2 DEF Leaves, Sealed
      <4>2. at \in Declared
        BY <1>5, <4>1 DEF Declared
      <4>3. ASSUME NEW b \in Declared, IsStrictPrefix(b, at) PROVE FALSE
        <5>1. at \in Addresses
          BY <4>1, CaseIs DEF FieldTypes
        <5>2. PICK s \in Outermost : IsStrictPrefix(s, at)
          BY <4>3, <5>1, UnderOutermost DEF FieldTypes
        <5>3. s \in Seq(STRING \X Nat) /\ at \in Seq(STRING \X Nat)
          BY <5>1, CaseIs DEF FieldTypes, Addresses
        <5>4. IsStrictPrefix(Spelt(s), path)
          BY <4>1, <5>2, <5>3, SpeltStrictly
        <5>5. Spelt(s) \notin todo /\ Spelt(s) # path
          BY <1>5, <5>4 DEF First, IsStrictPrefix
        <5> QED BY <4>1, <5>2, <5>5
      <4> QED BY <4>1, <4>2, <4>3 DEF Outermost
    <3>3. ASSUME NEW at \in Outermost, Spelt(at) = path PROVE at \in places'
      <4>1. at \in DOMAIN Cleartext /\ Resolvable(path) /\ \A s \in Now : ~IsStrictPrefix(s, at)
        BY <3>3, CaseIs DEF FieldTypes, Outermost, Declared
      <4> QED BY <1>5, <2>1, <3>1, <3>3, <4>1 DEF Leaves, Sealed
    <3>4. \A at : Waiting(at)' <=> Spelt(at) \in todo \/ at \in places'
      BY <1>1, <2>3 DEF Waiting, Spelt
    <3>5. {at \in Outermost : ~Waiting(at)}' = Now
      <4>1. \A at \in Outermost : at \in places' <=> Spelt(at) = path
        BY <3>2, <3>3
      <4> QED BY <1>1, <3>4, <4>1
    <3>6. places' \subseteq Outermost /\ \A at \in places' : Spelt(at) \notin todo'
      BY <1>1, <1>5, <3>2
    <3>7. owned' = Sealed(Cleartext, Now)
      BY <1>1, <2>1
    <3>8. ProducerInv'
      <4> HIDE DEF Now
      <4>1. (\A at \in places : Spelt(at) \notin todo)'
        BY <3>6 DEF Spelt
      <4> QED BY <1>1, <2>1, <3>5, <3>6, <3>7, <4>1 DEF ProducerInv, NoBody
    <3> QED BY <1>1, <1>2, <1>3, <1>4, <1>7, <3>8 DEF HandlerInv
  <2> QED BY <2>2, <2>3
<1>8. CASE stage = "unprotect"
  <2>1. /\ SealedForm(view) /\ SealedForm(owned) /\ Ciphers(view) \subseteq Ciphers(owned)
        /\ Private => Ciphers(owned) = Outermost
        /\ \A at \in Ciphers(view) : Spelt(at) \in todo \cup {path}
    BY <1>1, <1>6, <1>8 DEF HandlerInv
  <2>2. rest' = <<>> => places' = Leaves(view, path)
    BY <1>8, Arrives DEF Data
  <2>3. rest' = <<>> => places' \subseteq DOMAIN view
    BY <2>2 DEF Leaves
  <2>4. ASSUME NEW at \in Ciphers(view) PROVE Waiting(at)'
    <3>1. at \in DOMAIN view /\ Resolvable(Spelt(at)) /\ Spelt(at) \in todo \cup {path}
      BY <2>1 DEF Ciphers, SealedForm, Outermost, Declared
    <3>2. CASE Spelt(at) \in todo
      BY <1>1, <3>2 DEF Waiting, Spelt
    <3>3. CASE Spelt(at) = path /\ rest' # <<>>
      BY <1>1, <3>3 DEF Waiting, Spelt
    <3>4. CASE Spelt(at) = path /\ rest' = <<>>
      <4>1. at \in places'
        BY <1>5, <2>2, <3>1, <3>4 DEF Leaves
      <4> QED BY <3>4, <4>1 DEF Waiting
    <3> QED BY <3>1, <3>2, <3>3, <3>4
  <2>5. (\A at \in Ciphers(view) : Waiting(at))'
    BY <1>1, <2>4 DEF Ciphers
  <2>6. HandlerInv'
    BY <1>1, <1>8, <2>1, <2>3, <2>5 DEF HandlerInv, SealedForm
  <2> QED BY <1>1, <1>2, <1>3, <1>4, <1>8, <2>6 DEF ProducerInv
<1> QED BY <1>1, <1>7, <1>8


LEMMA NextPathInv ==
  ASSUME FieldInv, NextPath
  PROVE  FieldInv'
<1>1. PICK next \in todo :
        /\ First(next) /\ todo' = todo \ {next} /\ path' = next /\ rest' = next
        /\ places' = IF next = <<>> THEN {} ELSE {<<>>}
  BY DEF NextPath
<1>2. /\ Cleartext' = Cleartext /\ Paths' = Paths /\ Outermost' = Outermost /\ Private' = Private
      /\ UNCHANGED <<case, takes, stage, owned, view, private, wire, attempts, faults>>
      /\ stage \in {"protect", "unprotect"} /\ rest = <<>> /\ places = {}
  BY SameCase DEF NextPath, handled
<1> USE DEF FieldInv
<1>3. next \in Paths /\ next \in Seq(STRING)
  BY <1>1, CaseIs DEF FieldTypes
<1>4. FieldTypes'
  BY <1>1, <1>2, <1>3 DEF FieldTypes
<1>5. WireInv'
  BY <1>2 DEF WireInv, SealedForm
<1>6. DescentInv'
  <2> SUFFICES ASSUME rest' # <<>> PROVE DescentInv'
    BY DEF DescentInv
  <2>1. places' = {<<>>} /\ Len(path') \in Nat /\ Len(path') - Len(rest') = 0
    BY <1>1, <1>3
  <2>2. Data' = Data /\ TreeLike(Data)
    BY <1>2, DataIs DEF Data
  <2>3. <<>> \in DOMAIN Data /\ \A at \in DOMAIN Data : at \in Seq(STRING \X Nat)
    BY <2>2 DEF TreeLike, Addresses
  <2>4. {<<>>} = {at \in DOMAIN Data : Len(at) = 0 /\ \A i \in 1 .. 0 : at[i][1] = path'[i]}
    <3>1. \A at \in DOMAIN Data : Len(at) = 0 <=> at = <<>>
      BY <2>3
    <3> QED BY <2>3, <3>1
  <2>5. places' = Level(Data, 0)'
    BY <2>1, <2>2, <2>4 DEF Level
  <2>6. (path \in Paths /\ path \notin todo /\ First(path))'
    BY <1>1, <1>2, <1>3 DEF First
  <2> QED BY <1>1, <2>1, <2>5, <2>6 DEF DescentInv
<1>7. \A at \in Outermost : Spelt(at) # <<>>
  BY DEF Outermost, Declared
<1>8. \A at \in Outermost : Waiting(at) <=> Spelt(at) \in todo
  BY <1>2 DEF Waiting
<1>9. \A at \in Outermost : Waiting(at)' <=> Spelt(at) \in todo
  <2>1. CASE next = <<>>
    BY <1>1, <1>7, <2>1 DEF Waiting, Spelt
  <2>2. CASE next # <<>>
    <3>1. \A at : Waiting(at)' <=> Spelt(at) \in todo' \/ Spelt(at) = next
      BY <1>1, <2>2 DEF Waiting, Spelt
    <3> QED BY <1>1, <3>1
  <2> QED BY <2>1, <2>2
<1>10. rest' = <<>> => places' = {}
  BY <1>1
<1>11. CASE stage = "protect"
  <2>1. {at \in Outermost : ~Waiting(at)}' = {at \in Outermost : ~Waiting(at)}
    BY <1>2, <1>8, <1>9
  <2>2. ProducerInv'
    BY <1>2, <1>10, <1>11, <2>1 DEF ProducerInv, NoBody
  <2> QED BY <1>2, <1>4, <1>5, <1>6, <1>11, <2>2 DEF HandlerInv
<1>12. CASE stage = "unprotect"
  <2>1. /\ SealedForm(view) /\ SealedForm(owned) /\ Ciphers(view) \subseteq Ciphers(owned)
        /\ Private => Ciphers(owned) = Outermost
        /\ \A at \in Ciphers(view) : Waiting(at)
    BY <1>2, <1>12 DEF HandlerInv
  <2>2. (\A at \in Ciphers(view) : Waiting(at))'
    <3>1. \A at \in Ciphers(view) : Waiting(at)'
      BY <1>8, <1>9, <2>1 DEF SealedForm
    <3> QED BY <1>2, <3>1 DEF Ciphers
  <2>3. HandlerInv'
    BY <1>2, <1>10, <1>12, <2>1, <2>2 DEF HandlerInv, SealedForm
  <2> QED BY <1>2, <1>4, <1>5, <1>6, <1>12, <2>3 DEF ProducerInv
<1> QED BY <1>2, <1>11, <1>12

LEMMA EncryptLeafInv ==
  ASSUME FieldInv, EncryptLeaf
  PROVE  FieldInv'
<1> USE DEF FieldInv
<1>1. PICK at \in places :
        owned' = Replaced(owned, at, Encrypted(owned, at)) /\ places' = places \ {at}
  BY DEF EncryptLeaf
<1>2. /\ Cleartext' = Cleartext /\ Paths' = Paths /\ Outermost' = Outermost /\ Private' = Private
      /\ UNCHANGED <<case, takes, stage, todo, path, rest, wire, attempts, faults>>
      /\ stage = "protect" /\ rest = <<>>
  BY SameCase DEF EncryptLeaf, AtLeaves
<1> DEFINE Now == {a \in Outermost : Spelt(a) \notin todo /\ a \notin places}
<1>3. owned = Sealed(Cleartext, Now) /\ at \in Outermost /\ Spelt(at) \notin todo
  <2>1. {a \in Outermost : ~Waiting(a)} = Now
    BY <1>2 DEF Waiting
  <2> QED BY <1>2, <2>1 DEF ProducerInv
<1>4. {a \in Outermost : ~Waiting(a)}' = Now \cup {at}
  <2>1. \A a : Waiting(a)' <=> Spelt(a) \in todo \/ a \in places'
    BY <1>2 DEF Waiting, Spelt
  <2> QED BY <1>1, <1>2, <1>3, <2>1
<1>5. at \notin Now /\ Now \subseteq Outermost
  OBVIOUS
<1> HIDE DEF Now
<1>6. owned' = Sealed(Cleartext, Now \cup {at})
  <2>1. /\ DOMAIN Cleartext \subseteq Addresses
        /\ Now \in SUBSET DOMAIN Cleartext /\ at \in DOMAIN Cleartext /\ Apart(Now \cup {at})
    BY <1>3, <1>5, CaseIs DEF FieldTypes, Apart
  <2> QED BY <1>1, <1>3, <1>5, <2>1, Sealing
<1>7. ProducerInv'
  <2>1. (places \subseteq Outermost /\ \A a \in places : Spelt(a) \notin todo)'
    BY <1>1, <1>2 DEF ProducerInv, Spelt
  <2> QED BY <1>2, <1>4, <1>6, <2>1 DEF ProducerInv, NoBody
<1>8. FieldTypes'
  BY <1>2 DEF FieldTypes
<1> QED BY <1>2, <1>7, <1>8 DEF DescentInv, WireInv, HandlerInv

LEMMA PublishInv ==
  ASSUME FieldInv, Publish
  PROVE  FieldInv'
<1> USE DEF FieldInv
<1>1. /\ Cleartext' = Cleartext /\ Paths' = Paths /\ Outermost' = Outermost /\ Private' = Private
      /\ UNCHANGED <<case, takes, todo, path, rest, attempts, faults>>
      /\ stage = "protect" /\ stage' = "queued" /\ wire' = owned
      /\ todo = {} /\ rest = <<>> /\ places = {}
  BY SameCase DEF Publish, WalkedAll, AtLeaves, walk, descent
<1>2. owned = Sealed(Cleartext, Outermost)
  <2>1. {at \in Outermost : ~Waiting(at)} = Outermost
    BY <1>1 DEF Waiting
  <2> QED BY <1>1, <2>1 DEF ProducerInv
<1>3. SealedForm(owned) /\ Ciphers(owned) = Outermost
  BY <1>2, SealedAt DEF FieldTypes
<1>4. FieldTypes'
  BY <1>1 DEF FieldTypes
<1>5. WireInv'
  BY <1>1, <1>3 DEF WireInv, SealedForm
<1> QED BY <1>1, <1>4, <1>5 DEF DescentInv, ProducerInv, HandlerInv

LEMMA DeliverInv ==
  ASSUME FieldInv, Deliver
  PROVE  FieldInv'
<1> USE DEF FieldInv
<1>1. /\ Cleartext' = Cleartext /\ Paths' = Paths /\ Outermost' = Outermost /\ Private' = Private
      /\ UNCHANGED <<case, takes, wire, attempts, faults>>
      /\ stage = "queued" /\ stage' = "unprotect" /\ owned' = wire /\ view' = wire
      /\ todo' = Paths /\ path' = <<>> /\ rest' = <<>> /\ places' = {}
  BY SameCase DEF Deliver
<1>2. SealedForm(wire) /\ (attempts = 0 \/ Private => Ciphers(wire) = Outermost)
  BY <1>1 DEF WireInv
<1>3. \A at \in Ciphers(wire) : Spelt(at) \in Paths
  BY <1>2 DEF SealedForm, Outermost, Declared
<1>4. FieldTypes'
  BY <1>1 DEF FieldTypes
<1>5. WireInv'
  BY <1>1, <1>2 DEF WireInv, SealedForm
<1>6. HandlerInv'
  <2>1. (\A at \in Ciphers(view) : Waiting(at))'
    BY <1>1, <1>3 DEF Ciphers, Waiting, Spelt
  <2> QED BY <1>1, <1>2, <2>1 DEF HandlerInv, SealedForm
<1> QED BY <1>1, <1>4, <1>5, <1>6 DEF DescentInv, ProducerInv

(* A handler that opens only entries of its own dict leaves the envelope alone.   *)
LEMMA StoreOpens ==
  ASSUME FieldTypes, NEW at \in Ciphers(view), Store(at, view[at][2]),
         SealedForm(owned), SealedForm(view), Ciphers(view) \subseteq Ciphers(owned),
         UNCHANGED <<case, takes>>
  PROVE  /\ SealedForm(owned)' /\ SealedForm(view)'
         /\ Ciphers(view') = Ciphers(view) \ {at}
         /\ Ciphers(view') \subseteq Ciphers(owned') /\ Ciphers(owned') \subseteq Ciphers(owned)
         /\ DOMAIN view \subseteq DOMAIN view'
         /\ Private => owned' = owned
<1>1. Cleartext' = Cleartext /\ Outermost' = Outermost
  BY SameCase
<1> DEFINE sub == Under(Cleartext, at)
<1>2. /\ view[at][2] = sub /\ DOMAIN view \subseteq DOMAIN Replaced(view, at, sub)
      /\ SealedForm(Replaced(view, at, sub)) /\ Ciphers(Replaced(view, at, sub)) = Ciphers(view) \ {at}
  BY OpenedAt DEF FieldTypes
<1>3. /\ SealedForm(Replaced(owned, at, sub))
      /\ Ciphers(Replaced(owned, at, sub)) = Ciphers(owned) \ {at}
  BY OpenedAt DEF FieldTypes
<1> HIDE DEF sub
<1>4. view' = Replaced(view, at, sub)
  BY <1>2 DEF Store
<1>5. owned' = owned \/ owned' = Replaced(owned, at, sub)
  BY <1>2 DEF Store
<1>6. SealedForm(view') /\ SealedForm(owned')
  BY <1>2, <1>3, <1>4, <1>5
<1>7. ASSUME Private PROVE owned' = owned
  <2>1. at \in Seq(STRING \X Nat) /\ Spelt(at) \in Paths \ {<<>>}
    BY CaseIs DEF FieldTypes, SealedForm, Outermost, Declared, Addresses
  <2>2. Spelt(at) \in Seq(STRING) /\ Len(Spelt(at)) = Len(at) /\ Len(at) \in Nat
    BY <2>1, SpeltIsPath
  <2>3. Len(at) = 1
    <3>1. Len(Spelt(at)) <= 1
      BY <1>7, <2>1 DEF Private
    <3>2. Len(Spelt(at)) # 0
      BY <2>1, <2>2
    <3> QED BY <2>2, <3>1, <3>2
  <2> QED BY <1>7, <2>3 DEF Store, OwnTopLevel, Private
<1>8. Ciphers(view') \subseteq Ciphers(owned') /\ Ciphers(owned') \subseteq Ciphers(owned)
  BY <1>2, <1>3, <1>4, <1>5
<1>9. SealedForm(owned)' /\ SealedForm(view)'
  BY <1>1, <1>6 DEF SealedForm
<1> QED BY <1>2, <1>4, <1>7, <1>8, <1>9

LEMMA DecryptLeafInv ==
  ASSUME FieldInv, DecryptLeaf
  PROVE  FieldInv'
<1> USE DEF FieldInv
<1>1. PICK at \in places :
        /\ ~Is("string", view[at]) /\ places' = places \ {at}
        /\ IF Is("cipher", view[at]) THEN Store(at, view[at][2]) ELSE UNCHANGED <<owned, handled>>
  BY DEF DecryptLeaf
<1>2. /\ Cleartext' = Cleartext /\ Paths' = Paths /\ Outermost' = Outermost /\ Private' = Private
      /\ UNCHANGED <<case, takes, stage, todo, path, rest, wire, attempts, faults>>
      /\ stage = "unprotect" /\ rest = <<>>
  BY SameCase DEF DecryptLeaf, AtLeaves
<1>3. /\ SealedForm(owned) /\ SealedForm(view) /\ Ciphers(view) \subseteq Ciphers(owned)
      /\ Private => Ciphers(owned) = Outermost
      /\ places \subseteq DOMAIN view
      /\ \A a \in Ciphers(view) : Spelt(a) \in todo \/ a \in places
  BY <1>2 DEF HandlerInv, Waiting
<1>4. FieldTypes'
  BY <1>2 DEF FieldTypes
<1>5. WireInv'
  BY <1>2 DEF WireInv, SealedForm
<1>6. HandlerInv'
  <2>0. \A a : Waiting(a)' <=> Spelt(a) \in todo \/ a \in places'
    BY <1>2 DEF Waiting, Spelt
  <2>1. CASE Is("cipher", view[at])
    <3>1. at \in Ciphers(view) /\ Store(at, view[at][2])
      BY <1>1, <1>3, <2>1 DEF Ciphers
    <3>2. /\ SealedForm(owned)' /\ SealedForm(view)'
          /\ Ciphers(view') = Ciphers(view) \ {at}
          /\ Ciphers(view') \subseteq Ciphers(owned') /\ Ciphers(owned') \subseteq Ciphers(owned)
          /\ DOMAIN view \subseteq DOMAIN view'
          /\ Private => owned' = owned
      BY <1>2, <1>3, <3>1, StoreOpens
    <3>3. Private' => Ciphers(owned') = Outermost'
      BY <1>2, <1>3, <3>2
    <3>4. places' \subseteq DOMAIN view'
      BY <1>1, <1>3, <3>2
    <3>5. (\A a \in Ciphers(view) : Waiting(a))'
      <4>1. \A a \in Ciphers(view') : Spelt(a) \in todo \/ a \in places'
        BY <1>1, <1>3, <3>2
      <4> QED BY <2>0, <4>1 DEF Ciphers
    <3> QED BY <1>2, <3>2, <3>3, <3>4, <3>5 DEF HandlerInv
  <2>2. CASE ~Is("cipher", view[at])
    <3>1. UNCHANGED <<owned, view>>
      BY <1>1, <2>2 DEF handled
    <3>2. at \notin Ciphers(view)
      BY <2>2 DEF Ciphers
    <3>3. (\A a \in Ciphers(view) : Waiting(a))'
      <4>1. \A a \in Ciphers(view) : Spelt(a) \in todo \/ a \in places'
        BY <1>1, <1>3, <3>2
      <4> QED BY <2>0, <3>1, <4>1 DEF Ciphers
    <3> QED BY <1>1, <1>2, <1>3, <3>1, <3>3 DEF HandlerInv, SealedForm
  <2> QED BY <2>1, <2>2
<1> QED BY <1>2, <1>4, <1>5, <1>6 DEF DescentInv, ProducerInv

(* unprotect() ends with nothing sealed, and the handler goes to work.           *)
LEMMA OpenedInv ==
  ASSUME FieldInv, Opened
  PROVE  FieldInv'
<1> USE DEF FieldInv
<1>1. /\ Cleartext' = Cleartext /\ Paths' = Paths /\ Outermost' = Outermost /\ Private' = Private
      /\ UNCHANGED <<case, takes, todo, path, rest, owned, view, wire, attempts, faults>>
      /\ stage = "unprotect" /\ stage' = "work" /\ todo = {} /\ rest = <<>> /\ places = {}
  BY SameCase DEF Opened, WalkedAll, AtLeaves, walk, descent, handled
<1>2. Ciphers(view) = {}
  BY <1>1 DEF HandlerInv, Waiting
<1>3. HandlerInv'
  BY <1>1, <1>2 DEF HandlerInv, SealedForm
<1> QED BY <1>1, <1>3 DEF FieldTypes, DescentInv, WireInv, ProducerInv, SealedForm

(* A failure after delivery leaves the documents as they are, half opened or not; *)
(* so does a delivery that is lost.                                              *)
LEMMA FailureInv ==
  ASSUME FieldInv, NotACiphertext \/ DecryptFails \/ HandlerFails \/ Redelivered
  PROVE  FieldInv'
<1> USE DEF FieldInv
<1>1. /\ Cleartext' = Cleartext /\ Paths' = Paths /\ Outermost' = Outermost /\ Private' = Private
      /\ UNCHANGED <<case, takes, todo, path, rest, owned, view, wire, attempts>>
      /\ stage \in {"unprotect", "work", "failed"} /\ stage' \in {"failed", "queued"}
      /\ faults' = faults \/ Fault
  BY SameCase DEF NotACiphertext, DecryptFails, AfterDecryptFails, HandlerFails, Redelivered, walk, descent, handled
<1>2. FieldTypes'
  BY <1>1, ProtectionAssumption DEF FieldTypes, Fault
<1> QED BY <1>1, <1>2 DEF DescentInv, HandlerInv, WireInv, ProducerInv, SealedForm

LEMMA EncryptFailsInv ==
  ASSUME FieldInv, EncryptFails
  PROVE  FieldInv'
<1> USE DEF FieldInv
<1>1. /\ UNCHANGED <<case, takes, todo, path, rest, wire, attempts>> /\ Fault
      /\ stage = "protect" /\ stage' = "abandoned" /\ Paths' = Paths
  BY SameCase DEF EncryptFails
<1>2. FieldTypes'
  BY <1>1, ProtectionAssumption DEF FieldTypes, Fault
<1> QED BY <1>1, <1>2 DEF DescentInv, HandlerInv, WireInv, ProducerInv, NoBody

LEMMA HandlerDoneInv ==
  ASSUME FieldInv, HandlerDone
  PROVE  FieldInv'
BY SameCase DEF FieldInv, HandlerDone, FieldTypes, DescentInv, HandlerInv, WireInv,
                ProducerInv, NoBody, walk, descent

(* What is written back is what the runtime's envelope holds by then.            *)
LEMMA RewrittenInv ==
  ASSUME FieldInv, WriteRetry \/ WriteDeadLetter
  PROVE  FieldInv'
<1> USE DEF FieldInv
<1>1. /\ Cleartext' = Cleartext /\ Paths' = Paths /\ Outermost' = Outermost /\ Private' = Private
      /\ UNCHANGED <<case, takes, todo, path, rest, owned, faults>>
      /\ wire' = owned /\ attempts' = attempts + 1
      /\ stage = "failed" /\ stage' \in {"queued", "dead"}
  BY SameCase DEF WriteRetry, WriteDeadLetter, Rewritten, walk, descent
<1>2. SealedForm(owned) /\ (Private => Ciphers(owned) = Outermost)
  BY <1>1 DEF HandlerInv
<1>3. FieldTypes'
  BY <1>1 DEF FieldTypes
<1>4. attempts' # 0
  BY <1>1 DEF FieldTypes
<1>5. WireInv'
  BY <1>1, <1>2, <1>4 DEF WireInv, SealedForm
<1> QED BY <1>1, <1>3, <1>5 DEF DescentInv, HandlerInv, ProducerInv

LEMMA FieldStutterInv ==
  ASSUME FieldInv, UNCHANGED fieldVars
  PROVE  FieldInv'
<1>1. /\ Cleartext' = Cleartext /\ Paths' = Paths /\ Outermost' = Outermost /\ Private' = Private
      /\ UNCHANGED <<case, takes, stage, todo, path, rest, places, owned, view, private, wire>>
      /\ UNCHANGED <<attempts, faults>>
  BY SameCase DEF fieldVars, walk, descent, handled
<1> USE DEF FieldInv
<1>2. FieldTypes' /\ WireInv'
  BY <1>1 DEF FieldTypes, WireInv, SealedForm
<1>3. DescentInv'
  BY <1>1 DEF DescentInv, First, Data, Level
<1>4. {at \in Outermost : ~Waiting(at)}' = {at \in Outermost : ~Waiting(at)}
  BY <1>1 DEF Waiting, Spelt
<1>5. ProducerInv'
  BY <1>1, <1>4 DEF ProducerInv, NoBody, Spelt
<1>6. HandlerInv'
  BY <1>1 DEF HandlerInv, SealedForm, Ciphers, Waiting, Spelt
<1> QED BY <1>2, <1>3, <1>5, <1>6

LEMMA FieldNextInv == FieldInv /\ [FieldNext]_fieldVars => FieldInv'
<1> SUFFICES ASSUME FieldInv, [FieldNext]_fieldVars PROVE FieldInv'
  OBVIOUS
<1>1. CASE NextPath BY <1>1, NextPathInv
<1>2. CASE Descend         BY <1>2, DescendInv
<1>3. CASE EncryptLeaf     BY <1>3, EncryptLeafInv
<1>4. CASE EncryptFails    BY <1>4, EncryptFailsInv
<1>5. CASE Publish         BY <1>5, PublishInv
<1>6. CASE Deliver         BY <1>6, DeliverInv
<1>7. CASE DecryptLeaf     BY <1>7, DecryptLeafInv
<1>8. CASE Opened          BY <1>8, OpenedInv
<1>9. CASE HandlerDone     BY <1>9, HandlerDoneInv
<1>10. CASE NotACiphertext \/ DecryptFails \/ HandlerFails \/ Redelivered
  BY <1>10, FailureInv
<1>11. CASE WriteRetry \/ WriteDeadLetter
  BY <1>11, RewrittenInv
<1>12. CASE Stopped \/ UNCHANGED fieldVars
  BY <1>12, FieldStutterInv DEF Stopped
<1> QED
  BY <1>1, <1>2, <1>3, <1>4, <1>5, <1>6, <1>7, <1>8, <1>9, <1>10, <1>11, <1>12 DEF FieldNext, FieldStep

-----------------------------------------------------------------------------
(* The theorems                                                                 *)

(* protect(), unprotect() and the runtime between them: every document the       *)
(* broker, the runtime or the handler holds is the producer's data with some of   *)
(* its outermost marked leaves sealed, so that nothing is ever lost or garbled.  *)
THEOREM FieldInvariant == FieldSpec => []FieldInv
BY FieldInitInv, FieldNextInv, PTL DEF FieldSpec

(* unprotect() (gdpr.py): a handler that got past it reads what the producer had. *)
THEOREM NothingSealedAtWork == FieldSpec => []HandlerReadsOriginal
<1>1. FieldInv => HandlerReadsOriginal
  <2> SUFFICES ASSUME FieldInv, stage = "work" PROVE view = Cleartext
    BY DEF HandlerReadsOriginal
  <2>1. view = Sealed(Cleartext, {})
    BY DEF FieldInv, HandlerInv, SealedForm
  <2> QED BY <2>1, CaseIs, NothingSealed DEF FieldInv, FieldTypes
<1> QED BY <1>1, FieldInvariant, PTL

(* protect() (gdpr.py) and the runtime's retries: every marked leaf is sealed in  *)
(* the body at the broker, and nothing else is.                                  *)
THEOREM MarksSealedAtBroker == FieldSpec => []WireSealed
<1>1. FieldInv => WireSealed
  <2> SUFFICES ASSUME FieldInv, wire # NoBody, Reachable, attempts = 0 \/ Private
               PROVE  wire = Sealed(Cleartext, Marked)
    BY DEF WireSealed
  <2>1. stage \in {"queued", "unprotect", "work", "failed", "dead"}
    BY DEF FieldInv, FieldTypes, ProducerInv, WireInv
  <2>2. wire = Sealed(Cleartext, Outermost)
    BY <2>1 DEF FieldInv, WireInv, SealedForm
  <2> QED BY <2>2, SealedAsMarked DEF FieldInv, FieldTypes
<1> QED BY <1>1, FieldInvariant, PTL

(* _walk() (gdpr.py): wherever a way down ends, in data half sealed or half opened *)
(* too, it is at exactly the leaves its path declares.                           *)
THEOREM WalkTouchesDeclared == FieldSpec => TouchesDeclared
<1>1. FieldInv /\ [FieldNext]_fieldVars =>
        [rest # <<>> /\ rest' = <<>> /\ stage \in {"protect", "unprotect"}
           => places' = Leaves(Data, path)]_fieldVars
  <2> SUFFICES ASSUME FieldInv, FieldNext, rest # <<>>, rest' = <<>>, stage \in {"protect", "unprotect"}
               PROVE  places' = Leaves(Data, path)
    OBVIOUS
  <2>1. Descend
    <3>1. stage \in {"protect", "unprotect"} /\ rest # <<>> /\ rest' # rest
      OBVIOUS
    <3>2. ~(NextPath \/ EncryptLeaf \/ DecryptLeaf)
      BY <3>1 DEF NextPath, EncryptLeaf, DecryptLeaf, AtLeaves
    <3>3. ~(EncryptFails \/ NotACiphertext \/ DecryptFails)
      BY <3>1 DEF EncryptFails, NotACiphertext, DecryptFails, AtLeaves
    <3>4. ~(Publish \/ Opened \/ Deliver \/ HandlerDone \/ HandlerFails)
      BY <3>1 DEF Publish, Opened, Deliver, HandlerDone, HandlerFails, WalkedAll, AtLeaves
    <3>5. ~(WriteRetry \/ WriteDeadLetter \/ Stopped)
      BY <3>1 DEF WriteRetry, WriteDeadLetter, Stopped
    <3>6. ~Redelivered
      BY <3>1 DEF Redelivered, walk, descent
    <3> QED BY <3>2, <3>3, <3>4, <3>5, <3>6 DEF FieldNext, FieldStep
  <2> QED BY <2>1, Arrives
<1> QED BY <1>1, FieldInvariant, PTL DEF FieldSpec, TouchesDeclared

=============================================================================
