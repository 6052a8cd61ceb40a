-------------------------- MODULE SettlementProofs --------------------------
(***************************************************************************)
(* Proofs about Settlement, for any messages, configurations, attempts,     *)
(* broker failures, crashes and lapses.                                     *)
(*                                                                         *)
(* The inductive invariant SInv says what is already certain when dispatch() *)
(* stands before a broker call: which routes lead there (RoutedBy), and that *)
(* the message is elsewhere before its original is acknowledged (SafeToAck). *)
(* The run budget is a balance: a copy in the broker or in hand stands for the *)
(* runs it can still lead to, counted as a set of tokens (RunInv).            *)
(***************************************************************************)
EXTENDS Settlement, FiniteSetTheorems, TLAPS

-----------------------------------------------------------------------------
(* The inductive invariant                                                      *)

(* The message is somewhere else than in the hands of the worker.               *)
Elsewhere(m) ==
  \/ \E c \in Copies : Msg(c) = m /\ (ready[c] > 0 \/ waiting[c] > 0)
  \/ m \in done \cup dropped \cup dlq \cup nativeDlq

SafeToAck ==
  /\ pc \in {"releaseAck", "dlqAck", "notify"} => Elsewhere(Msg(cur))
  /\ pc = "republish" => NextAttempts < MaxAttempts
  /\ owned => cur # None

(* Where a delivery is, given its class and the configuration.                  *)
RoutedBy ==
  /\ pc \in {"handle", "ack"} => Class[Msg(cur)] = "ok"
  /\ pc = "retry" =>
       \/ Class[Msg(cur)] = "ok"
       \/ Class[Msg(cur)] = "unknown" /\ Strategy # "release"
       \/ Class[Msg(cur)] = "poison" /\ Transport # "redis" /\ ~DlqOn /\ ~NativeSettler
  /\ pc = "dlq" /\ Class[Msg(cur)] = "unknown" => Strategy # "release"
  /\ pc \in {"release", "republish"} =>
       Class[Msg(cur)] # "gated" /\ ~(Class[Msg(cur)] = "poison" /\ DlqOn)
  /\ pc = "drop" => DropPermitted(Msg(cur))

(* What the observer may be told, and that only a lapse takes a reservation away. *)
Told ==
  /\ nlapse = 0 /\ pc \notin {"idle", "dead", "notify"} => owned
  /\ pc = "dlqAck" => Msg(cur) \in dlq
  /\ pc = "notify" => Msg(cur) \in dlq \/ (Transport = "redis" /\ nlapse > 0)
  /\ ObserverTruthful

SInv ==
  /\ TypeOK
  /\ SafeToAck /\ NoLoss
  /\ RoutedBy /\ OnlyPermittedDrops /\ RejectedStaysOut
  /\ Told

USE DEF Transport, Strategy, DeadLetter, Class, DlqOn, IsKafka, Redeliverer, DeadLetterWriter, Rewinder,
        Abandoner, NativeSettler, CountsDeliveries, Copies, Msg, Attempts, NextAttempts, ends, bounds, history

-----------------------------------------------------------------------------
(* Types                                                                        *)

(* The configuration is a record of Config, and copies are made of a message and *)
(* a count.                                                                      *)
LEMMA Typing ==
  ASSUME TypeOK
  PROVE  /\ conf \in Config
         /\ Transport \in Transports /\ Strategy \in Strategies
         /\ \A m \in Messages : Class[m] \in Classes
         /\ \A c \in Copies : Msg(c) \in Messages /\ Attempts(c) \in 0 .. MaxAttempts /\ c = <<Msg(c), Attempts(c)>>
         /\ cur # None => cur \in Copies
  BY SettlementAssumption DEF TypeOK, Config

(* The copies that go back to the broker.                                        *)
LEMMA CopiesBack ==
  ASSUME TypeOK, cur # None
  PROVE  /\ Counted(cur) \in Copies /\ Msg(Counted(cur)) = Msg(cur)
         /\ (pc = "republish" => NextAttempts < MaxAttempts) =>
              ReleasedCopy \in Copies /\ Msg(ReleasedCopy) = Msg(cur)
  BY Typing, SettlementAssumption DEF Counted, ReleasedCopy

LEMMA CapIsNat == RunsCap \in Nat
  <1> DEFINE K == 1 + MaxFailures + MaxCrashes + MaxLapses
  <1>1. K \in Nat /\ MaxAttempts \in Nat
    BY SettlementAssumption
  <1>2. MaxAttempts * K \in Nat
    BY <1>1
  <1> QED BY <1>2 DEF RunsCap

(* Where a route may lead.                                                       *)
LEMMA RouteLeads ==
  ASSUME TypeOK, pc = "route"
  PROVE  RouteOf(Msg(cur)) \in {"handle", "retry", "release", "drop", "dlq", "native"}
  <1>1. cur # None /\ Msg(cur) \in Messages /\ Class[Msg(cur)] \in Classes
    BY Typing DEF TypeOK
  <1> QED BY <1>1 DEF RouteOf, RouteUnknown, RouteGated, RoutePoison, Classes

(* Every step keeps the types. *)
LEMMA TypesKept ==
  ASSUME TypeOK, SafeToAck, Step, UNCHANGED conf
  PROVE  TypeOK'
  <1> USE Typing, CapIsNat, SettlementAssumption DEF TypeOK, SafeToAck
  <1>1. CASE Pop
    BY <1>1 DEF Pop, MovedNatively, Remove
  <1>2. CASE Route
    <2>0. RouteOf(Msg(cur)) \in {"handle", "retry", "release", "drop", "dlq", "native"}
      BY <1>2, RouteLeads DEF Route
    <2>1. (ready \in [Copies -> Nat] /\ waiting \in [Copies -> Nat])'
      BY <1>2, <2>0 DEF Route
    <2>2. (cur \in Copies \cup {None} /\ owned \in BOOLEAN /\ inTry \in BOOLEAN)'
      BY <1>2, <2>0 DEF Route
    <2>3. ((cur = None) <=> (pc \in {"idle", "dead"}))'
      BY <1>2, <2>0 DEF Route
    <2>4. ({done, dropped, dlq, nativeDlq, toldDlq, resent} \subseteq SUBSET Messages /\ runs \in [Messages -> 0 .. RunsCap])'
      BY <1>2, <2>0 DEF Route
    <2>5. (nfail \in 0 .. MaxFailures /\ ncrash \in 0 .. MaxCrashes /\ nlapse \in 0 .. MaxLapses)'
      BY <1>2, <2>0 DEF Route
    <2> QED BY <2>0, <2>1, <2>2, <2>3, <2>4, <2>5, <1>2 DEF Route
  <1>3. CASE RetryOrDeadLetter
    BY <1>3 DEF RetryOrDeadLetter
  <1>4. CASE AckHandled
    <2>1. (ready \in [Copies -> Nat] /\ waiting \in [Copies -> Nat])'
      BY <1>4 DEF AckHandled, AckOk, AckFails, LeaveUnsettled, Finish, Fail, Add
    <2>2. (cur \in Copies \cup {None} /\ owned \in BOOLEAN /\ inTry \in BOOLEAN)'
      BY <1>4 DEF AckHandled, AckOk, AckFails, LeaveUnsettled, Finish, Fail, Add
    <2>3. ((cur = None) <=> (pc \in {"idle", "dead"}))'
      BY <1>4 DEF AckHandled, AckOk, AckFails, LeaveUnsettled, Finish, Fail, Add
    <2>4. ({done, dropped, dlq, nativeDlq, toldDlq, resent} \subseteq SUBSET Messages /\ runs \in [Messages -> 0 .. RunsCap])'
      BY <1>4 DEF AckHandled, AckOk, AckFails, LeaveUnsettled, Finish, Fail, Add
    <2>5. (nfail \in 0 .. MaxFailures /\ ncrash \in 0 .. MaxCrashes /\ nlapse \in 0 .. MaxLapses)'
      BY <1>4 DEF AckHandled, AckOk, AckFails, LeaveUnsettled, Finish, Fail, Add
    <2> QED BY <2>1, <2>2, <2>3, <2>4, <2>5, <1>4 DEF AckHandled, AckOk, AckFails, LeaveUnsettled, Finish, Fail, Add
  <1>5. CASE AckDropped
    <2>1. (ready \in [Copies -> Nat] /\ waiting \in [Copies -> Nat])'
      BY <1>5 DEF AckDropped, AckOk, AckFails, LeaveUnsettled, Finish, Fail, Add
    <2>2. (cur \in Copies \cup {None} /\ owned \in BOOLEAN /\ inTry \in BOOLEAN)'
      BY <1>5 DEF AckDropped, AckOk, AckFails, LeaveUnsettled, Finish, Fail, Add
    <2>3. ((cur = None) <=> (pc \in {"idle", "dead"}))'
      BY <1>5 DEF AckDropped, AckOk, AckFails, LeaveUnsettled, Finish, Fail, Add
    <2>4. ({done, dropped, dlq, nativeDlq, toldDlq, resent} \subseteq SUBSET Messages /\ runs \in [Messages -> 0 .. RunsCap])'
      BY <1>5 DEF AckDropped, AckOk, AckFails, LeaveUnsettled, Finish, Fail, Add
    <2>5. (nfail \in 0 .. MaxFailures /\ ncrash \in 0 .. MaxCrashes /\ nlapse \in 0 .. MaxLapses)'
      BY <1>5 DEF AckDropped, AckOk, AckFails, LeaveUnsettled, Finish, Fail, Add
    <2> QED BY <2>1, <2>2, <2>3, <2>4, <2>5, <1>5 DEF AckDropped, AckOk, AckFails, LeaveUnsettled, Finish, Fail, Add
  <1>6. CASE ReleaseNatively
    <2>1. (ready \in [Copies -> Nat] /\ waiting \in [Copies -> Nat])'
      BY <1>6 DEF ReleaseNatively, ReleasedCopy, Counted, Finish, Add
    <2>2. (cur \in Copies \cup {None} /\ owned \in BOOLEAN /\ inTry \in BOOLEAN)'
      BY <1>6 DEF ReleaseNatively, ReleasedCopy, Counted, Finish, Add
    <2>3. ((cur = None) <=> (pc \in {"idle", "dead"}))'
      BY <1>6 DEF ReleaseNatively, ReleasedCopy, Counted, Finish, Add
    <2>4. ({done, dropped, dlq, nativeDlq, toldDlq, resent} \subseteq SUBSET Messages /\ runs \in [Messages -> 0 .. RunsCap])'
      BY <1>6 DEF ReleaseNatively, ReleasedCopy, Counted, Finish, Add
    <2>5. (nfail \in 0 .. MaxFailures /\ ncrash \in 0 .. MaxCrashes /\ nlapse \in 0 .. MaxLapses)'
      BY <1>6 DEF ReleaseNatively, ReleasedCopy, Counted, Finish, Add
    <2> QED BY <2>1, <2>2, <2>3, <2>4, <2>5, <1>6 DEF ReleaseNatively, ReleasedCopy, Counted, Finish, Add
  <1>7. CASE ReleaseByCopy
    BY <1>7 DEF ReleaseByCopy, ReleasedCopy, Add
  <1>8. CASE ReleaseAck
    <2>1. (ready \in [Copies -> Nat] /\ waiting \in [Copies -> Nat])'
      BY <1>8 DEF ReleaseAck, AckOk, AckFails, LeaveUnsettled, Finish, Fail, Add
    <2>2. (cur \in Copies \cup {None} /\ owned \in BOOLEAN /\ inTry \in BOOLEAN)'
      BY <1>8 DEF ReleaseAck, AckOk, AckFails, LeaveUnsettled, Finish, Fail, Add
    <2>3. ((cur = None) <=> (pc \in {"idle", "dead"}))'
      BY <1>8 DEF ReleaseAck, AckOk, AckFails, LeaveUnsettled, Finish, Fail, Add
    <2>4. ({done, dropped, dlq, nativeDlq, toldDlq, resent} \subseteq SUBSET Messages /\ runs \in [Messages -> 0 .. RunsCap])'
      BY <1>8 DEF ReleaseAck, AckOk, AckFails, LeaveUnsettled, Finish, Fail, Add
    <2>5. (nfail \in 0 .. MaxFailures /\ ncrash \in 0 .. MaxCrashes /\ nlapse \in 0 .. MaxLapses)'
      BY <1>8 DEF ReleaseAck, AckOk, AckFails, LeaveUnsettled, Finish, Fail, Add
    <2> QED BY <2>1, <2>2, <2>3, <2>4, <2>5, <1>8 DEF ReleaseAck, AckOk, AckFails, LeaveUnsettled, Finish, Fail, Add
  <1>9. CASE ReleaseFails
    <2>1. (ready \in [Copies -> Nat] /\ waiting \in [Copies -> Nat])'
      BY <1>9 DEF ReleaseFails, LeaveUnsettled, Finish, Fail, Add
    <2>2. (cur \in Copies \cup {None} /\ owned \in BOOLEAN /\ inTry \in BOOLEAN)'
      BY <1>9 DEF ReleaseFails, LeaveUnsettled, Finish, Fail, Add
    <2>3. ((cur = None) <=> (pc \in {"idle", "dead"}))'
      BY <1>9 DEF ReleaseFails, LeaveUnsettled, Finish, Fail, Add
    <2>4. ({done, dropped, dlq, nativeDlq, toldDlq, resent} \subseteq SUBSET Messages /\ runs \in [Messages -> 0 .. RunsCap])'
      BY <1>9 DEF ReleaseFails, LeaveUnsettled, Finish, Fail, Add
    <2>5. (nfail \in 0 .. MaxFailures /\ ncrash \in 0 .. MaxCrashes /\ nlapse \in 0 .. MaxLapses)'
      BY <1>9 DEF ReleaseFails, LeaveUnsettled, Finish, Fail, Add
    <2> QED BY <2>1, <2>2, <2>3, <2>4, <2>5, <1>9 DEF ReleaseFails, LeaveUnsettled, Finish, Fail, Add
  <1>10. CASE Rewind
    <2>1. (ready \in [Copies -> Nat] /\ waiting \in [Copies -> Nat])'
      BY <1>10 DEF Rewind, Counted, LeaveUnsettled, Finish, Fail, Add
    <2>2. (cur \in Copies \cup {None} /\ owned \in BOOLEAN /\ inTry \in BOOLEAN)'
      BY <1>10 DEF Rewind, Counted, LeaveUnsettled, Finish, Fail, Add
    <2>3. ((cur = None) <=> (pc \in {"idle", "dead"}))'
      BY <1>10 DEF Rewind, Counted, LeaveUnsettled, Finish, Fail, Add
    <2>4. ({done, dropped, dlq, nativeDlq, toldDlq, resent} \subseteq SUBSET Messages /\ runs \in [Messages -> 0 .. RunsCap])'
      BY <1>10 DEF Rewind, Counted, LeaveUnsettled, Finish, Fail, Add
    <2>5. (nfail \in 0 .. MaxFailures /\ ncrash \in 0 .. MaxCrashes /\ nlapse \in 0 .. MaxLapses)'
      BY <1>10 DEF Rewind, Counted, LeaveUnsettled, Finish, Fail, Add
    <2> QED BY <2>1, <2>2, <2>3, <2>4, <2>5, <1>10 DEF Rewind, Counted, LeaveUnsettled, Finish, Fail, Add
  <1>11. CASE Abandon
    <2>1. (ready \in [Copies -> Nat] /\ waiting \in [Copies -> Nat])'
      BY <1>11 DEF Abandon, Counted, LeaveUnsettled, Finish, Fail, Add
    <2>2. (cur \in Copies \cup {None} /\ owned \in BOOLEAN /\ inTry \in BOOLEAN)'
      BY <1>11 DEF Abandon, Counted, LeaveUnsettled, Finish, Fail, Add
    <2>3. ((cur = None) <=> (pc \in {"idle", "dead"}))'
      BY <1>11 DEF Abandon, Counted, LeaveUnsettled, Finish, Fail, Add
    <2>4. ({done, dropped, dlq, nativeDlq, toldDlq, resent} \subseteq SUBSET Messages /\ runs \in [Messages -> 0 .. RunsCap])'
      BY <1>11 DEF Abandon, Counted, LeaveUnsettled, Finish, Fail, Add
    <2>5. (nfail \in 0 .. MaxFailures /\ ncrash \in 0 .. MaxCrashes /\ nlapse \in 0 .. MaxLapses)'
      BY <1>11 DEF Abandon, Counted, LeaveUnsettled, Finish, Fail, Add
    <2> QED BY <2>1, <2>2, <2>3, <2>4, <2>5, <1>11 DEF Abandon, Counted, LeaveUnsettled, Finish, Fail, Add
  <1>12. CASE SettleNative
    <2>1. (ready \in [Copies -> Nat] /\ waiting \in [Copies -> Nat])'
      BY <1>12 DEF SettleNative, LeaveUnsettled, Finish, Fail, Add
    <2>2. (cur \in Copies \cup {None} /\ owned \in BOOLEAN /\ inTry \in BOOLEAN)'
      BY <1>12 DEF SettleNative, LeaveUnsettled, Finish, Fail, Add
    <2>3. ((cur = None) <=> (pc \in {"idle", "dead"}))'
      BY <1>12 DEF SettleNative, LeaveUnsettled, Finish, Fail, Add
    <2>4. ({done, dropped, dlq, nativeDlq, toldDlq, resent} \subseteq SUBSET Messages /\ runs \in [Messages -> 0 .. RunsCap])'
      BY <1>12 DEF SettleNative, LeaveUnsettled, Finish, Fail, Add
    <2>5. (nfail \in 0 .. MaxFailures /\ ncrash \in 0 .. MaxCrashes /\ nlapse \in 0 .. MaxLapses)'
      BY <1>12 DEF SettleNative, LeaveUnsettled, Finish, Fail, Add
    <2> QED BY <2>1, <2>2, <2>3, <2>4, <2>5, <1>12 DEF SettleNative, LeaveUnsettled, Finish, Fail, Add
  <1>13. CASE WriteDeadLetterGuarded
    <2>1. (ready \in [Copies -> Nat] /\ waiting \in [Copies -> Nat])'
      BY <1>13 DEF WriteDeadLetterGuarded
    <2>2. (cur \in Copies \cup {None} /\ owned \in BOOLEAN /\ inTry \in BOOLEAN)'
      BY <1>13 DEF WriteDeadLetterGuarded
    <2>3. ((cur = None) <=> (pc \in {"idle", "dead"}))'
      BY <1>13 DEF WriteDeadLetterGuarded
    <2>4. ({done, dropped, dlq, nativeDlq, toldDlq, resent} \subseteq SUBSET Messages /\ runs \in [Messages -> 0 .. RunsCap])'
      BY <1>13 DEF WriteDeadLetterGuarded
    <2>5. (nfail \in 0 .. MaxFailures /\ ncrash \in 0 .. MaxCrashes /\ nlapse \in 0 .. MaxLapses)'
      BY <1>13 DEF WriteDeadLetterGuarded
    <2> QED BY <2>1, <2>2, <2>3, <2>4, <2>5, <1>13 DEF WriteDeadLetterGuarded
  <1>14. CASE WriteDeadLetter
    BY <1>14 DEF WriteDeadLetter
  <1>15. CASE DeadLetterAck
    <2>1. (ready \in [Copies -> Nat] /\ waiting \in [Copies -> Nat])'
      BY <1>15 DEF DeadLetterAck, Fail, Add
    <2>2. (cur \in Copies \cup {None} /\ owned \in BOOLEAN /\ inTry \in BOOLEAN)'
      BY <1>15 DEF DeadLetterAck, Fail, Add
    <2>3. ((cur = None) <=> (pc \in {"idle", "dead"}))'
      BY <1>15 DEF DeadLetterAck, Fail, Add
    <2>4. ({done, dropped, dlq, nativeDlq, toldDlq, resent} \subseteq SUBSET Messages /\ runs \in [Messages -> 0 .. RunsCap])'
      BY <1>15 DEF DeadLetterAck, Fail, Add
    <2>5. (nfail \in 0 .. MaxFailures /\ ncrash \in 0 .. MaxCrashes /\ nlapse \in 0 .. MaxLapses)'
      BY <1>15 DEF DeadLetterAck, Fail, Add
    <2> QED BY <2>1, <2>2, <2>3, <2>4, <2>5, <1>15 DEF DeadLetterAck, Fail, Add
  <1>16. CASE NotifyObserver
    <2>1. (ready \in [Copies -> Nat] /\ waiting \in [Copies -> Nat])'
      BY <1>16 DEF NotifyObserver, Finish
    <2>2. (cur \in Copies \cup {None} /\ owned \in BOOLEAN /\ inTry \in BOOLEAN)'
      BY <1>16 DEF NotifyObserver, Finish
    <2>3. ((cur = None) <=> (pc \in {"idle", "dead"}))'
      BY <1>16 DEF NotifyObserver, Finish
    <2>4. ({done, dropped, dlq, nativeDlq, toldDlq, resent} \subseteq SUBSET Messages /\ runs \in [Messages -> 0 .. RunsCap])'
      BY <1>16 DEF NotifyObserver, Finish
    <2>5. (nfail \in 0 .. MaxFailures /\ ncrash \in 0 .. MaxCrashes /\ nlapse \in 0 .. MaxLapses)'
      BY <1>16 DEF NotifyObserver, Finish
    <2> QED BY <2>1, <2>2, <2>3, <2>4, <2>5, <1>16 DEF NotifyObserver, Finish
  <1>17. CASE DeadLetterFails
    <2>1. (ready \in [Copies -> Nat] /\ waiting \in [Copies -> Nat])'
      BY <1>17 DEF DeadLetterFails, AfterFailedWrite, LeaveUnsettled, Finish, Fail, Add
    <2>2. (cur \in Copies \cup {None} /\ owned \in BOOLEAN /\ inTry \in BOOLEAN)'
      BY <1>17 DEF DeadLetterFails, AfterFailedWrite, LeaveUnsettled, Finish, Fail, Add
    <2>3. ((cur = None) <=> (pc \in {"idle", "dead"}))'
      BY <1>17 DEF DeadLetterFails, AfterFailedWrite, LeaveUnsettled, Finish, Fail, Add
    <2>4. ({done, dropped, dlq, nativeDlq, toldDlq, resent} \subseteq SUBSET Messages /\ runs \in [Messages -> 0 .. RunsCap])'
      BY <1>17 DEF DeadLetterFails, AfterFailedWrite, LeaveUnsettled, Finish, Fail, Add
    <2>5. (nfail \in 0 .. MaxFailures /\ ncrash \in 0 .. MaxCrashes /\ nlapse \in 0 .. MaxLapses)'
      BY <1>17 DEF DeadLetterFails, AfterFailedWrite, LeaveUnsettled, Finish, Fail, Add
    <2> QED BY <2>1, <2>2, <2>3, <2>4, <2>5, <1>17 DEF DeadLetterFails, AfterFailedWrite, LeaveUnsettled, Finish, Fail, Add
  <1>18. CASE HandlerReturns
    BY <1>18 DEF HandlerReturns
  <1>19. CASE HandlerRaises
    BY <1>19 DEF HandlerRaises
  <1>20. CASE Redeliver
    BY <1>20 DEF Redeliver, Counted, Remove, Add
  <1>21. CASE NativeRedrive
    BY <1>21 DEF NativeRedrive, Remove
  <1>22. CASE Lapse
    <2>1. (ready \in [Copies -> Nat] /\ waiting \in [Copies -> Nat])'
      BY <1>22 DEF Lapse, Add
    <2>2. (cur \in Copies \cup {None} /\ owned \in BOOLEAN /\ inTry \in BOOLEAN)'
      BY <1>22 DEF Lapse, Add
    <2>3. ((cur = None) <=> (pc \in {"idle", "dead"}))'
      BY <1>22 DEF Lapse, Add
    <2>4. ({done, dropped, dlq, nativeDlq, toldDlq, resent} \subseteq SUBSET Messages /\ runs \in [Messages -> 0 .. RunsCap])'
      BY <1>22 DEF Lapse, Add
    <2>5. (nfail \in 0 .. MaxFailures /\ ncrash \in 0 .. MaxCrashes /\ nlapse \in 0 .. MaxLapses)'
      BY <1>22 DEF Lapse, Add
    <2> QED BY <2>1, <2>2, <2>3, <2>4, <2>5, <1>22 DEF Lapse, Add
  <1>23. CASE Crash
    <2>1. (ready \in [Copies -> Nat] /\ waiting \in [Copies -> Nat])'
      BY <1>23 DEF Crash, LeaveUnsettled, Finish, Add
    <2>2. (cur \in Copies \cup {None} /\ owned \in BOOLEAN /\ inTry \in BOOLEAN)'
      BY <1>23 DEF Crash, LeaveUnsettled, Finish, Add
    <2>3. ((cur = None) <=> (pc \in {"idle", "dead"}))'
      BY <1>23 DEF Crash, LeaveUnsettled, Finish, Add
    <2>4. ({done, dropped, dlq, nativeDlq, toldDlq, resent} \subseteq SUBSET Messages /\ runs \in [Messages -> 0 .. RunsCap])'
      BY <1>23 DEF Crash, LeaveUnsettled, Finish, Add
    <2>5. (nfail \in 0 .. MaxFailures /\ ncrash \in 0 .. MaxCrashes /\ nlapse \in 0 .. MaxLapses)'
      BY <1>23 DEF Crash, LeaveUnsettled, Finish, Add
    <2> QED BY <2>1, <2>2, <2>3, <2>4, <2>5, <1>23 DEF Crash, LeaveUnsettled, Finish, Add
  <1>24. CASE Restart
    BY <1>24 DEF Restart
  <1> QED
    BY <1>1, <1>2, <1>3, <1>4, <1>5, <1>6, <1>7, <1>8, <1>9, <1>10, <1>11, <1>12, <1>13, <1>14, <1>15, <1>16, <1>17, <1>18, <1>19, <1>20, <1>21, <1>22, <1>23, <1>24
       DEF Step, Dispatch, Handler, Broker

-----------------------------------------------------------------------------
(* No message is lost                                                            *)

(* Only a pop() takes a message from elsewhere, into the hands of the worker.      *)
LEMMA StaysElsewhere ==
  ASSUME TypeOK, TypeOK', SafeToAck, Step, ~Pop, UNCHANGED conf, NEW m \in Messages, Elsewhere(m)
  PROVE  Elsewhere(m)'
  <1> USE Typing, SettlementAssumption DEF TypeOK, SafeToAck, Elsewhere
  <1>2. CASE Route
    BY <1>2 DEF Route
  <1>3. CASE RetryOrDeadLetter
    BY <1>3 DEF RetryOrDeadLetter
  <1>4. CASE AckHandled
    BY <1>4 DEF AckHandled, AckOk, AckFails, LeaveUnsettled, Finish, Fail, Add
  <1>5. CASE AckDropped
    BY <1>5 DEF AckDropped, AckOk, AckFails, LeaveUnsettled, Finish, Fail, Add
  <1>6. CASE ReleaseNatively
    BY <1>6 DEF ReleaseNatively, ReleasedCopy, Counted, Finish, Add
  <1>7. CASE ReleaseByCopy
    BY <1>7 DEF ReleaseByCopy, ReleasedCopy, Add
  <1>8. CASE ReleaseAck
    BY <1>8 DEF ReleaseAck, AckOk, AckFails, LeaveUnsettled, Finish, Fail, Add
  <1>9. CASE ReleaseFails
    BY <1>9 DEF ReleaseFails, LeaveUnsettled, Finish, Fail, Add
  <1>10. CASE Rewind
    BY <1>10 DEF Rewind, Counted, LeaveUnsettled, Finish, Fail, Add
  <1>11. CASE Abandon
    BY <1>11 DEF Abandon, Counted, LeaveUnsettled, Finish, Fail, Add
  <1>12. CASE SettleNative
    BY <1>12 DEF SettleNative, LeaveUnsettled, Finish, Fail, Add
  <1>13. CASE WriteDeadLetterGuarded
    BY <1>13 DEF WriteDeadLetterGuarded
  <1>14. CASE WriteDeadLetter
    BY <1>14 DEF WriteDeadLetter
  <1>15. CASE DeadLetterAck
    BY <1>15 DEF DeadLetterAck, Fail, Add
  <1>16. CASE NotifyObserver
    BY <1>16 DEF NotifyObserver, Finish
  <1>17. CASE DeadLetterFails
    BY <1>17 DEF DeadLetterFails, AfterFailedWrite, LeaveUnsettled, Finish, Fail, Add
  <1>18. CASE HandlerReturns
    BY <1>18 DEF HandlerReturns
  <1>19. CASE HandlerRaises
    BY <1>19 DEF HandlerRaises
  <1>20. CASE Redeliver
    BY <1>20 DEF Redeliver, Counted, Remove, Add
  <1>21. CASE NativeRedrive
    BY <1>21 DEF NativeRedrive, Remove
  <1>22. CASE Lapse
    BY <1>22 DEF Lapse, Add
  <1>23. CASE Crash
    BY <1>23 DEF Crash, LeaveUnsettled, Finish, Add
  <1>24. CASE Restart
    BY <1>24 DEF Restart
  <1> QED
    BY <1>2, <1>3, <1>4, <1>5, <1>6, <1>7, <1>8, <1>9, <1>10, <1>11, <1>12, <1>13, <1>14, <1>15, <1>16, <1>17, <1>18, <1>19, <1>20, <1>21, <1>22, <1>23, <1>24
       DEF Step, Dispatch, Handler, Broker

(* A copy that was added is elsewhere.                                            *)
LEMMA AddedElsewhere ==
  ASSUME TypeOK, NEW c \in Copies, ready' = Add(ready, c) \/ waiting' = Add(waiting, c)
  PROVE  Elsewhere(Msg(c))'
  <1>1. ready'[c] > 0 \/ waiting'[c] > 0
    BY DEF TypeOK, Add
  <1> QED BY <1>1 DEF Elsewhere

(* A delivery left unsettled, or given back, is elsewhere.                         *)
LEMMA LeftElsewhere ==
  ASSUME TypeOK, owned, cur # None, NEW m \in Messages, Msg(cur) = m
  PROVE  /\ \A q : LeaveUnsettled(q) => Elsewhere(m)'
         /\ ready' = Add(ready, Counted(cur)) => Elsewhere(m)'
         /\ ready' = Add(ready, cur) => Elsewhere(m)'
  <1>1. PICK c \in Copies : c = cur /\ Msg(c) = m
    BY Typing
  <1>2. PICK d \in Copies : d = Counted(cur) /\ Msg(d) = m
    BY CopiesBack
  <1> QED BY <1>1, <1>2, AddedElsewhere DEF LeaveUnsettled

(* And what is in the worker's hands stays there or goes elsewhere.               *)
LEMMA HandsOver ==
  ASSUME TypeOK, SafeToAck, Step, ~Pop, UNCHANGED conf,
         NEW m \in Messages, owned, Msg(cur) = m, ~Elsewhere(m)
  PROVE  (owned' /\ Msg(cur') = m) \/ Elsewhere(m)'
  <1> USE LeftElsewhere, CopiesBack DEF SafeToAck
  <1>2. CASE Route
    BY <1>2 DEF Route
  <1>3. CASE RetryOrDeadLetter
    BY <1>3 DEF RetryOrDeadLetter
  <1>4. CASE AckHandled
    BY <1>4 DEF AckHandled, Elsewhere
  <1>5. CASE AckDropped
    BY <1>5 DEF AckDropped, AckFails, Elsewhere
  <1>6. CASE ReleaseNatively
    <2>1. PICK c \in Copies : ready' = Add(ready, c) /\ Msg(c) = m
      BY <1>6 DEF ReleaseNatively
    <2> QED BY <2>1, AddedElsewhere
  <1>7. CASE ReleaseByCopy
    <2>1. PICK c \in Copies : ready' = Add(ready, c) /\ Msg(c) = m
      BY <1>7 DEF ReleaseByCopy
    <2> QED BY <2>1, AddedElsewhere
  <1>8. CASE ReleaseAck
    BY <1>8 DEF ReleaseAck, AckOk, AckFails, LeaveUnsettled, Finish, Fail, Add
  <1>9. CASE ReleaseFails
    BY <1>9 DEF ReleaseFails
  <1>10. CASE Rewind
    BY <1>10 DEF Rewind
  <1>11. CASE Abandon
    BY <1>11 DEF Abandon
  <1>12. CASE SettleNative
    BY <1>12 DEF SettleNative, Elsewhere
  <1>13. CASE WriteDeadLetterGuarded
    BY <1>13 DEF WriteDeadLetterGuarded, Elsewhere
  <1>14. CASE WriteDeadLetter
    BY <1>14 DEF WriteDeadLetter
  <1>15. CASE DeadLetterAck
    BY <1>15 DEF DeadLetterAck, Fail, Add
  <1>16. CASE NotifyObserver
    BY <1>16 DEF NotifyObserver, Finish
  <1>17. CASE DeadLetterFails
    BY <1>17 DEF DeadLetterFails
  <1>18. CASE HandlerReturns
    BY <1>18 DEF HandlerReturns
  <1>19. CASE HandlerRaises
    BY <1>19 DEF HandlerRaises
  <1>20. CASE Redeliver
    BY <1>20 DEF Redeliver, Counted, Remove, Add
  <1>21. CASE NativeRedrive
    BY <1>21 DEF NativeRedrive, Remove
  <1>22. CASE Lapse
    BY <1>22 DEF Lapse
  <1>23. CASE Crash
    BY <1>23 DEF Crash
  <1>24. CASE Restart
    BY <1>24 DEF Restart
  <1> QED
    BY <1>2, <1>3, <1>4, <1>5, <1>6, <1>7, <1>8, <1>9, <1>10, <1>11, <1>12, <1>13, <1>14, <1>15, <1>16, <1>17, <1>18, <1>19, <1>20, <1>21, <1>22, <1>23, <1>24
       DEF Step, Dispatch, Handler, Broker

LEMMA NoLossKept ==
  ASSUME TypeOK, TypeOK', SafeToAck, NoLoss, Step, UNCHANGED conf
  PROVE  NoLoss'
  <1> SUFFICES ASSUME NEW m \in Messages PROVE (Live(m) \/ m \in done \cup dropped \cup dlq \cup nativeDlq)'
    BY DEF NoLoss
  <1>1. Elsewhere(m) \/ (owned /\ Msg(cur) = m)
    BY DEF NoLoss, Live, Elsewhere
  <1>2. CASE Pop
    BY <1>1, <1>2, Typing DEF Pop, Remove, TypeOK, Elsewhere, Live, SafeToAck
  <1>3. CASE ~Pop /\ Elsewhere(m)
    BY <1>3, StaysElsewhere DEF Elsewhere, Live
  <1>4. CASE ~Pop /\ ~Elsewhere(m) /\ owned /\ Msg(cur) = m
    BY <1>4, HandsOver DEF Elsewhere, Live
  <1> QED BY <1>1, <1>2, <1>3, <1>4

(* Where an acknowledgement comes next.                                           *)
LEMMA Entering ==
  ASSUME TypeOK, Step, UNCHANGED conf, pc' \in {"releaseAck", "dlqAck", "notify"}
  PROVE  /\ cur' = cur /\ cur # None
         /\ \/ pc \in {"releaseAck", "dlqAck", "notify"}
            \/ ReleaseByCopy \/ WriteDeadLetter \/ WriteDeadLetterGuarded
  <1> USE RouteLeads DEF TypeOK
  <1>1. CASE Pop
    BY <1>1 DEF Pop, Remove
  <1>2. CASE Route
    BY <1>2 DEF Route
  <1>3. CASE RetryOrDeadLetter
    BY <1>3 DEF RetryOrDeadLetter
  <1>4. CASE AckHandled
    BY <1>4 DEF AckHandled, AckOk, AckFails, LeaveUnsettled, Finish, Fail, Add
  <1>5. CASE AckDropped
    BY <1>5 DEF AckDropped, AckOk, AckFails, LeaveUnsettled, Finish, Fail, Add
  <1>6. CASE ReleaseNatively
    BY <1>6 DEF ReleaseNatively, ReleasedCopy, Counted, Finish, Add
  <1>7. CASE ReleaseByCopy
    BY <1>7 DEF ReleaseByCopy, ReleasedCopy, Add
  <1>8. CASE ReleaseAck
    BY <1>8 DEF ReleaseAck, AckOk, AckFails, LeaveUnsettled, Finish, Fail, Add
  <1>9. CASE ReleaseFails
    BY <1>9 DEF ReleaseFails, LeaveUnsettled, Finish, Fail, Add
  <1>10. CASE Rewind
    BY <1>10 DEF Rewind, Counted, LeaveUnsettled, Finish, Fail, Add
  <1>11. CASE Abandon
    BY <1>11 DEF Abandon, Counted, LeaveUnsettled, Finish, Fail, Add
  <1>12. CASE SettleNative
    BY <1>12 DEF SettleNative, LeaveUnsettled, Finish, Fail, Add
  <1>13. CASE WriteDeadLetterGuarded
    BY <1>13 DEF WriteDeadLetterGuarded
  <1>14. CASE WriteDeadLetter
    BY <1>14 DEF WriteDeadLetter
  <1>15. CASE DeadLetterAck
    BY <1>15 DEF DeadLetterAck, Fail, Add
  <1>16. CASE NotifyObserver
    BY <1>16 DEF NotifyObserver, Finish
  <1>17. CASE DeadLetterFails
    BY <1>17 DEF DeadLetterFails, AfterFailedWrite, LeaveUnsettled, Finish, Fail, Add
  <1>18. CASE HandlerReturns
    BY <1>18 DEF HandlerReturns
  <1>19. CASE HandlerRaises
    BY <1>19 DEF HandlerRaises
  <1>20. CASE Redeliver
    BY <1>20 DEF Redeliver, Counted, Remove, Add
  <1>21. CASE NativeRedrive
    BY <1>21 DEF NativeRedrive, Remove
  <1>22. CASE Lapse
    BY <1>22 DEF Lapse, Add
  <1>23. CASE Crash
    BY <1>23 DEF Crash, LeaveUnsettled, Finish, Add
  <1>24. CASE Restart
    BY <1>24 DEF Restart
  <1> QED
    BY <1>1, <1>2, <1>3, <1>4, <1>5, <1>6, <1>7, <1>8, <1>9, <1>10, <1>11, <1>12, <1>13, <1>14, <1>15, <1>16, <1>17, <1>18, <1>19, <1>20, <1>21, <1>22, <1>23, <1>24
       DEF Step, Dispatch, Handler, Broker

(* A retry is only written while attempts are left.                               *)
LEMMA HeldKept ==
  ASSUME TypeOK, TypeOK', SafeToAck, Step, UNCHANGED conf
  PROVE  ((pc = "republish" => NextAttempts < MaxAttempts) /\ (owned => cur # None))'
  <1> USE RouteLeads, SettlementAssumption DEF TypeOK, SafeToAck
  <1>1. CASE Pop
    BY <1>1 DEF Pop, Remove
  <1>2. CASE Route
    BY <1>2 DEF Route
  <1>3. CASE RetryOrDeadLetter
    BY <1>3 DEF RetryOrDeadLetter
  <1>4. CASE AckHandled
    BY <1>4 DEF AckHandled, AckOk, AckFails, LeaveUnsettled, Finish, Fail, Add
  <1>5. CASE AckDropped
    BY <1>5 DEF AckDropped, AckOk, AckFails, LeaveUnsettled, Finish, Fail, Add
  <1>6. CASE ReleaseNatively
    BY <1>6 DEF ReleaseNatively, ReleasedCopy, Counted, Finish, Add
  <1>7. CASE ReleaseByCopy
    BY <1>7 DEF ReleaseByCopy, ReleasedCopy, Add
  <1>8. CASE ReleaseAck
    BY <1>8 DEF ReleaseAck, AckOk, AckFails, LeaveUnsettled, Finish, Fail, Add
  <1>9. CASE ReleaseFails
    BY <1>9 DEF ReleaseFails, LeaveUnsettled, Finish, Fail, Add
  <1>10. CASE Rewind
    BY <1>10 DEF Rewind, Counted, LeaveUnsettled, Finish, Fail, Add
  <1>11. CASE Abandon
    BY <1>11 DEF Abandon, Counted, LeaveUnsettled, Finish, Fail, Add
  <1>12. CASE SettleNative
    BY <1>12 DEF SettleNative, LeaveUnsettled, Finish, Fail, Add
  <1>13. CASE WriteDeadLetterGuarded
    BY <1>13 DEF WriteDeadLetterGuarded
  <1>14. CASE WriteDeadLetter
    BY <1>14 DEF WriteDeadLetter
  <1>15. CASE DeadLetterAck
    BY <1>15 DEF DeadLetterAck, Fail, Add
  <1>16. CASE NotifyObserver
    BY <1>16 DEF NotifyObserver, Finish
  <1>17. CASE DeadLetterFails
    BY <1>17 DEF DeadLetterFails, AfterFailedWrite, LeaveUnsettled, Finish, Fail, Add
  <1>18. CASE HandlerReturns
    BY <1>18 DEF HandlerReturns
  <1>19. CASE HandlerRaises
    BY <1>19 DEF HandlerRaises
  <1>20. CASE Redeliver
    BY <1>20 DEF Redeliver, Counted, Remove, Add
  <1>21. CASE NativeRedrive
    BY <1>21 DEF NativeRedrive, Remove
  <1>22. CASE Lapse
    BY <1>22 DEF Lapse, Add
  <1>23. CASE Crash
    BY <1>23 DEF Crash, LeaveUnsettled, Finish, Add
  <1>24. CASE Restart
    BY <1>24 DEF Restart
  <1> QED
    BY <1>1, <1>2, <1>3, <1>4, <1>5, <1>6, <1>7, <1>8, <1>9, <1>10, <1>11, <1>12, <1>13, <1>14, <1>15, <1>16, <1>17, <1>18, <1>19, <1>20, <1>21, <1>22, <1>23, <1>24
       DEF Step, Dispatch, Handler, Broker

(* The write, or the released copy, comes before the acknowledgement.              *)
LEMMA SafeToAckKept ==
  ASSUME TypeOK, TypeOK', SafeToAck, NoLoss, Step, UNCHANGED conf
  PROVE  SafeToAck'
  <1>1. ASSUME pc' \in {"releaseAck", "dlqAck", "notify"}
        PROVE  Elsewhere(Msg(cur))'
    <2>1. PICK m \in Messages : m = Msg(cur) /\ m = Msg(cur')
      BY <1>1, Entering, Typing
    <2>2. ~Pop
      BY <1>1 DEF Pop
    <2>3. CASE Elsewhere(m)
      BY <2>1, <2>2, <2>3, StaysElsewhere
    <2>4. CASE ReleaseByCopy
      <3>1. PICK c \in Copies : c = ReleasedCopy /\ Msg(c) = m
        BY <1>1, <2>1, Entering, CopiesBack DEF SafeToAck
      <3>2. ready' = Add(ready, c)
        BY <2>4, <3>1 DEF ReleaseByCopy
      <3> QED BY <2>1, <3>1, <3>2, AddedElsewhere
    <2>5. CASE WriteDeadLetter
      BY <2>1, <2>5 DEF WriteDeadLetter, Elsewhere
    <2>6. CASE WriteDeadLetterGuarded /\ owned
      BY <2>1, <2>6 DEF WriteDeadLetterGuarded, Elsewhere
    <2>7. CASE ~owned
      BY <2>1, <2>3, <2>7 DEF NoLoss, Live, Elsewhere
    <2> QED BY <1>1, <2>1, <2>3, <2>4, <2>5, <2>6, <2>7, Entering DEF SafeToAck
  <1> QED BY <1>1, HeldKept DEF SafeToAck

-----------------------------------------------------------------------------
(* Routes, drops and the observer                                                *)

(* A delivery is only where a route for its class leads.                           *)
LEMMA RoutedByKept ==
  ASSUME TypeOK, TypeOK', RoutedBy, Step, UNCHANGED conf
  PROVE  RoutedBy'
  <1> USE Typing DEF TypeOK, RoutedBy, DropPermitted
  <1>1. CASE Pop
    BY <1>1 DEF Pop, Remove
  <1>2. CASE Route
    <2>1. cur # None /\ Msg(cur) \in Messages /\ Class[Msg(cur)] \in Classes
      BY <1>2 DEF Route
    <2>2. cur' = cur /\ pc' = RouteOf(Msg(cur))
      BY <1>2 DEF Route
    <2>3. CASE Class[Msg(cur)] = "ok"
      BY <2>1, <2>2, <2>3 DEF RouteOf
    <2>4. CASE Class[Msg(cur)] = "unknown"
      BY <2>1, <2>2, <2>4 DEF RouteOf, RouteUnknown
    <2>5. CASE Class[Msg(cur)] = "gated"
      BY <2>1, <2>2, <2>5 DEF RouteOf, RouteGated
    <2>6. CASE Class[Msg(cur)] = "poison"
      <3>1. pc' = RoutePoison(Msg(cur))
        BY <2>1, <2>2, <2>6 DEF RouteOf
      <3>2. pc' = "drop" => DropPermitted(Msg(cur))
        <4>1. pc' = "drop" => /\ Transport # "redis"
                              /\ Strategy = "delete" \/ (~DlqOn /\ ~NativeSettler)
          BY <3>1 DEF RoutePoison
        <4> QED BY <2>6, <4>1 DEF DropPermitted
      <3>3. pc' = "retry" => Transport # "redis" /\ ~DlqOn /\ ~NativeSettler
        BY <3>1 DEF RoutePoison
      <3>4. pc' \in {"drop", "dlq", "native", "retry"}
        BY <3>1 DEF RoutePoison
      <3> QED BY <2>2, <2>6, <3>2, <3>3, <3>4, <1>2 DEF Route
    <2> QED BY <2>1, <2>3, <2>4, <2>5, <2>6 DEF Classes
  <1>3. CASE RetryOrDeadLetter
    BY <1>3 DEF RetryOrDeadLetter
  <1>4. CASE AckHandled
    BY <1>4 DEF AckHandled, AckOk, AckFails, LeaveUnsettled, Finish, Fail, Add
  <1>5. CASE AckDropped
    BY <1>5 DEF AckDropped, AckOk, AckFails, LeaveUnsettled, Finish, Fail, Add
  <1>6. CASE ReleaseNatively
    BY <1>6 DEF ReleaseNatively, ReleasedCopy, Counted, Finish, Add
  <1>7. CASE ReleaseByCopy
    BY <1>7 DEF ReleaseByCopy, ReleasedCopy, Add
  <1>8. CASE ReleaseAck
    BY <1>8 DEF ReleaseAck, AckOk, AckFails, LeaveUnsettled, Finish, Fail, Add
  <1>9. CASE ReleaseFails
    BY <1>9 DEF ReleaseFails, LeaveUnsettled, Finish, Fail, Add
  <1>10. CASE Rewind
    BY <1>10 DEF Rewind, Counted, LeaveUnsettled, Finish, Fail, Add
  <1>11. CASE Abandon
    BY <1>11 DEF Abandon, Counted, LeaveUnsettled, Finish, Fail, Add
  <1>12. CASE SettleNative
    BY <1>12 DEF SettleNative, LeaveUnsettled, Finish, Fail, Add
  <1>13. CASE WriteDeadLetterGuarded
    BY <1>13 DEF WriteDeadLetterGuarded
  <1>14. CASE WriteDeadLetter
    BY <1>14 DEF WriteDeadLetter
  <1>15. CASE DeadLetterAck
    BY <1>15 DEF DeadLetterAck, Fail, Add
  <1>16. CASE NotifyObserver
    BY <1>16 DEF NotifyObserver, Finish
  <1>17. CASE DeadLetterFails
    BY <1>17 DEF DeadLetterFails, AfterFailedWrite, LeaveUnsettled, Finish, Fail, Add
  <1>18. CASE HandlerReturns
    BY <1>18 DEF HandlerReturns
  <1>19. CASE HandlerRaises
    BY <1>19 DEF HandlerRaises
  <1>20. CASE Redeliver
    BY <1>20 DEF Redeliver, Counted, Remove, Add
  <1>21. CASE NativeRedrive
    BY <1>21 DEF NativeRedrive, Remove
  <1>22. CASE Lapse
    BY <1>22 DEF Lapse, Add
  <1>23. CASE Crash
    BY <1>23 DEF Crash, LeaveUnsettled, Finish, Add
  <1>24. CASE Restart
    BY <1>24 DEF Restart
  <1> QED
    BY <1>1, <1>2, <1>3, <1>4, <1>5, <1>6, <1>7, <1>8, <1>9, <1>10, <1>11, <1>12, <1>13, <1>14, <1>15, <1>16, <1>17, <1>18, <1>19, <1>20, <1>21, <1>22, <1>23, <1>24
       DEF Step, Dispatch, Handler, Broker

(* Drops and runs follow from the routes.                                          *)
LEMMA DropsKept ==
  ASSUME TypeOK, TypeOK', RoutedBy, OnlyPermittedDrops, RejectedStaysOut, Step, UNCHANGED conf
  PROVE  OnlyPermittedDrops' /\ RejectedStaysOut'
  <1> USE Typing DEF TypeOK, RoutedBy, OnlyPermittedDrops, RejectedStaysOut, DropPermitted
  <1>1. CASE Pop
    BY <1>1 DEF Pop, Remove
  <1>2. CASE Route
    BY <1>2 DEF Route, RouteOf, RouteUnknown, RouteGated, RoutePoison
  <1>3. CASE RetryOrDeadLetter
    BY <1>3 DEF RetryOrDeadLetter
  <1>4. CASE AckHandled
    BY <1>4 DEF AckHandled, AckOk, AckFails, LeaveUnsettled, Finish, Fail, Add
  <1>5. CASE AckDropped
    BY <1>5 DEF AckDropped, AckOk, AckFails, LeaveUnsettled, Finish, Fail, Add
  <1>6. CASE ReleaseNatively
    BY <1>6 DEF ReleaseNatively, ReleasedCopy, Counted, Finish, Add
  <1>7. CASE ReleaseByCopy
    BY <1>7 DEF ReleaseByCopy, ReleasedCopy, Add
  <1>8. CASE ReleaseAck
    BY <1>8 DEF ReleaseAck, AckOk, AckFails, LeaveUnsettled, Finish, Fail, Add
  <1>9. CASE ReleaseFails
    BY <1>9 DEF ReleaseFails, LeaveUnsettled, Finish, Fail, Add
  <1>10. CASE Rewind
    BY <1>10 DEF Rewind, Counted, LeaveUnsettled, Finish, Fail, Add
  <1>11. CASE Abandon
    BY <1>11 DEF Abandon, Counted, LeaveUnsettled, Finish, Fail, Add
  <1>12. CASE SettleNative
    BY <1>12 DEF SettleNative, LeaveUnsettled, Finish, Fail, Add
  <1>13. CASE WriteDeadLetterGuarded
    BY <1>13 DEF WriteDeadLetterGuarded
  <1>14. CASE WriteDeadLetter
    BY <1>14 DEF WriteDeadLetter
  <1>15. CASE DeadLetterAck
    BY <1>15 DEF DeadLetterAck, Fail, Add
  <1>16. CASE NotifyObserver
    BY <1>16 DEF NotifyObserver, Finish
  <1>17. CASE DeadLetterFails
    BY <1>17 DEF DeadLetterFails, AfterFailedWrite, LeaveUnsettled, Finish, Fail, Add
  <1>18. CASE HandlerReturns
    BY <1>18 DEF HandlerReturns
  <1>19. CASE HandlerRaises
    BY <1>19 DEF HandlerRaises
  <1>20. CASE Redeliver
    BY <1>20 DEF Redeliver, Counted, Remove, Add
  <1>21. CASE NativeRedrive
    BY <1>21 DEF NativeRedrive, Remove
  <1>22. CASE Lapse
    BY <1>22 DEF Lapse, Add
  <1>23. CASE Crash
    BY <1>23 DEF Crash, LeaveUnsettled, Finish, Add
  <1>24. CASE Restart
    BY <1>24 DEF Restart
  <1> QED
    BY <1>1, <1>2, <1>3, <1>4, <1>5, <1>6, <1>7, <1>8, <1>9, <1>10, <1>11, <1>12, <1>13, <1>14, <1>15, <1>16, <1>17, <1>18, <1>19, <1>20, <1>21, <1>22, <1>23, <1>24
       DEF Step, Dispatch, Handler, Broker

(* The observer is told of what was written.                                       *)
LEMMA ToldKept ==
  ASSUME TypeOK, TypeOK', Told, Step, UNCHANGED conf
  PROVE  Told'
  <1> USE Typing, RouteLeads, SettlementAssumption DEF TypeOK, Told, ObserverTruthful, ObserverAfterWrite
  <1>1. CASE Pop
    BY <1>1 DEF Pop, Remove
  <1>2. CASE Route
    BY <1>2 DEF Route
  <1>3. CASE RetryOrDeadLetter
    BY <1>3 DEF RetryOrDeadLetter
  <1>4. CASE AckHandled
    BY <1>4 DEF AckHandled, AckOk, AckFails, LeaveUnsettled, Finish, Fail, Add
  <1>5. CASE AckDropped
    BY <1>5 DEF AckDropped, AckOk, AckFails, LeaveUnsettled, Finish, Fail, Add
  <1>6. CASE ReleaseNatively
    BY <1>6 DEF ReleaseNatively, ReleasedCopy, Counted, Finish, Add
  <1>7. CASE ReleaseByCopy
    BY <1>7 DEF ReleaseByCopy, ReleasedCopy, Add
  <1>8. CASE ReleaseAck
    BY <1>8 DEF ReleaseAck, AckOk, AckFails, LeaveUnsettled, Finish, Fail, Add
  <1>9. CASE ReleaseFails
    BY <1>9 DEF ReleaseFails, LeaveUnsettled, Finish, Fail, Add
  <1>10. CASE Rewind
    BY <1>10 DEF Rewind, Counted, LeaveUnsettled, Finish, Fail, Add
  <1>11. CASE Abandon
    BY <1>11 DEF Abandon, Counted, LeaveUnsettled, Finish, Fail, Add
  <1>12. CASE SettleNative
    BY <1>12 DEF SettleNative, LeaveUnsettled, Finish, Fail, Add
  <1>13. CASE WriteDeadLetterGuarded
    BY <1>13 DEF WriteDeadLetterGuarded
  <1>14. CASE WriteDeadLetter
    BY <1>14 DEF WriteDeadLetter
  <1>15. CASE DeadLetterAck
    BY <1>15 DEF DeadLetterAck, Fail, Add
  <1>16. CASE NotifyObserver
    BY <1>16 DEF NotifyObserver, Finish
  <1>17. CASE DeadLetterFails
    BY <1>17 DEF DeadLetterFails, AfterFailedWrite, LeaveUnsettled, Finish, Fail, Add
  <1>18. CASE HandlerReturns
    BY <1>18 DEF HandlerReturns
  <1>19. CASE HandlerRaises
    BY <1>19 DEF HandlerRaises
  <1>20. CASE Redeliver
    BY <1>20 DEF Redeliver, Counted, Remove, Add
  <1>21. CASE NativeRedrive
    BY <1>21 DEF NativeRedrive, Remove
  <1>22. CASE Lapse
    BY <1>22 DEF Lapse, Add
  <1>23. CASE Crash
    BY <1>23 DEF Crash, LeaveUnsettled, Finish, Add
  <1>24. CASE Restart
    BY <1>24 DEF Restart
  <1> QED
    BY <1>1, <1>2, <1>3, <1>4, <1>5, <1>6, <1>7, <1>8, <1>9, <1>10, <1>11, <1>12, <1>13, <1>14, <1>15, <1>16, <1>17, <1>18, <1>19, <1>20, <1>21, <1>22, <1>23, <1>24
       DEF Step, Dispatch, Handler, Broker

-----------------------------------------------------------------------------
(* The invariant holds at first,                                                 *)
LEMMA InitInvariant == Init => SInv
  <1> SUFFICES ASSUME Init PROVE SInv
    OBVIOUS
  <1>1. conf \in Configs /\ conf \in Config
    BY SettlementAssumption DEF Init
  <1>2. \A m \in Messages : <<m, 0>> \in Copies /\ Msg(<<m, 0>>) = m /\ Attempts(<<m, 0>>) = 0
    BY SettlementAssumption
  <1>3. TypeOK
    <2>1. ready \in [Copies -> Nat] /\ waiting \in [Copies -> Nat]
      BY DEF Init
    <2>2. runs \in [Messages -> 0 .. RunsCap]
      BY CapIsNat DEF Init
    <2>3. nfail \in 0 .. MaxFailures /\ ncrash \in 0 .. MaxCrashes /\ nlapse \in 0 .. MaxLapses
      BY SettlementAssumption DEF Init
    <2>4. {done, dropped, dlq, nativeDlq, toldDlq, resent} \subseteq SUBSET Messages
      BY DEF Init
    <2>5. /\ cur \in Copies \cup {None} /\ owned \in BOOLEAN /\ inTry \in BOOLEAN
          /\ (cur = None) <=> (pc \in {"idle", "dead"})
          /\ pc = "idle"
      BY DEF Init
    <2> QED BY <1>1, <2>1, <2>2, <2>3, <2>4, <2>5 DEF TypeOK
  <1>4. NoLoss
    <2> SUFFICES ASSUME NEW m \in Messages PROVE \E c \in Copies : Msg(c) = m /\ ready[c] > 0
      BY DEF NoLoss, Live
    <2>1. PICK c \in Copies : Msg(c) = m /\ Attempts(c) = 0
      BY <1>2
    <2>2. ready[c] = 1
      BY <2>1 DEF Init
    <2> QED BY <2>1, <2>2
  <1>5. SafeToAck /\ RoutedBy /\ Told
    BY DEF Init, SafeToAck, RoutedBy, Told, ObserverTruthful, ObserverAfterWrite
  <1>6. OnlyPermittedDrops /\ RejectedStaysOut
    BY DEF Init, OnlyPermittedDrops, RejectedStaysOut
  <1> QED BY <1>3, <1>4, <1>5, <1>6 DEF SInv

(* and every step keeps it.                                                      *)
LEMMA NextInvariant == SInv /\ [Next]_vars => SInv'
  <1>1. ASSUME SInv, Step, UNCHANGED conf PROVE SInv'
    <2>1. TypeOK'
      BY <1>1, TypesKept DEF SInv
    <2>2. SafeToAck' /\ NoLoss'
      BY <1>1, <2>1, SafeToAckKept, NoLossKept DEF SInv
    <2>3. RoutedBy' /\ OnlyPermittedDrops' /\ RejectedStaysOut' /\ Told'
      BY <1>1, <2>1, RoutedByKept, DropsKept, ToldKept DEF SInv
    <2> QED BY <2>1, <2>2, <2>3 DEF SInv
  <1>2. ASSUME SInv, UNCHANGED vars PROVE SInv'
    <2>1. TypeOK'
      BY <1>2 DEF SInv, TypeOK, vars, ends, history, bounds, Copies
    <2>2. (SafeToAck /\ NoLoss)'
      BY <1>2 DEF SInv, SafeToAck, NoLoss, Live, Elsewhere, vars, ends, history, bounds
    <2>3. (RoutedBy /\ OnlyPermittedDrops)'
      BY <1>2 DEF SInv, RoutedBy, OnlyPermittedDrops, DropPermitted, vars, ends, history, bounds
    <2>4. (RejectedStaysOut /\ Told)'
      BY <1>2 DEF SInv, RejectedStaysOut, Told, ObserverTruthful, ObserverAfterWrite, vars, ends, history, bounds
    <2> QED BY <2>1, <2>2, <2>3, <2>4 DEF SInv
  <1> QED BY <1>1, <1>2 DEF Next, Drained

-----------------------------------------------------------------------------
(* The run budget                                                                *)

(* The handler runs a copy that has been attempted n times can still lead to.    *)
(* A copy at MaxAttempts (a broker counted it there) still gets one.             *)
Worth(n) == IF n < MaxAttempts THEN MaxAttempts - n ELSE 1

(* One token per run the copies in the broker stand for: load[n] copies attempted *)
(* n times.                                                                       *)
TokenRow(n, j, k) == {<<n, j, s>> : s \in 1 .. k}
Tokens(load) == UNION {{<<n, j, s>> : j \in 1 .. load[n], s \in 1 .. Worth(n)} : n \in 0 .. MaxAttempts}
Loads == [0 .. MaxAttempts -> Nat]
Load(m) == [n \in 0 .. MaxAttempts |-> ready[<<m, n>>] + waiting[<<m, n>>]]
Weight(m) == Cardinality(Tokens(Load(m)))

(* The runs the copy in hand can still lead to without a failure: none of its own *)
(* once another copy carries them on, and those of any copy when it is rewound.   *)
InHand(m) ==
  IF cur = None THEN 0
  ELSE IF Msg(cur) # m THEN 0
  ELSE IF pc = "route" THEN Worth(Attempts(cur))
  ELSE IF pc \in {"handle", "retry", "republish"} THEN Worth(Attempts(cur)) - 1
  ELSE IF pc = "rewind" THEN MaxAttempts
  ELSE 0

Budget == MaxAttempts * (1 + nfail + ncrash + nlapse)

(* Runs had, runs in the broker and runs in hand stay within the budget.          *)
Balanced(m) == IsFiniteSet(Tokens(Load(m))) /\ runs[m] + Weight(m) + InHand(m) <= Budget

RunInv ==
  /\ pc \in {"release", "native", "abandon"} => Class[Msg(cur)] # "ok"
  /\ \A m \in Messages : runs[m] > 0 => Class[m] = "ok"
  /\ \A m \in Messages : Class[m] = "ok" /\ Transport # "kafka0" => Balanced(m)

(* A row of tokens is as long as it says.                                         *)
LEMMA RowOfTokens ==
  ASSUME NEW n, NEW j, NEW k \in Nat
  PROVE  IsFiniteSet(TokenRow(n, j, k)) /\ Cardinality(TokenRow(n, j, k)) = k
  <1> DEFINE Row == {<<n, j, s>> : s \in 1 .. k}
             f == [s \in 1 .. k |-> <<n, j, s>>]
  <1>1. IsFiniteSet(1 .. k) /\ Cardinality(1 .. k) = k
    BY FS_Interval
  <1>2. f \in Bijection(1 .. k, Row)
    <2>1. f \in [1 .. k -> Row]
      OBVIOUS
    <2>2. \A s, t \in 1 .. k : f[s] = f[t] => s = t
      OBVIOUS
    <2>3. \A r \in Row : \E s \in 1 .. k : f[s] = r
      OBVIOUS
    <2> QED BY <2>1, <2>2, <2>3 DEF Bijection, Injection, Surjection, IsInjective
  <1>3. ExistsBijection(1 .. k, Row)
    BY <1>2 DEF ExistsBijection
  <1> HIDE DEF Row
  <1>4. IsFiniteSet(Row) /\ Cardinality(Row) = k
    BY <1>1, <1>3, FS_Bijection
  <1> QED BY <1>4 DEF Row, TokenRow

LEMMA WorthIsNat ==
  ASSUME NEW n \in 0 .. MaxAttempts
  PROVE  Worth(n) \in 1 .. MaxAttempts
  BY SettlementAssumption DEF Worth

(* One more copy attempted n times adds its worth,                                *)
LEMMA LoadGrows ==
  ASSUME NEW load \in Loads, IsFiniteSet(Tokens(load)), NEW n \in 0 .. MaxAttempts
  PROVE  LET more == [load EXCEPT ![n] = @ + 1]
         IN  /\ more \in Loads /\ IsFiniteSet(Tokens(more))
             /\ Cardinality(Tokens(more)) = Cardinality(Tokens(load)) + Worth(n)
  <1> DEFINE more == [load EXCEPT ![n] = @ + 1]
             Row == TokenRow(n, load[n] + 1, Worth(n))
  <1>1. more \in Loads /\ load[n] \in Nat /\ more[n] = load[n] + 1
    BY DEF Loads
  <1>2. Worth(n) \in Nat /\ \A i \in 0 .. MaxAttempts : Worth(i) \in Nat
    BY WorthIsNat
  <1>3. IsFiniteSet(Row) /\ Cardinality(Row) = Worth(n)
    BY <1>2, RowOfTokens
  <1>4. Tokens(more) = Tokens(load) \cup Row
    <2>1. ASSUME NEW t \in Tokens(more) PROVE t \in Tokens(load) \cup Row
      <3>1. PICK i \in 0 .. MaxAttempts : t \in {<<i, j, s>> : j \in 1 .. more[i], s \in 1 .. Worth(i)}
        BY <2>1 DEF Tokens
      <3>2. PICK j \in 1 .. more[i], s \in 1 .. Worth(i) : t = <<i, j, s>>
        BY <3>1
      <3>3. CASE i = n /\ j = load[n] + 1
        BY <3>2, <3>3 DEF TokenRow
      <3>4. CASE i # n \/ j # load[n] + 1
        <4>1. j \in 1 .. load[i]
          BY <1>1, <3>2, <3>4 DEF Loads
        <4> QED BY <3>2, <4>1 DEF Tokens
      <3> QED BY <3>3, <3>4
    <2>2. ASSUME NEW t \in Tokens(load) PROVE t \in Tokens(more)
      <3>1. PICK i \in 0 .. MaxAttempts : t \in {<<i, j, s>> : j \in 1 .. load[i], s \in 1 .. Worth(i)}
        BY <2>2 DEF Tokens
      <3>2. PICK j \in 1 .. load[i], s \in 1 .. Worth(i) : t = <<i, j, s>>
        BY <3>1
      <3>3. j \in 1 .. more[i]
        BY <1>1, <3>2 DEF Loads
      <3> QED BY <3>2, <3>3 DEF Tokens
    <2>3. ASSUME NEW t \in Row PROVE t \in Tokens(more)
      <3>1. PICK s \in 1 .. Worth(n) : t = <<n, load[n] + 1, s>>
        BY <2>3 DEF TokenRow
      <3>2. load[n] + 1 \in 1 .. more[n]
        BY <1>1
      <3>3. t \in {<<n, j, r>> : j \in 1 .. more[n], r \in 1 .. Worth(n)}
        BY <3>1, <3>2
      <3> QED BY <3>3 DEF Tokens
    <2> QED BY <2>1, <2>2, <2>3
  <1>5. Tokens(load) \cap Row = {}
    <2> SUFFICES ASSUME NEW t \in Tokens(load), t \in Row PROVE FALSE
      OBVIOUS
    <2>1. PICK i \in 0 .. MaxAttempts : t \in {<<i, j, s>> : j \in 1 .. load[i], s \in 1 .. Worth(i)}
      BY DEF Tokens
    <2>2. PICK j \in 1 .. load[i], s \in 1 .. Worth(i) : t = <<i, j, s>>
      BY <2>1
    <2>3. t[1] = n /\ t[2] = load[n] + 1
      BY DEF TokenRow
    <2> QED BY <1>1, <2>2, <2>3
  <1> HIDE DEF Row, more
  <1>6. Cardinality(Tokens(load)) \in Nat /\ Cardinality({}) = 0
    BY FS_CardinalityType, FS_EmptySet
  <1>7. /\ IsFiniteSet(Tokens(more))
        /\ Cardinality(Tokens(more)) = Cardinality(Tokens(load)) + Worth(n)
    <2>1. /\ IsFiniteSet(Tokens(load) \cup Row)
          /\ Cardinality(Tokens(load) \cup Row) = Cardinality(Tokens(load)) + Cardinality(Row) - Cardinality(Tokens(load) \cap Row)
      BY <1>3, FS_Union
    <2>2. Cardinality(Tokens(load) \cap Row) = 0
      BY <1>5, <1>6
    <2> QED BY <1>2, <1>3, <1>4, <1>6, <2>1, <2>2
  <1> QED BY <1>1, <1>7 DEF more

(* and one copy less takes it away.                                               *)
LEMMA LoadShrinks ==
  ASSUME NEW load \in Loads, IsFiniteSet(Tokens(load)), NEW n \in 0 .. MaxAttempts, load[n] > 0
  PROVE  LET less == [load EXCEPT ![n] = @ - 1]
         IN  /\ less \in Loads /\ IsFiniteSet(Tokens(less))
             /\ Cardinality(Tokens(load)) = Cardinality(Tokens(less)) + Worth(n)
  <1> DEFINE less == [load EXCEPT ![n] = @ - 1]
  <1>1. less \in Loads /\ load = [less EXCEPT ![n] = @ + 1]
    <2>1. load[n] \in Nat /\ less \in Loads /\ less[n] = load[n] - 1
      BY DEF Loads
    <2>2. \A i \in 0 .. MaxAttempts : load[i] = [less EXCEPT ![n] = @ + 1][i]
      BY <2>1 DEF Loads
    <2> QED BY <2>1, <2>2 DEF Loads
  <1>2. Tokens(less) \subseteq Tokens(load)
    <2> SUFFICES ASSUME NEW t \in Tokens(less) PROVE t \in Tokens(load)
      OBVIOUS
    <2>1. PICK i \in 0 .. MaxAttempts : t \in {<<i, j, s>> : j \in 1 .. less[i], s \in 1 .. Worth(i)}
      BY DEF Tokens
    <2>2. PICK j \in 1 .. less[i], s \in 1 .. Worth(i) : t = <<i, j, s>>
      BY <2>1
    <2>3. j \in 1 .. load[i]
      BY <1>1, <2>2 DEF Loads
    <2> QED BY <2>2, <2>3 DEF Tokens
  <1>3. IsFiniteSet(Tokens(less))
    BY <1>2, FS_Subset
  <1> HIDE DEF less
  <1>4. Cardinality(Tokens(load)) = Cardinality(Tokens(less)) + Worth(n)
    BY <1>1, <1>3, LoadGrows
  <1> QED BY <1>1, <1>3, <1>4 DEF less

(* The copies of m in the broker, as a load.                                      *)
LEMMA LoadType ==
  ASSUME TypeOK, NEW m \in Messages
  PROVE  /\ Load(m) \in Loads
         /\ \A n \in 0 .. MaxAttempts : <<m, n>> \in Copies /\ Load(m)[n] = ready[<<m, n>>] + waiting[<<m, n>>]
  BY DEF TypeOK, Loads, Load

(* A copy put into the broker adds its worth to its message, and to no other.     *)
LEMMA Put ==
  ASSUME TypeOK, NEW c \in Copies, NEW m \in Messages, IsFiniteSet(Tokens(Load(m))),
         \/ ready' = Add(ready, c) /\ waiting' = waiting
         \/ waiting' = Add(waiting, c) /\ ready' = ready
  PROVE  /\ IsFiniteSet(Tokens(Load(m)'))
         /\ Weight(m)' = Weight(m) + (IF Msg(c) = m THEN Worth(Attempts(c)) ELSE 0)
  <1>1. /\ Load(m) \in Loads /\ c = <<Msg(c), Attempts(c)>> /\ Attempts(c) \in 0 .. MaxAttempts
        /\ \A n \in 0 .. MaxAttempts : <<m, n>> \in Copies
    BY LoadType, Typing
  <1>2. Weight(m) \in Nat
    BY FS_CardinalityType DEF Weight
  <1>3. CASE Msg(c) = m
    <2> DEFINE n == Attempts(c)
    <2>1. ASSUME NEW i \in 0 .. MaxAttempts
          PROVE  Load(m)'[i] = [Load(m) EXCEPT ![n] = @ + 1][i]
      <3>1. <<m, i>> \in Copies /\ (i = n <=> <<m, i>> = c)
        BY <1>1, <1>3
      <3>2. /\ Load(m)'[i] = ready'[<<m, i>>] + waiting'[<<m, i>>]
            /\ Load(m)[i] = ready[<<m, i>>] + waiting[<<m, i>>] /\ Load(m)[i] \in Nat
        BY LoadType DEF Load, Loads
      <3>3. ready[<<m, i>>] \in Nat /\ waiting[<<m, i>>] \in Nat
        BY <3>1 DEF TypeOK
      <3>4. Load(m)'[i] = IF i = n THEN Load(m)[i] + 1 ELSE Load(m)[i]
        BY <3>1, <3>2, <3>3 DEF TypeOK, Add
      <3> QED BY <1>1, <3>4 DEF Loads
    <2>2. Load(m)' = [Load(m) EXCEPT ![n] = @ + 1]
      BY <2>1 DEF Load
    <2> QED BY <1>1, <1>3, <2>2, LoadGrows DEF Weight
  <1>4. CASE Msg(c) # m
    <2>1. \A i \in 0 .. MaxAttempts : ready'[<<m, i>>] = ready[<<m, i>>] /\ waiting'[<<m, i>>] = waiting[<<m, i>>]
      <3> SUFFICES ASSUME NEW i \in 0 .. MaxAttempts
                   PROVE  ready'[<<m, i>>] = ready[<<m, i>>] /\ waiting'[<<m, i>>] = waiting[<<m, i>>]
        OBVIOUS
      <3>1. <<m, i>> \in Copies /\ <<m, i>> # c
        BY <1>1, <1>4
      <3> QED BY <3>1 DEF TypeOK, Add
    <2>2. Load(m)' = Load(m)
      BY <2>1 DEF Load
    <2> QED BY <1>2, <1>4, <2>2 DEF Weight
  <1> QED BY <1>3, <1>4

(* A copy taken from the broker takes its worth along.                            *)
LEMMA Taken ==
  ASSUME TypeOK, NEW c \in Copies, NEW m \in Messages, IsFiniteSet(Tokens(Load(m))),
         \/ ready[c] > 0 /\ ready' = Remove(ready, c) /\ waiting' = waiting
         \/ waiting[c] > 0 /\ waiting' = Remove(waiting, c) /\ ready' = ready
  PROVE  /\ IsFiniteSet(Tokens(Load(m)'))
         /\ Weight(m) = Weight(m)' + (IF Msg(c) = m THEN Worth(Attempts(c)) ELSE 0)
  <1>1. /\ Load(m) \in Loads /\ c = <<Msg(c), Attempts(c)>> /\ Attempts(c) \in 0 .. MaxAttempts
        /\ \A n \in 0 .. MaxAttempts : <<m, n>> \in Copies
    BY LoadType, Typing
  <1>2. Weight(m) \in Nat
    BY FS_CardinalityType DEF Weight
  <1>3. CASE Msg(c) = m
    <2> DEFINE n == Attempts(c)
    <2>1. ASSUME NEW i \in 0 .. MaxAttempts
          PROVE  Load(m)'[i] = [Load(m) EXCEPT ![n] = @ - 1][i]
      <3>1. <<m, i>> \in Copies /\ (i = n <=> <<m, i>> = c)
        BY <1>1, <1>3
      <3>2. /\ Load(m)'[i] = ready'[<<m, i>>] + waiting'[<<m, i>>]
            /\ Load(m)[i] = ready[<<m, i>>] + waiting[<<m, i>>] /\ Load(m)[i] \in Nat
        BY LoadType DEF Load, Loads
      <3>3. ready[<<m, i>>] \in Nat /\ waiting[<<m, i>>] \in Nat
        BY <3>1 DEF TypeOK
      <3>4. Load(m)'[i] = IF i = n THEN Load(m)[i] - 1 ELSE Load(m)[i]
        BY <3>1, <3>2, <3>3 DEF TypeOK, Remove
      <3> QED BY <1>1, <3>4 DEF Loads
    <2>2. Load(m)' = [Load(m) EXCEPT ![n] = @ - 1]
      BY <2>1 DEF Load
    <2>3. Load(m)[n] > 0
      BY <1>1, <1>3 DEF TypeOK, Load
    <2> QED BY <1>1, <1>3, <2>2, <2>3, LoadShrinks DEF Weight
  <1>4. CASE Msg(c) # m
    <2>1. \A i \in 0 .. MaxAttempts : ready'[<<m, i>>] = ready[<<m, i>>] /\ waiting'[<<m, i>>] = waiting[<<m, i>>]
      <3> SUFFICES ASSUME NEW i \in 0 .. MaxAttempts
                   PROVE  ready'[<<m, i>>] = ready[<<m, i>>] /\ waiting'[<<m, i>>] = waiting[<<m, i>>]
        OBVIOUS
      <3>1. <<m, i>> \in Copies /\ <<m, i>> # c
        BY <1>1, <1>4
      <3> QED BY <3>1 DEF TypeOK, Remove
    <2>2. Load(m)' = Load(m)
      BY <2>1 DEF Load
    <2> QED BY <1>2, <1>4, <2>2 DEF Weight
  <1> QED BY <1>3, <1>4

(* Nothing put or taken leaves the weight alone.                                  *)
LEMMA Kept ==
  ASSUME NEW m, UNCHANGED <<ready, waiting>>
  PROVE  Load(m)' = Load(m) /\ Weight(m)' = Weight(m)
  BY DEF Load, Weight

(* A copy delivered again is worth no more than before.                           *)
LEMMA Moved ==
  ASSUME TypeOK, NEW c \in Copies, NEW m \in Messages, IsFiniteSet(Tokens(Load(m))),
         waiting[c] > 0, waiting' = Remove(waiting, c), ready' = Add(ready, Counted(c))
  PROVE  IsFiniteSet(Tokens(Load(m)')) /\ Weight(m)' <= Weight(m)
  <1> DEFINE n == Attempts(c)
             k == Attempts(Counted(c))
             less == [Load(m) EXCEPT ![n] = @ - 1]
  <1>1. /\ Load(m) \in Loads /\ c = <<Msg(c), n>> /\ n \in 0 .. MaxAttempts /\ MaxAttempts \in Nat
        /\ \A i \in 0 .. MaxAttempts : <<m, i>> \in Copies
    BY LoadType, Typing, SettlementAssumption
  <1>2. /\ k \in 0 .. MaxAttempts /\ Counted(c) = <<Msg(c), k>> /\ Counted(c) \in Copies
        /\ k = n \/ (k = n + 1 /\ n < MaxAttempts)
    BY <1>1 DEF Counted
  <1>3. Worth(k) <= Worth(n) /\ Worth(k) \in Nat /\ Worth(n) \in Nat
    BY <1>1, <1>2, WorthIsNat DEF Worth
  <1>4. Weight(m) \in Nat
    BY FS_CardinalityType DEF Weight
  <1>5. ASSUME NEW i \in 0 .. MaxAttempts
        PROVE  /\ ready[<<m, i>>] \in Nat /\ waiting[<<m, i>>] \in Nat
               /\ Load(m)'[i] = ready'[<<m, i>>] + waiting'[<<m, i>>]
               /\ Load(m)[i] = ready[<<m, i>>] + waiting[<<m, i>>]
               /\ ready'[<<m, i>>] = IF <<m, i>> = Counted(c) THEN ready[<<m, i>>] + 1 ELSE ready[<<m, i>>]
               /\ waiting'[<<m, i>>] = IF <<m, i>> = c THEN waiting[<<m, i>>] - 1 ELSE waiting[<<m, i>>]
    BY <1>1, <1>2 DEF TypeOK, Load, Add, Remove
  <1>6. CASE Msg(c) = m
    <2>1. Load(m)[n] > 0
      BY <1>1, <1>5, <1>6
    <2>2. /\ less \in Loads /\ IsFiniteSet(Tokens(less))
          /\ Weight(m) = Cardinality(Tokens(less)) + Worth(n)
      BY <1>1, <2>1, LoadShrinks DEF Weight
    <2>3. ASSUME NEW i \in 0 .. MaxAttempts PROVE Load(m)'[i] = [less EXCEPT ![k] = @ + 1][i]
      <3>1. (i = n <=> <<m, i>> = c) /\ (i = k <=> <<m, i>> = Counted(c))
        BY <1>1, <1>2, <1>6
      <3>2. less[i] = IF i = n THEN Load(m)[i] - 1 ELSE Load(m)[i]
        BY <1>1 DEF Loads
      <3>3. [less EXCEPT ![k] = @ + 1][i] = IF i = k THEN less[i] + 1 ELSE less[i]
        BY <1>2, <2>2 DEF Loads
      <3> HIDE DEF less, n, k
      <3>4. /\ ready[<<m, i>>] \in Nat /\ waiting[<<m, i>>] \in Nat
            /\ Load(m)[i] = ready[<<m, i>>] + waiting[<<m, i>>]
            /\ Load(m)'[i] = (IF i = k THEN ready[<<m, i>>] + 1 ELSE ready[<<m, i>>])
                            + (IF i = n THEN waiting[<<m, i>>] - 1 ELSE waiting[<<m, i>>])
        BY <1>5, <3>1
      <3>5. /\ i = k /\ i = n => Load(m)'[i] = (Load(m)[i] - 1) + 1
            /\ i = k /\ i # n => Load(m)'[i] = Load(m)[i] + 1
            /\ i # k /\ i = n => Load(m)'[i] = Load(m)[i] - 1
            /\ i # k /\ i # n => Load(m)'[i] = Load(m)[i]
        BY <3>4
      <3> QED BY <3>2, <3>3, <3>5
    <2>4. Load(m)' = [less EXCEPT ![k] = @ + 1]
      <3> HIDE DEF less
      <3> QED BY <2>2, <2>3 DEF Load, Loads
    <2>5. Cardinality(Tokens(less)) \in Nat
      BY <2>2, FS_CardinalityType
    <2>6. IsFiniteSet(Tokens(Load(m)')) /\ Weight(m)' = Cardinality(Tokens(less)) + Worth(k)
      <3> HIDE DEF less
      <3> QED BY <1>2, <2>2, <2>4, LoadGrows DEF Weight
    <2> QED BY <1>3, <2>2, <2>5, <2>6
  <1>7. CASE Msg(c) # m
    <2>1. \A i \in 0 .. MaxAttempts : ready'[<<m, i>>] = ready[<<m, i>>] /\ waiting'[<<m, i>>] = waiting[<<m, i>>]
      BY <1>1, <1>2, <1>5, <1>7
    <2>2. Load(m)' = Load(m)
      BY <2>1 DEF Load
    <2> QED BY <1>4, <2>2 DEF Weight
  <1> QED BY <1>6, <1>7

(* The quantities of the balance are numbers, no copy is worth more than a budget, *)
(* and every failure, crash or lapse pays one.                                    *)
LEMMA Amounts ==
  ASSUME TypeOK, NEW m \in Messages, IsFiniteSet(Tokens(Load(m)))
  PROVE  /\ runs[m] \in Nat /\ Weight(m) \in Nat /\ Budget \in Nat /\ MaxAttempts \in Nat \ {0}
         /\ InHand(m) \in 0 .. MaxAttempts
         /\ \A c \in Copies : Worth(Attempts(c)) \in 1 .. MaxAttempts
  <1>1. runs[m] \in Nat /\ Weight(m) \in Nat /\ MaxAttempts \in Nat \ {0}
    BY FS_CardinalityType, CapIsNat, SettlementAssumption DEF TypeOK, Weight
  <1>2. Budget \in Nat
    <2>1. 1 + nfail + ncrash + nlapse \in Nat
      BY SettlementAssumption DEF TypeOK
    <2> QED BY <1>1, <2>1 DEF Budget
  <1>3. \A c \in Copies : Worth(Attempts(c)) \in 1 .. MaxAttempts
    BY Typing, WorthIsNat
  <1>4. InHand(m) \in 0 .. MaxAttempts
    BY <1>1, <1>3, Typing DEF InHand
  <1> QED BY <1>1, <1>2, <1>3, <1>4

LEMMA FaultsPay ==
  ASSUME TypeOK, TypeOK'
  PROVE  /\ UNCHANGED bounds => Budget' = Budget
         /\ (nfail + ncrash + nlapse)' = nfail + ncrash + nlapse + 1 => Budget' = Budget + MaxAttempts
  <1> DEFINE k == nfail + ncrash + nlapse
  <1>1. k \in Nat /\ MaxAttempts \in Nat
    BY SettlementAssumption DEF TypeOK
  <1>2. Budget = MaxAttempts * (1 + k)
    BY SettlementAssumption DEF Budget, TypeOK
  <1>3. ASSUME k' = k + 1 PROVE Budget' = Budget + MaxAttempts
    <2>1. Budget' = MaxAttempts * (1 + k')
      BY SettlementAssumption DEF Budget, TypeOK
    <2>2. MaxAttempts * (1 + (k + 1)) = MaxAttempts * (1 + k) + MaxAttempts
      <3> HIDE DEF k
      <3> QED BY <1>1
    <2> QED BY <1>2, <1>3, <2>1, <2>2
  <1> QED BY <1>3 DEF Budget

(* Only the handler's route runs it, and the routes of other classes go elsewhere. *)
LEMMA OkRoutesKept ==
  ASSUME TypeOK, TypeOK', RunInv, Step, UNCHANGED conf
  PROVE  /\ pc' \in {"release", "native", "abandon"} => Class[Msg(cur')] # "ok"
         /\ \A m \in Messages : runs'[m] > 0 => Class[m] = "ok"
  <1> USE Typing, CapIsNat, SettlementAssumption DEF TypeOK, RunInv
  <1>1. CASE Pop
    BY <1>1 DEF Pop, Remove
  <1>2. CASE Route
    <2>1. cur # None /\ Msg(cur) \in Messages /\ Class[Msg(cur)] \in Classes /\ cur' = cur /\ pc' = RouteOf(Msg(cur))
      BY <1>2 DEF Route
    <2>2. Class[Msg(cur)] = "ok" <=> pc' = "handle"
      BY <2>1 DEF RouteOf, RouteUnknown, RouteGated, RoutePoison, Classes
    <2> QED BY <2>1, <2>2, <1>2 DEF Route
  <1>3. CASE RetryOrDeadLetter
    BY <1>3 DEF RetryOrDeadLetter
  <1>4. CASE AckHandled
    BY <1>4 DEF AckHandled, AckOk, AckFails, LeaveUnsettled, Finish, Fail
  <1>5. CASE AckDropped
    BY <1>5 DEF AckDropped, AckOk, AckFails, LeaveUnsettled, Finish, Fail
  <1>6. CASE ReleaseNatively
    BY <1>6 DEF ReleaseNatively, Finish
  <1>7. CASE ReleaseByCopy
    BY <1>7 DEF ReleaseByCopy
  <1>8. CASE ReleaseAck
    BY <1>8 DEF ReleaseAck, AckOk, AckFails, LeaveUnsettled, Finish, Fail
  <1>9. CASE ReleaseFails
    BY <1>9 DEF ReleaseFails, LeaveUnsettled, Finish, Fail
  <1>10. CASE Rewind
    BY <1>10 DEF Rewind, LeaveUnsettled, Finish, Fail
  <1>11. CASE Abandon
    BY <1>11 DEF Abandon, LeaveUnsettled, Finish, Fail
  <1>12. CASE SettleNative
    BY <1>12 DEF SettleNative, LeaveUnsettled, Finish, Fail
  <1>13. CASE WriteDeadLetterGuarded
    BY <1>13 DEF WriteDeadLetterGuarded
  <1>14. CASE WriteDeadLetter
    BY <1>14 DEF WriteDeadLetter
  <1>15. CASE DeadLetterAck
    BY <1>15 DEF DeadLetterAck, Fail
  <1>16. CASE NotifyObserver
    BY <1>16 DEF NotifyObserver, Finish
  <1>17. CASE DeadLetterFails
    BY <1>17 DEF DeadLetterFails, AfterFailedWrite, LeaveUnsettled, Finish, Fail
  <1>18. CASE HandlerReturns
    BY <1>18 DEF HandlerReturns
  <1>19. CASE HandlerRaises
    BY <1>19 DEF HandlerRaises
  <1>20. CASE Redeliver
    BY <1>20 DEF Redeliver
  <1>21. CASE NativeRedrive
    BY <1>21 DEF NativeRedrive
  <1>22. CASE Lapse
    BY <1>22 DEF Lapse
  <1>23. CASE Crash
    BY <1>23 DEF Crash, LeaveUnsettled, Finish
  <1>24. CASE Restart
    BY <1>24 DEF Restart
  <1> QED
    BY <1>1, <1>2, <1>3, <1>4, <1>5, <1>6, <1>7, <1>8, <1>9, <1>10, <1>11, <1>12, <1>13, <1>14, <1>15, <1>16, <1>17, <1>18, <1>19, <1>20, <1>21, <1>22, <1>23, <1>24
       DEF Step, Dispatch, Handler, Broker

(* Four ways a step keeps the balance of a message.  A delivery left unsettled     *)
(* comes back with at most a budget, which the failure or crash pays.             *)
LEMMA LeftUnsettled ==
  ASSUME TypeOK, TypeOK', SafeToAck, NEW m \in Messages, Balanced(m), NEW q, LeaveUnsettled(q),
         UNCHANGED <<ready, runs>>, (nfail + ncrash + nlapse)' = nfail + ncrash + nlapse + 1
  PROVE  Balanced(m)'
  <1>1. InHand(m)' = 0 /\ Budget' = Budget + MaxAttempts
    BY FaultsPay DEF LeaveUnsettled, Finish, InHand
  <1>2. IsFiniteSet(Tokens(Load(m)'))
        /\ (Weight(m)' \in Nat /\ Weight(m)' <= Weight(m) + MaxAttempts)
    <2>1. CASE owned
      <3>1. cur \in Copies /\ waiting' = Add(waiting, cur)
        BY <2>1, Typing DEF SafeToAck, LeaveUnsettled
      <3> QED BY <3>1, Put, Amounts DEF Balanced
    <2>2. CASE ~owned
      BY <2>2, Kept, Amounts DEF LeaveUnsettled, Balanced
    <2> QED BY <2>1, <2>2
  <1>3. runs' = runs
    OBVIOUS
  <1> QED BY <1>1, <1>2, <1>3, Amounts DEF Balanced

(* What is in hand goes on, or is given up.                                        *)
LEMMA GoesOn ==
  ASSUME TypeOK, TypeOK', NEW m \in Messages, Balanced(m),
         UNCHANGED <<ready, waiting>>, UNCHANGED bounds,
         runs'[m] + InHand(m)' <= runs[m] + InHand(m), InHand(m)' \in Nat
  PROVE  Balanced(m)'
  <1>1. Budget' = Budget /\ Load(m)' = Load(m) /\ Weight(m)' = Weight(m) /\ runs'[m] \in Nat
    BY FaultsPay, Kept, CapIsNat DEF TypeOK
  <1> QED BY <1>1, Amounts DEF Balanced

(* A copy put back carries on what was in hand,                                    *)
LEMMA PutBack ==
  ASSUME TypeOK, TypeOK', NEW m \in Messages, Balanced(m), UNCHANGED bounds, runs' = runs,
         NEW c \in Copies, ready' = Add(ready, c), waiting' = waiting,
         InHand(m)' = 0, Msg(c) = m => Worth(Attempts(c)) <= InHand(m)
  PROVE  Balanced(m)'
  <1>1. Budget' = Budget
    BY FaultsPay
  <1>2. /\ IsFiniteSet(Tokens(Load(m)'))
        /\ Weight(m)' = Weight(m) + (IF Msg(c) = m THEN Worth(Attempts(c)) ELSE 0)
    BY Put DEF Balanced
  <1> QED BY <1>1, <1>2, Amounts DEF Balanced

(* or a fault pays for it.                                                         *)
LEMMA PaidFor ==
  ASSUME TypeOK, TypeOK', NEW m \in Messages, Balanced(m), runs' = runs,
         (nfail + ncrash + nlapse)' = nfail + ncrash + nlapse + 1,
         NEW c \in Copies, \/ ready' = Add(ready, c) /\ waiting' = waiting
                           \/ waiting' = Add(waiting, c) /\ ready' = ready,
         InHand(m)' \in Nat, InHand(m)' <= InHand(m)
  PROVE  Balanced(m)'
  <1>1. Budget' = Budget + MaxAttempts
    BY FaultsPay
  <1>2. /\ IsFiniteSet(Tokens(Load(m)'))
        /\ Weight(m)' = Weight(m) + (IF Msg(c) = m THEN Worth(Attempts(c)) ELSE 0)
    BY Put DEF Balanced
  <1> QED BY <1>1, <1>2, Amounts DEF Balanced

(* Every step keeps the balance of a message with a handler.                       *)
LEMMA BalanceKept ==
  ASSUME TypeOK, TypeOK', SafeToAck, RunInv, Step, UNCHANGED conf,
         NEW m \in Messages, Class[m] = "ok", Transport # "kafka0", Balanced(m)
  PROVE  Balanced(m)'
  <1>0. /\ runs[m] \in Nat /\ Weight(m) \in Nat /\ Budget \in Nat /\ MaxAttempts \in Nat \ {0}
        /\ InHand(m) \in 0 .. MaxAttempts
        /\ \A c \in Copies : Worth(Attempts(c)) \in 1 .. MaxAttempts
        /\ cur # None => cur \in Copies
        /\ Fail => (nfail + ncrash + nlapse)' = nfail + ncrash + nlapse + 1
    <2>1. Fail => (nfail + ncrash + nlapse)' = nfail + ncrash + nlapse + 1
      BY SettlementAssumption DEF Fail, TypeOK
    <2> QED BY <2>1, Amounts, Typing DEF Balanced
  <1>1. CASE Pop
    <2>1. PICK c \in Copies : ready[c] > 0 /\ ready' = Remove(ready, c) /\ cur' = c
      BY <1>1 DEF Pop
    <2>2. /\ IsFiniteSet(Tokens(Load(m)'))
          /\ Weight(m) = Weight(m)' + (IF Msg(c) = m THEN Worth(Attempts(c)) ELSE 0)
      BY <1>1, <2>1, Taken DEF Pop, Balanced
    <2>3. Weight(m)' \in Nat
      BY <2>2, FS_CardinalityType DEF Weight
    <2>4. InHand(m) = 0 /\ InHand(m)' = IF Msg(c) = m THEN Worth(Attempts(c)) ELSE 0
      BY <1>1, <2>1 DEF Pop, TypeOK, InHand
    <2>5. Budget' = Budget /\ runs' = runs
      BY <1>1, FaultsPay DEF Pop
    <2> QED BY <1>0, <2>2, <2>3, <2>4, <2>5 DEF Balanced
  <1>2. CASE Route
    <2>1. cur # None /\ cur' = cur /\ pc = "route" /\ UNCHANGED <<ready, waiting>> /\ UNCHANGED bounds
      BY <1>2 DEF Route, TypeOK
    <2>2. CASE Msg(cur) = m
      <3>1. pc' = "handle" /\ (runs'[m] = runs[m] \/ runs'[m] = runs[m] + 1)
        BY <1>2, <2>2 DEF Route, RouteOf, TypeOK
      <3>2. InHand(m) = Worth(Attempts(cur)) /\ InHand(m)' = Worth(Attempts(cur)) - 1
        BY <2>1, <2>2, <3>1 DEF InHand
      <3> QED BY <1>0, <2>1, <3>1, <3>2, GoesOn
    <2>3. CASE Msg(cur) # m
      <3>1. runs'[m] = runs[m] /\ InHand(m) = 0 /\ InHand(m)' = 0
        BY <1>2, <2>1, <2>3 DEF Route, TypeOK, InHand
      <3> QED BY <1>0, <2>1, <3>1, GoesOn
    <2> QED BY <2>2, <2>3
  <1>3. CASE RetryOrDeadLetter
    BY <1>0, <1>3, GoesOn DEF RetryOrDeadLetter, InHand
  <1>4. CASE AckHandled
    <2>1. CASE AckOk
      BY <1>0, <1>4, <2>1, GoesOn DEF AckHandled, AckOk, Finish, InHand
    <2>2. CASE AckFails
      BY <1>0, <1>4, <2>2, LeftUnsettled DEF AckHandled, AckFails
    <2> QED BY <1>4, <2>1, <2>2 DEF AckHandled
  <1>5. CASE AckDropped
    <2>1. CASE AckOk
      BY <1>0, <1>5, <2>1, GoesOn DEF AckDropped, AckOk, Finish, InHand
    <2>2. CASE AckFails
      BY <1>0, <1>5, <2>2, LeftUnsettled DEF AckDropped, AckFails
    <2> QED BY <1>5, <2>1, <2>2 DEF AckDropped
  <1>6. CASE ReleaseNatively
    <2>1. cur # None /\ InHand(m)' = 0 /\ runs' = runs /\ UNCHANGED bounds /\ waiting' = waiting
      BY <1>6 DEF ReleaseNatively, Finish, InHand, TypeOK
    <2>2. CASE ~owned
      BY <1>0, <1>6, <2>1, <2>2, GoesOn DEF ReleaseNatively
    <2>3. CASE owned
      <3>1. PICK c \in Copies :
              /\ ready' = Add(ready, c) /\ Msg(c) = Msg(cur)
              /\ pc = "republish" => Attempts(c) = Attempts(cur) + 1 /\ Attempts(cur) + 1 < MaxAttempts
        <4>1. /\ Counted(cur) \in Copies /\ Msg(Counted(cur)) = Msg(cur)
              /\ ReleasedCopy \in Copies /\ Msg(ReleasedCopy) = Msg(cur)
              /\ pc = "republish" => Attempts(cur) + 1 < MaxAttempts
          BY <2>1, CopiesBack DEF SafeToAck
        <4>2. pc = "republish" => Attempts(ReleasedCopy) = Attempts(cur) + 1
          BY DEF ReleasedCopy
        <4>3. pc = "republish" /\ Transport = "sqs" => Attempts(Counted(cur)) = Attempts(cur) + 1
          BY <1>0, <2>1, <4>1, Typing DEF Counted
        <4> QED BY <1>6, <2>3, <4>1, <4>2, <4>3 DEF ReleaseNatively
      <3>2. Msg(c) = m => Worth(Attempts(c)) <= InHand(m)
        <4>1. Msg(cur) = m => pc = "republish"
          BY <1>6 DEF ReleaseNatively, RunInv
        <4>2. Attempts(cur) \in 0 .. MaxAttempts
          BY <2>1, Typing
        <4> QED BY <1>0, <2>1, <3>1, <4>1, <4>2 DEF InHand, Worth
      <3> QED BY <2>1, <3>1, <3>2, PutBack
    <2> QED BY <2>2, <2>3
  <1>7. CASE ReleaseByCopy
    <2>1. cur # None /\ InHand(m)' = 0 /\ runs' = runs /\ UNCHANGED bounds /\ waiting' = waiting
      BY <1>7 DEF ReleaseByCopy, InHand, TypeOK
    <2>2. /\ ReleasedCopy \in Copies /\ Msg(ReleasedCopy) = Msg(cur)
          /\ pc = "republish" => Attempts(cur) + 1 < MaxAttempts
      BY <2>1, CopiesBack DEF SafeToAck
    <2>3. Msg(cur) = m => pc = "republish" /\ Attempts(ReleasedCopy) = Attempts(cur) + 1
      BY <1>7 DEF ReleaseByCopy, RunInv, ReleasedCopy
    <2>4. Msg(cur) = m => Worth(Attempts(ReleasedCopy)) <= InHand(m)
      BY <1>0, <2>1, <2>2, <2>3, Typing DEF InHand, Worth
    <2> QED BY <1>7, <2>1, <2>2, <2>4, PutBack DEF ReleaseByCopy
  <1>8. CASE ReleaseAck
    <2>1. CASE AckOk
      BY <1>0, <1>8, <2>1, GoesOn DEF ReleaseAck, AckOk, Finish, InHand
    <2>2. CASE AckFails
      BY <1>0, <1>8, <2>2, LeftUnsettled DEF ReleaseAck, AckFails
    <2> QED BY <1>8, <2>1, <2>2 DEF ReleaseAck
  <1>9. CASE ReleaseFails
    <2>1. Fail /\ UNCHANGED <<ready, runs>>
      BY <1>9 DEF ReleaseFails
    <2>2. CASE Rewinder
      <3>1. UNCHANGED <<waiting, cur>> /\ pc' = "rewind" /\ cur # None
        BY <1>9, <2>2 DEF ReleaseFails, TypeOK
      <3>2. InHand(m)' \in 0 .. MaxAttempts
        BY <1>0, <3>1 DEF InHand
      <3>3. Budget' = Budget + MaxAttempts /\ Load(m)' = Load(m) /\ Weight(m)' = Weight(m)
        BY <1>0, <2>1, <3>1, FaultsPay, Kept
      <3> QED BY <1>0, <2>1, <3>2, <3>3 DEF Balanced
    <2>3. CASE ~Rewinder
      BY <1>0, <1>9, <2>1, <2>3, LeftUnsettled DEF ReleaseFails
    <2> QED BY <2>2, <2>3
  <1>10. CASE Rewind
    <2>1. CASE Finish("idle") /\ ready' = Add(ready, Counted(cur)) /\ UNCHANGED <<waiting, bounds>>
      <3>1. Counted(cur) \in Copies /\ Msg(Counted(cur)) = Msg(cur) /\ cur # None
        BY <1>10, CopiesBack DEF Rewind, TypeOK
      <3>2. InHand(m)' = 0 /\ runs' = runs
        BY <1>10, <2>1 DEF Rewind, Finish, InHand
      <3>3. Msg(cur) = m => Worth(Attempts(Counted(cur))) <= InHand(m)
        BY <1>0, <1>10, <3>1 DEF Rewind, InHand
      <3> QED BY <2>1, <3>1, <3>2, <3>3, PutBack
    <2>2. CASE Fail /\ LeaveUnsettled("idle") /\ UNCHANGED ready
      BY <1>0, <1>10, <2>2, LeftUnsettled DEF Rewind
    <2> QED BY <1>10, <2>1, <2>2 DEF Rewind
  <1>11. CASE Abandon
    <2>1. CASE Finish("idle") /\ ready' = Add(ready, Counted(cur)) /\ UNCHANGED <<waiting, bounds>>
      <3>1. Counted(cur) \in Copies /\ Msg(Counted(cur)) = Msg(cur) /\ cur # None
        BY <1>11, CopiesBack DEF Abandon, TypeOK
      <3>2. InHand(m)' = 0 /\ runs' = runs
        BY <1>11, <2>1 DEF Abandon, Finish, InHand
      <3>3. Msg(cur) = m => Worth(Attempts(Counted(cur))) <= InHand(m)
        BY <1>11 DEF Abandon, RunInv
      <3> QED BY <2>1, <3>1, <3>2, <3>3, PutBack
    <2>2. CASE Fail /\ LeaveUnsettled("idle") /\ UNCHANGED ready
      BY <1>0, <1>11, <2>2, LeftUnsettled DEF Abandon
    <2> QED BY <1>11, <2>1, <2>2 DEF Abandon
  <1>12. CASE SettleNative
    <2>1. cur # None /\ InHand(m) = 0 /\ Msg(cur) # m
      BY <1>12 DEF SettleNative, TypeOK, InHand, RunInv
    <2>2. CASE Finish("idle") /\ UNCHANGED <<waiting, bounds>>
      BY <1>0, <1>12, <2>2, GoesOn DEF SettleNative, Finish, InHand
    <2>3. CASE LeaveUnsettled("idle") /\ UNCHANGED bounds
      <3>1. Load(m)' = Load(m) /\ Weight(m)' = Weight(m)
        <4>1. \A i \in 0 .. MaxAttempts : waiting'[<<m, i>>] = waiting[<<m, i>>]
          BY <2>1, <2>3 DEF LeaveUnsettled, Add, TypeOK
        <4>2. Load(m)' = Load(m)
          BY <1>12, <4>1 DEF SettleNative, Load
        <4> QED BY <4>2 DEF Weight
      <3>2. InHand(m)' = 0 /\ runs' = runs /\ Budget' = Budget
        BY <1>12, <2>3, FaultsPay DEF SettleNative, LeaveUnsettled, Finish, InHand
      <3> QED BY <1>0, <2>1, <3>1, <3>2 DEF Balanced
    <2>4. CASE Fail /\ LeaveUnsettled("idle")
      BY <1>0, <1>12, <2>4, LeftUnsettled DEF SettleNative
    <2> QED BY <1>12, <2>2, <2>3, <2>4 DEF SettleNative
  <1>13. CASE WriteDeadLetterGuarded
    BY <1>0, <1>13, GoesOn DEF WriteDeadLetterGuarded, InHand
  <1>14. CASE WriteDeadLetter
    BY <1>0, <1>14, GoesOn DEF WriteDeadLetter, InHand
  <1>15. CASE DeadLetterAck
    <2>1. cur # None /\ cur \in Copies /\ InHand(m)' = 0 /\ runs' = runs /\ ready' = ready
      BY <1>0, <1>15 DEF DeadLetterAck, TypeOK, InHand
    <2>2. CASE UNCHANGED <<waiting, bounds>>
      BY <1>0, <2>1, <2>2, GoesOn
    <2>3. CASE Fail /\ waiting' = Add(waiting, cur)
      BY <1>0, <2>1, <2>3, PaidFor
    <2> QED BY <1>15, <2>2, <2>3 DEF DeadLetterAck
  <1>16. CASE NotifyObserver
    BY <1>0, <1>16, GoesOn DEF NotifyObserver, Finish, InHand
  <1>17. CASE DeadLetterFails
    <2>1. CASE LeaveUnsettled("idle") \/ LeaveUnsettled("dead")
      BY <1>0, <1>17, <2>1, LeftUnsettled DEF DeadLetterFails
    <2>2. CASE pc' = AfterFailedWrite(Msg(cur)) /\ UNCHANGED <<waiting, cur, owned>>
      <3>1. UNCHANGED <<ready, runs>> /\ cur # None /\ pc = "dlq" /\ Fail
        BY <1>17 DEF DeadLetterFails, TypeOK
      <3>2. InHand(m)' \in 0 .. MaxAttempts
        BY <1>0, <2>2, <3>1, SettlementAssumption DEF InHand
      <3>3. Budget' = Budget + MaxAttempts /\ Load(m)' = Load(m) /\ Weight(m)' = Weight(m)
        BY <1>0, <2>2, <3>1, FaultsPay, Kept
      <3> QED BY <1>0, <3>1, <3>2, <3>3 DEF Balanced
    <2> QED BY <1>17, <2>1, <2>2 DEF DeadLetterFails
  <1>18. CASE HandlerReturns
    BY <1>0, <1>18, GoesOn DEF HandlerReturns, InHand
  <1>19. CASE HandlerRaises
    BY <1>0, <1>19, GoesOn DEF HandlerRaises, InHand
  <1>20. CASE Redeliver
    <2>1. PICK c \in Copies : waiting[c] > 0 /\ waiting' = Remove(waiting, c) /\ ready' = Add(ready, Counted(c))
      BY <1>20 DEF Redeliver
    <2>2. IsFiniteSet(Tokens(Load(m)')) /\ Weight(m)' <= Weight(m)
      BY <2>1, Moved DEF Balanced
    <2>3. Weight(m)' \in Nat
      BY <2>2, FS_CardinalityType DEF Weight
    <2>4. InHand(m)' = InHand(m) /\ runs' = runs /\ Budget' = Budget
      BY <1>20, FaultsPay DEF Redeliver, InHand
    <2> QED BY <1>0, <2>2, <2>3, <2>4 DEF Balanced
  <1>21. CASE NativeRedrive
    <2>1. PICK c \in Copies : ready[c] > 0 /\ ready' = Remove(ready, c)
      BY <1>21 DEF NativeRedrive
    <2>2. /\ IsFiniteSet(Tokens(Load(m)'))
          /\ Weight(m) = Weight(m)' + (IF Msg(c) = m THEN Worth(Attempts(c)) ELSE 0)
      BY <1>21, <2>1, Taken DEF NativeRedrive, Balanced
    <2>3. Weight(m)' \in Nat
      BY <2>2, FS_CardinalityType DEF Weight
    <2>4. InHand(m)' = InHand(m) /\ runs' = runs /\ Budget' = Budget
      BY <1>21, FaultsPay DEF NativeRedrive, InHand
    <2> QED BY <1>0, <2>2, <2>3, <2>4 DEF Balanced
  <1>22. CASE Lapse
    <2>1. cur \in Copies /\ ready' = Add(ready, cur) /\ waiting' = waiting /\ runs' = runs
      BY <1>22, Typing DEF Lapse, SafeToAck
    <2>2. InHand(m)' = InHand(m)
      BY <1>22 DEF Lapse, InHand
    <2>3. (nfail + ncrash + nlapse)' = nfail + ncrash + nlapse + 1
      BY <1>22, SettlementAssumption DEF Lapse, TypeOK
    <2> QED BY <1>0, <2>1, <2>2, <2>3, PaidFor
  <1>23. CASE Crash
    <2>1. (nfail + ncrash + nlapse)' = nfail + ncrash + nlapse + 1
      BY <1>23, SettlementAssumption DEF Crash, TypeOK
    <2> QED BY <1>23, <2>1, LeftUnsettled DEF Crash
  <1>24. CASE Restart
    BY <1>0, <1>24, GoesOn DEF Restart, InHand
  <1> QED
    BY <1>1, <1>2, <1>3, <1>4, <1>5, <1>6, <1>7, <1>8, <1>9, <1>10, <1>11, <1>12, <1>13, <1>14, <1>15, <1>16, <1>17, <1>18, <1>19, <1>20, <1>21, <1>22, <1>23, <1>24
       DEF Step, Dispatch, Handler, Broker

(* At first a message is one copy that has not been attempted.                     *)
LEMMA InitBalance == Init => RunInv
  <1> SUFFICES ASSUME Init PROVE RunInv
    OBVIOUS
  <1> USE SettlementAssumption
  <1>1. ASSUME NEW m \in Messages PROVE Balanced(m)
    <2> DEFINE none == [n \in 0 .. MaxAttempts |-> 0]
               one == [none EXCEPT ![0] = @ + 1]
    <2>1. none \in Loads /\ 0 \in 0 .. MaxAttempts /\ Worth(0) = MaxAttempts
      BY DEF Loads, Worth
    <2>2. Tokens(none) = {}
      <3> SUFFICES ASSUME NEW t \in Tokens(none) PROVE FALSE
        OBVIOUS
      <3>1. PICK i \in 0 .. MaxAttempts : t \in {<<i, j, s>> : j \in 1 .. none[i], s \in 1 .. Worth(i)}
        BY DEF Tokens
      <3>2. PICK j \in 1 .. none[i] : TRUE
        BY <3>1
      <3> QED BY <3>2
    <2>3. Load(m) = one
      <3>1. ASSUME NEW n \in 0 .. MaxAttempts PROVE ready[<<m, n>>] + waiting[<<m, n>>] = one[n]
        <4>1. <<m, n>> \in Copies /\ Attempts(<<m, n>>) = n
          OBVIOUS
        <4>2. ready[<<m, n>>] = (IF n = 0 THEN 1 ELSE 0) /\ waiting[<<m, n>>] = 0
          BY <4>1 DEF Init
        <4> QED BY <4>2
      <3>2. Load(m) = [n \in 0 .. MaxAttempts |-> one[n]]
        BY <3>1 DEF Load
      <3> QED BY <3>2
    <2> HIDE DEF none, one
    <2>4. IsFiniteSet(Tokens(Load(m))) /\ Weight(m) = MaxAttempts
      <3>1. IsFiniteSet(Tokens(none)) /\ Cardinality(Tokens(none)) = 0
        BY <2>2, FS_EmptySet
      <3>2. /\ IsFiniteSet(Tokens([none EXCEPT ![0] = @ + 1]))
            /\ Cardinality(Tokens([none EXCEPT ![0] = @ + 1])) = 0 + Worth(0)
        BY <2>1, <3>1, LoadGrows
      <3> QED BY <2>1, <2>3, <3>2 DEF one, Weight
    <2>5. runs[m] = 0 /\ InHand(m) = 0 /\ Budget = MaxAttempts
      BY DEF Init, InHand, Budget
    <2> QED BY <2>4, <2>5 DEF Balanced
  <1>2. \A m \in Messages : ~(runs[m] > 0)
    BY DEF Init
  <1>3. pc = "idle"
    BY DEF Init
  <1> QED BY <1>1, <1>2, <1>3 DEF RunInv

LEMMA NextBalance == SInv /\ SInv' /\ RunInv /\ [Next]_vars => RunInv'
  <1>1. ASSUME SInv, SInv', RunInv, Step, UNCHANGED conf PROVE RunInv'
    <2>1. TypeOK /\ TypeOK' /\ SafeToAck
      BY <1>1 DEF SInv
    <2>2. ASSUME NEW m \in Messages, Class'[m] = "ok", Transport' # "kafka0" PROVE Balanced(m)'
      <3>1. Class[m] = "ok" /\ Transport # "kafka0" /\ Balanced(m)
        BY <1>1, <2>2 DEF RunInv
      <3> QED BY <1>1, <2>1, <3>1, BalanceKept
    <2>3. /\ pc' \in {"release", "native", "abandon"} => Class[Msg(cur')] # "ok"
          /\ \A m \in Messages : runs'[m] > 0 => Class[m] = "ok"
      BY <1>1, <2>1, OkRoutesKept
    <2>4. Class' = Class
      BY <1>1
    <2> QED BY <2>2, <2>3, <2>4 DEF RunInv
  <1>2. ASSUME RunInv, UNCHANGED vars PROVE RunInv'
    <2>1. UNCHANGED <<conf, cur, pc, runs, ready, waiting, nfail, ncrash, nlapse>>
      BY <1>2 DEF vars
    <2>2. \A m \in Messages : Balanced(m) => Balanced(m)'
      <3> SUFFICES ASSUME NEW m \in Messages, Balanced(m) PROVE Balanced(m)'
        OBVIOUS
      <3>1. Load(m)' = Load(m) /\ Weight(m)' = Weight(m)
        BY <2>1, Kept
      <3>2. InHand(m)' = InHand(m) /\ Budget' = Budget /\ runs' = runs
        BY <2>1 DEF InHand, Budget
      <3> QED BY <3>1, <3>2 DEF Balanced
    <2> QED BY <1>2, <2>1, <2>2 DEF RunInv
  <1> QED BY <1>1, <1>2 DEF Next, Drained

-----------------------------------------------------------------------------
(* The theorems                                                                  *)

(* The invariant of dispatch() and its settlements (app.py): types, where each   *)
(* route may stand, and the safety properties together.                          *)
THEOREM Invariants == Spec => []SInv
  BY InitInvariant, NextInvariant, PTL DEF Spec

(* Type correctness: the state dispatch() works on keeps its types.              *)
THEOREM TypeCorrect == Spec => []TypeOK
  <1>1. SInv => TypeOK
    BY DEF SInv
  <1> QED BY <1>1, Invariants, PTL

(* app.py: "a message is acked or released, never dropped": through any failed   *)
(* broker call, crash or lapsed reservation a message is live or in an end.      *)
THEOREM NothingLost == Spec => []NoLoss
  <1>1. SInv => NoLoss
    BY DEF SInv
  <1> QED BY <1>1, Invariants, PTL

(* No sequence of failures makes _retry_or_dead_letter() or a native settle drop *)
(* a message the configuration keeps.                                            *)
THEOREM DropsPermitted == Spec => []OnlyPermittedDrops
  <1>1. SInv => OnlyPermittedDrops
    BY DEF SInv
  <1> QED BY <1>1, Invariants, PTL

(* What the gate or the decoder rejected (_settle_version_gated, _route_poison)  *)
(* reaches no handler, and is not published again while a DLQ could take it.     *)
THEOREM RejectedStays == Spec => []RejectedStaysOut
  <1>1. SInv => RejectedStaysOut
    BY DEF SInv
  <1> QED BY <1>1, Invariants, PTL

(* The observer hears of a message that is in the DLQ (_write_dead_letter), on    *)
(* Redis as long as no reservation lapsed under the worker.                       *)
THEOREM ObserverIsTruthful == Spec => []ObserverTruthful
  <1>1. SInv => ObserverTruthful
    BY DEF SInv, Told
  <1> QED BY <1>1, Invariants, PTL

(* Runs had, runs still in the broker and runs in hand stay within max_attempts   *)
(* per start and per failure, crash or lapse.                                     *)
THEOREM RunsAreBalanced == Spec => [](SInv /\ RunInv)
  <1>1. Init => SInv /\ RunInv
    BY InitInvariant, InitBalance
  <1>2. SInv /\ RunInv /\ [Next]_vars => (SInv /\ RunInv)'
    BY NextInvariant, NextBalance
  <1> QED BY <1>1, <1>2, PTL DEF Spec

(* max_attempts bounds the handler runs of a message (_retry_or_dead_letter,      *)
(* app.py): every failure, crash or lapse can at most start the count over.       *)
THEOREM RunsAreBudgeted == Spec => []RunBudget
  <1>1. SInv /\ RunInv => RunBudget
    <2> SUFFICES ASSUME TypeOK, RunInv, NEW m \in Messages, Transport # "kafka0" PROVE runs[m] <= Budget
      BY DEF SInv, RunBudget, Budget
    <2>1. CASE Class[m] = "ok"
      <3>1. Balanced(m)
        BY <2>1 DEF RunInv
      <3>2. runs[m] \in Nat /\ Weight(m) \in Nat /\ Budget \in Nat /\ InHand(m) \in Nat
        BY <3>1, Amounts DEF Balanced
      <3> QED BY <3>1, <3>2 DEF Balanced
    <2>2. CASE Class[m] # "ok"
      <3>1. runs[m] \in Nat /\ ~(runs[m] > 0)
        BY <2>2, CapIsNat DEF RunInv, TypeOK
      <3>2. Budget \in Nat
        <4>1. MaxAttempts \in Nat /\ 1 + nfail + ncrash + nlapse \in Nat
          BY SettlementAssumption DEF TypeOK
        <4> QED BY <4>1 DEF Budget
      <3> QED BY <3>1, <3>2
    <2> QED BY <2>1, <2>2
  <1> QED BY <1>1, RunsAreBalanced, PTL

=============================================================================
