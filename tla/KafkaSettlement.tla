-------------------------- MODULE KafkaSettlement --------------------------
(***************************************************************************)
(* The writes a Kafka record is settled with (kafka_transport.py: redeliver *)
(* onto a retry tier, the dead-letter write, publish_delayed) on top of the *)
(* offset books of KafkaOffsets.  An offset may be committed only after the *)
(* broker confirmed the write that stands for the record, and the attempts  *)
(* of a record live in two places, the bq-attempts header and the body.     *)
(*                                                                         *)
(* The caller is the runtime: one record at a time (MaxBatch = 1).  The     *)
(* transport has tiers; Settlement models the one that has none.            *)
(*                                                                         *)
(* External: the topics.  A write whose delivery report is an error or does *)
(* not arrive in time may have landed all the same.  A parked record comes  *)
(* back to the work topic, sometimes twice (KafkaRetry).                    *)
(***************************************************************************)
EXTENDS KafkaOffsets, Sequences

CONSTANTS
  Messages,
  MaxAttempts,  (* max_attempts                                                  *)
  TierMs,       (* retry_tiers_ms: the delays of the tiers, ascending            *)
  Delays,       (* delays asked of publish_delayed                               *)
  NoHeader,     (* the record carries no usable bq-attempts                      *)
  Fresh,        (* Messages -> what it may be published with: class, header and  *)
                (* body attempts                                                 *)
  Configs       (* dead_letter, and whether on_unknown_urn is "delete"           *)

Classes == {"ok", "gated", "poison"}
Tiers == 1 .. Len(TierMs)
Counts == 0 .. MaxAttempts
Contents == [class : Classes, header : Counts \cup {NoHeader}, body : Counts]
Config == [deadLetter : BOOLEAN, delete : BOOLEAN]

ASSUME KafkaSettlementAssumption ==
  /\ MaxAttempts \in Nat \ {0}
  /\ TierMs \in Seq(Nat) /\ Len(TierMs) > 0
  /\ \A i, j \in Tiers : i < j => TierMs[i] < TierMs[j]
  /\ Delays \subseteq Nat
  /\ NoHeader \notin Nat
  /\ None \notin Contents
  /\ Fresh \in [Messages -> SUBSET Contents]
  /\ Configs \subseteq Config
  /\ MaxBatch = 1

VARIABLES
  conf,
  log,       (* Partitions -> the records of the work topic                      *)
  tier,      (* Tiers -> the records of the retry topic                          *)
  moved,     (* Tiers -> the offsets the re-inject consumer is done with         *)
  twice,     (* records it wrote to the work topic once more                     *)
  first,     (* Messages -> the content it was published with, or None (history) *)
  step,      (* Consumers -> what the runtime is to do with the record it holds  *)
  done, dropped, dlq,   (* sets of messages                                      *)
  runs       (* Messages -> handler invocations, up to MaxAttempts (history)     *)

ends == <<done, dropped, dlq>>
retries == <<tier, moved, twice>>
topics == <<log, retries, first>>
settlement == <<conf, topics, step, ends, runs>>
allvars == <<vars, settlement>>

Steps == {"route", "retry", "dlq", "drop", "ack"}
At(c, s) == mode[c] = "working" /\ step[c] = s
Holds(c) == CHOOSE h \in held[c] : TRUE
Rec(c) == log[Holds(c).partition][Holds(c).offset + 1]
Msg(c) == Rec(c).msg
To(c, s) == step' = [step EXCEPT ![c] = s]

KInit ==
  /\ Init
  /\ conf \in Configs
  /\ log = [p \in Partitions |-> <<>>]
  /\ tier = [n \in Tiers |-> <<>>]
  /\ moved = [n \in Tiers |-> {}]
  /\ twice = 0
  /\ first = [m \in Messages |-> None]
  /\ step = [c \in Consumers |-> "route"]
  /\ done = {} /\ dropped = {} /\ dlq = {}
  /\ runs = [m \in Messages |-> 0]

-----------------------------------------------------------------------------
(* Producers                                                                    *)

Named(m, content) == [msg |-> m, class |-> content.class,
                      header |-> content.header, body |-> content.body]

Write(p, r) == Produce(p) /\ log' = [log EXCEPT ![p] = Append(@, r)]

Publish(p, m) ==
  /\ first[m] = None
  /\ \E content \in Fresh[m] :
       /\ first' = [first EXCEPT ![m] = content]
       /\ Write(p, Named(m, content))
  /\ UNCHANGED <<conf, retries, step, ends, runs>>

Park(r, n) ==
  /\ tier' = [tier EXCEPT ![n] = Append(@, r)]
  /\ UNCHANGED <<moved, twice>>

(* publish_delayed(): the smallest tier that is long enough; there is no clamp,  *)
(* a longer delay is refused.                                                    *)
Fits(delay, n) == TierMs[n] >= delay /\ \A k \in Tiers : TierMs[k] >= delay => n <= k

PublishDelayed(m) ==
  /\ first[m] = None
  /\ \E content \in Fresh[m], delay \in Delays, n \in Tiers :
       /\ content.class = "ok" /\ content.header = content.body
       /\ Fits(delay, n)
       /\ first' = [first EXCEPT ![m] = content]
       /\ Park(Named(m, content), n)
  /\ UNCHANGED <<vars, conf, log, step, ends, runs>>

(* The re-inject consumer moves what is due, in the order of a partition of the  *)
(* tier, which is any order; after a failed commit it moves a record again.      *)
Reinject(p) ==
  /\ \E n \in Tiers : \E i \in (1 .. Len(tier[n])) \ moved[n] :
       /\ Write(p, tier[n][i])
       /\ \/ moved' = [moved EXCEPT ![n] = @ \cup {i}] /\ UNCHANGED twice
          \/ twice' = twice + 1 /\ UNCHANGED moved
  /\ UNCHANGED <<conf, tier, first, step, ends, runs>>

-----------------------------------------------------------------------------
(* The attempts of a record.  Definitions named Mut... are mutants, as in          *)
(* KafkaOffsets.                                                                 *)

(* _reconcile(): the header wins over the body, in the record's body.            *)
Reconciled(r) == IF r.header = NoHeader THEN r.body ELSE r.header

(* What the runtime counts: the reconciled body, or for poison the header        *)
(* (_header_attempts), since there is no envelope to read.                       *)
Counted(r) ==
  IF r.class # "poison"        THEN Reconciled(r)
  ELSE IF r.header = NoHeader  THEN 0
  ELSE                              r.header

(* _attempts_before(): what redeliver() reads from the body it was handed; that  *)
(* of poison was not reconciled.                                                 *)
MutAttemptsBefore(r) == (IF r.class = "poison" THEN r.body ELSE Reconciled(r)) + 1
AttemptsBefore(r) == IF r.class = "poison" THEN r.body ELSE Reconciled(r)

(* redeliver(): header and body leave with the same count (_tier_record,         *)
(* _with_attempts), on the tier of that count, the last one from there on.       *)
WithCounts(r, header, body) == [msg |-> r.msg, class |-> r.class, header |-> header, body |-> body]
MutRedelivered(r) == WithCounts(r, AttemptsBefore(r) + 1, Counted(r) + 1)
Redelivered(r) == WithCounts(r, AttemptsBefore(r) + 1, AttemptsBefore(r) + 1)
TierFor(before) == IF before < Len(TierMs) THEN before + 1 ELSE Len(TierMs)

-----------------------------------------------------------------------------
(* dispatch()                                                                    *)

(* _retry_or_dead_letter()                                                       *)
RetryOrDeadLetter(r) ==
  IF Counted(r) + 1 < MaxAttempts THEN "retry"
  ELSE IF conf.deadLetter         THEN "dlq"
  ELSE                                 "drop"

(* _route_poison(), and _settle_version_gated() of a gated record.               *)
RouteUndecodable(r) ==
  IF conf.delete             THEN "drop"
  ELSE IF conf.deadLetter    THEN "dlq"
  ELSE IF r.class = "gated"  THEN "drop"
  ELSE                            RetryOrDeadLetter(r)

Undecodable(c) ==
  /\ At(c, "route") /\ Rec(c).class # "ok"
  /\ To(c, RouteUndecodable(Rec(c)))
  /\ UNCHANGED <<vars, conf, topics, ends, runs>>

Ran(c) == runs' = [runs EXCEPT ![Msg(c)] = IF @ < MaxAttempts THEN @ + 1 ELSE @]

HandlerReturns(c) ==
  /\ At(c, "route") /\ Rec(c).class = "ok"
  /\ To(c, "ack")
  /\ done' = done \cup {Msg(c)}
  /\ Ran(c)
  /\ UNCHANGED <<vars, conf, topics, dropped, dlq>>

HandlerRaises(c) ==
  /\ At(c, "route") /\ Rec(c).class = "ok"
  /\ To(c, RetryOrDeadLetter(Rec(c)))
  /\ Ran(c)
  /\ UNCHANGED <<vars, conf, topics, ends>>

-----------------------------------------------------------------------------
(* Settlement: _produce_confirmed(), then ack()                                  *)

(* The record the write leaves behind, once it lands.                            *)
Lands(c) ==
  \/ /\ step[c] = "retry"
     /\ Park(Redelivered(Rec(c)), TierFor(AttemptsBefore(Rec(c))))
     /\ UNCHANGED dlq
  \/ step[c] = "dlq" /\ dlq' = dlq \cup {Msg(c)} /\ UNCHANGED retries

Confirmed(c) ==
  /\ mode[c] = "working" /\ step[c] \in {"retry", "dlq"}
  /\ Lands(c)
  /\ To(c, "ack")
  /\ UNCHANGED <<vars, conf, log, first, done, dropped, runs>>

(* What the runtime does about a write that was not confirmed.  A retry and a    *)
(* dead-letter record written inside dispatch()'s try block are rewound; the     *)
(* one written from its except clause escapes and ends consume().                *)
MutAfterUnconfirmed(c) == Settle(c)
AfterUnconfirmed(c) ==
  IF step[c] = "dlq" /\ Rec(c).class = "ok" THEN Abandon(c) ELSE Rewind(c)

(* _produce_confirmed() raises: the write failed, or no delivery report came     *)
(* within delivery_timeout.                                                      *)
Unconfirmed(c) ==
  /\ mode[c] = "working" /\ step[c] \in {"retry", "dlq"}
  /\ AfterUnconfirmed(c)
  /\ Lands(c) \/ UNCHANGED <<retries, dlq>>
  /\ To(c, "route")
  /\ UNCHANGED <<conf, log, first, done, dropped, runs>>

(* ack(), of a handled, a written or a dropped record.                           *)
SettleHeld(c) ==
  /\ step[c] \in {"ack", "drop"}
  /\ Settle(c)
  /\ dropped' = IF step[c] = "drop" THEN dropped \cup {Msg(c)} ELSE dropped
  /\ To(c, "route")
  /\ UNCHANGED <<conf, topics, done, dlq, runs>>

CrashAnywhere(c) ==
  /\ Crash(c)
  /\ To(c, "route")
  /\ UNCHANGED <<conf, topics, ends, runs>>

(* Steps of the books alone.                                                     *)
Books(c) ==
  /\ BeginPop(c) \/ Poll(c) \/ PollNothing(c) \/ \E p \in Partitions : Assign(p, c)
  /\ UNCHANGED settlement

Revoked(p) == Revoke(p) /\ UNCHANGED settlement

-----------------------------------------------------------------------------
Step ==
  \/ \E p \in Partitions :
       \/ Reinject(p) \/ Revoked(p)
       \/ \E m \in Messages : Publish(p, m)
  \/ \E m \in Messages : PublishDelayed(m)
  \/ \E c \in Consumers :
       \/ Books(c) \/ Undecodable(c) \/ HandlerReturns(c) \/ HandlerRaises(c)
       \/ Confirmed(c) \/ Unconfirmed(c) \/ SettleHeld(c) \/ CrashAnywhere(c)

(* Records re-injected twice count towards the same bound as the other trouble.   *)
KNext == Step /\ twice' + trouble' <= MaxTrouble

KSpec == KInit /\ [][KNext]_allvars

(* As in KafkaOffsets; the handler comes to an end, a write that is repeated is   *)
(* confirmed at last, and the re-inject consumer moves what is parked.            *)
KFairSpec ==
  /\ KSpec
  /\ \A c \in Consumers :
       /\ WF_allvars(BeginPop(c) /\ UNCHANGED settlement)
       /\ WF_allvars(PollNothing(c) /\ UNCHANGED settlement)
       /\ \A p \in Partitions :
            SF_allvars(Poll(c) /\ position'[c][p] > position[c][p] /\ UNCHANGED settlement)
       /\ WF_allvars(Undecodable(c) \/ HandlerReturns(c) \/ HandlerRaises(c))
       /\ WF_allvars(Confirmed(c)) /\ WF_allvars(SettleHeld(c))
  /\ \A p \in Partitions :
       WF_allvars(\E c \in Consumers : Assign(p, c) /\ UNCHANGED settlement)
  /\ WF_allvars(\E p \in Partitions : Reinject(p) /\ moved' # moved)

-----------------------------------------------------------------------------
(* Properties                                                                    *)

(* The copies of m there are or were on the topics.                              *)
OnWork == UNION {{log[p][i] : i \in 1 .. end[p]} : p \in Partitions}
OnTier == UNION {{tier[n][i] : i \in 1 .. Len(tier[n])} : n \in Tiers}

Over(m) == m \in done \cup dropped \cup dlq

Outcome(r) ==
  \/ Over(r.msg)
  \/ \E k \in OnWork \cup OnTier : k.msg = r.msg /\ AttemptsBefore(k) > AttemptsBefore(r)

(* publish_settle(): "the offset may only be committed once the write is          *)
(* confirmed".  A record behind the committed offset was handled, dropped or     *)
(* dead-lettered, or a copy with more attempts was written to a topic, whichever write    *)
(* times out, whichever commit fails and whoever crashes in between.             *)
OutcomeBeforeCommit ==
  \A p \in Partitions : \A o \in 0 .. end[p] - 1 :
    o < committed[p] => Outcome(log[p][o + 1])

(* redeliver(): "with the body attempts kept in sync".  A retried copy says the   *)
(* same in header and body, even when the record came from a producer whose two  *)
(* counts differ or from poison that has no envelope.                            *)
RetriedInStep ==
  \A k \in OnWork \cup OnTier :
    k.header = k.body \/ first[k.msg] = [class |-> k.class, header |-> k.header, body |-> k.body]

(* No attempt is counted twice on the way through the tiers: a message is         *)
(* dead-lettered only after the handler ran once for each attempt it had left,   *)
(* and never when it has not run at all.                                         *)
FullBudget ==
  \A m \in dlq : first[m].class = "ok" =>
    /\ runs[m] > 0
    /\ runs[m] + Reconciled(first[m]) >= MaxAttempts

(* Every message comes to an end, whatever write is repeated and however its      *)
(* attempts were counted when it arrived.                                        *)
EventuallyOver == \A m \in Messages : (first[m] # None) ~> Over(m)

=============================================================================
