----------------------------- MODULE KafkaRetry -----------------------------
(***************************************************************************)
(* The retry re-inject consumer (kafka_retry.py): records parked on a tier *)
(* topic are held in memory, their partition paused, until they are due,   *)
(* then written to the work topic and committed.                           *)
(*                                                                         *)
(* Time is relative: a record carries the ticks left until its timestamp   *)
(* plus the tier, a held record the ticks left until it is due.  A clock   *)
(* below zero is a due time in the past, and the clamp of target_time()    *)
(* makes all of those the same: counting down stops at 0.                  *)
(*                                                                         *)
(* External: the tier topic, the consumer group and the work topic.        *)
(***************************************************************************)
EXTENDS Integers, FiniteSets, Sequences

CONSTANTS
  Consumers,    (* re-injectors of one group                                    *)
  None,         (* no owner                                                     *)
  Partitions,   (* partitions of the tier topic                                 *)
  Tier,         (* the tier's delay                                             *)
  NoStamp,      (* the record has no usable timestamp                           *)
  Skews,        (* how far a record's timestamp is ahead of our clock (behind   *)
                (* it, if < 0), or NoStamp                                      *)
  MaxLen,       (* bound: records per partition                                 *)
  MaxTrouble    (* bound: failed calls, revocations and crashes                 *)

ASSUME KafkaRetryAssumption ==
  /\ IsFiniteSet(Consumers) /\ None \notin Consumers
  /\ IsFiniteSet(Partitions)
  /\ Tier \in Nat \ {0}
  /\ NoStamp \notin Int /\ Skews \subseteq Int \cup {NoStamp}
  /\ {MaxLen, MaxTrouble} \subseteq Nat

VARIABLES
  left,         (* Partitions -> per offset, the ticks left until timestamp +   *)
                (* tier, or NoStamp                                             *)
  age,          (* history: Partitions -> per offset, ticks since it was        *)
                (* written, counted up to 2 * Tier                              *)
  committed, owner,
  position,     (* Consumers -> Partitions -> next offset to poll               *)
  paused,       (* Consumers -> partitions paused                               *)
  waiting,      (* Consumers -> Partitions -> held records, oldest first        *)
  mode,         (* Consumers -> "idle", "releasing" (in _release_due) or        *)
                (* "committing" (between a confirmed write and its commit)      *)
  at,           (* Consumers -> the partition _release_due is at, or None       *)
  todo,         (* Consumers -> Partitions -> how many of the held records were *)
                (* due when this _release_due read the clock                    *)
  writes,       (* Partitions -> per offset, how often the work topic has it    *)
  trouble

group == <<committed, owner>>
local == <<position, paused, waiting, mode, at, todo>>
vars == <<left, age, group, local, writes, trouble>>

Held == [offset : Nat, wait : 0 .. Tier]
End(p) == Len(left[p])
Trouble == trouble < MaxTrouble /\ trouble' = trouble + 1
Idle(c) == mode' = [mode EXCEPT ![c] = "idle"]
        /\ at' = [at EXCEPT ![c] = None]
        /\ todo' = [todo EXCEPT ![c] = [p \in Partitions |-> 0]]

Init ==
  /\ left = [p \in Partitions |-> <<>>]
  /\ age = [p \in Partitions |-> <<>>]
  /\ committed = [p \in Partitions |-> 0]
  /\ owner = [p \in Partitions |-> None]
  /\ position = [c \in Consumers |-> [p \in Partitions |-> 0]]
  /\ paused = [c \in Consumers |-> {}]
  /\ waiting = [c \in Consumers |-> [p \in Partitions |-> <<>>]]
  /\ mode = [c \in Consumers |-> "idle"]
  /\ at = [c \in Consumers |-> None]
  /\ todo = [c \in Consumers |-> [p \in Partitions |-> 0]]
  /\ writes = [p \in Partitions |-> <<>>]
  /\ trouble = 0

-----------------------------------------------------------------------------
(* Definitions named Mut... are the mutants of the definition that follows them: *)
(* bugs the properties must find.  No specification uses them.                  *)

(* A worker parks a record (KafkaTransport's write to the tier topic).          *)
Park(p) ==
  /\ End(p) < MaxLen
  /\ \E s \in Skews :
       left' = [left EXCEPT ![p] = Append(@, IF s = NoStamp THEN NoStamp ELSE Tier + s)]
  /\ age' = [age EXCEPT ![p] = Append(@, 0)]
  /\ writes' = [writes EXCEPT ![p] = Append(@, 0)]
  /\ UNCHANGED <<group, local, trouble>>

Less(n) == IF n \in Nat \ {0} THEN n - 1 ELSE n
Tick ==
  /\ left' = [p \in Partitions |-> [i \in 1 .. End(p) |-> Less(left[p][i])]]
  /\ age' = [p \in Partitions |-> [i \in 1 .. End(p) |->
               IF age[p][i] < 2 * Tier THEN age[p][i] + 1 ELSE age[p][i]]]
  /\ waiting' = [c \in Consumers |-> [p \in Partitions |->
       [i \in 1 .. Len(waiting[c][p]) |-> [waiting[c][p][i] EXCEPT !.wait = Less(@)]]]]
  /\ UNCHANGED <<group, position, paused, mode, at, todo, writes, trouble>>

(* target_time(), relative to the clock.                                        *)
MutTargetTime(l) == IF l = NoStamp THEN 0 ELSE IF l > Tier THEN Tier ELSE IF l < 0 THEN 0 ELSE l
TargetTime(l) == IF l = NoStamp THEN Tier ELSE IF l > Tier THEN Tier ELSE IF l < 0 THEN 0 ELSE l

(* Only the head of a partition is gated by its due time.                       *)
Due(held) == CHOOSE n \in 0 .. Len(held) :
  /\ \A i \in 1 .. n : held[i].wait = 0
  /\ n < Len(held) => held[n + 1].wait # 0

(* _release_due() reads the clock once, for every partition.                    *)
Release(c, held) ==
  /\ todo' = [todo EXCEPT ![c] = [p \in Partitions |-> Due(held[p])]]
  /\ mode' = [mode EXCEPT ![c] =
       IF \E p \in Partitions : todo'[c][p] > 0 THEN "releasing" ELSE "idle"]
  /\ UNCHANGED at

(* run_once(): poll() returns a record; it is held and its partition paused.  A *)
(* failed pause is logged.                                                      *)
MutHold(c, p, h) == <<h>>
Hold(c, p, h) == Append(waiting[c][p], h)

Accept(c) ==
  /\ mode[c] = "idle"
  /\ \E p \in Partitions \ paused[c] :
       /\ owner[p] = c /\ position[c][p] < End(p)
       /\ LET o == position[c][p]
              h == [offset |-> o, wait |-> TargetTime(left[p][o + 1])]
          IN  waiting' = [waiting EXCEPT ![c][p] = Hold(c, p, h)]
       /\ position' = [position EXCEPT ![c][p] = @ + 1]
       /\ \/ paused' = [paused EXCEPT ![c] = @ \cup {p}] /\ UNCHANGED trouble
          \/ UNCHANGED paused /\ Trouble
  /\ Release(c, waiting'[c])
  /\ UNCHANGED <<left, age, group, writes>>

(* run_once(): poll() returns nothing.                                          *)
Wake(c) ==
  /\ mode[c] = "idle"
  /\ \E p \in Partitions : Due(waiting[c][p]) > 0
  /\ Release(c, waiting[c])
  /\ UNCHANGED <<left, age, group, position, paused, waiting, writes, trouble>>

(* The partition _release_due works on: it is finished before the next one.     *)
Current(c, p) ==
  /\ mode[c] = "releasing"
  /\ todo[c][p] > 0
  /\ at[c] \in {None, p}

Confirmed(p, o) == writes' = [writes EXCEPT ![p][o + 1] = @ + 1]

(* _reinject() returns: the write is confirmed, the commit comes next.          *)
Reinject(c, p) ==
  /\ Current(c, p)
  /\ Confirmed(p, Head(waiting[c][p]).offset)
  /\ at' = [at EXCEPT ![c] = p]
  /\ mode' = [mode EXCEPT ![c] = "committing"]
  /\ UNCHANGED <<left, age, group, position, paused, waiting, todo, trouble>>

(* Is there more for this partition, or for this call, to release?              *)
GoOn(c, p, more) ==
  /\ todo' = [todo EXCEPT ![c][p] = more]
  /\ at' = [at EXCEPT ![c] = IF more > 0 THEN p ELSE None]
  /\ mode' = [mode EXCEPT ![c] =
       IF \E q \in Partitions : todo'[c][q] > 0 THEN "releasing" ELSE "idle"]

(* A partition that holds nothing any more is resumed.                          *)
MutResumed(c, p) == paused[c]
Resumed(c, p) == IF Len(waiting[c][p]) = 1 THEN paused[c] \ {p} ELSE paused[c]

MutCommitted(c, p) == position[c][p]
Committed(c, p) == Head(waiting[c][p]).offset + 1

MutPopped(c, p) == waiting[c][p]
Popped(c, p) == Tail(waiting[c][p])

Commit(c) ==
  /\ mode[c] = "committing"
  /\ LET p == at[c] IN
       /\ committed' = [committed EXCEPT ![p] = Committed(c, p)]
       /\ waiting' = [waiting EXCEPT ![c][p] = Popped(c, p)]
       /\ paused' = [paused EXCEPT ![c] = Resumed(c, p)]
       /\ GoOn(c, p, todo[c][p] - 1)
  /\ UNCHANGED <<left, age, owner, position, writes, trouble>>

(* The commit raises out of run_once(); whoever calls it calls it again.  The   *)
(* record is still the head of its partition.                                   *)
CommitFails(c) ==
  /\ mode[c] = "committing"
  /\ Trouble
  /\ Idle(c)
  /\ UNCHANGED <<left, age, group, position, paused, waiting, writes>>

(* _reinject() raises, and the broker may have taken the record all the same.   *)
(* The partition is given back at that record (_rewind) and what was held of it *)
(* forgotten; when the seek fails that raises and everything stays.  Either way *)
(* the partition is resumed.                                                    *)
Rewound(c, p) == Head(waiting[c][p]).offset

ReinjectFails(c, p) ==
  /\ Current(c, p)
  /\ Trouble
  /\ Confirmed(p, Head(waiting[c][p]).offset) \/ UNCHANGED writes
  /\ paused' = [paused EXCEPT ![c] = @ \ {p}]
  /\ \/ /\ owner[p] = c
        /\ position' = [position EXCEPT ![c][p] = Rewound(c, p)]
        /\ waiting' = [waiting EXCEPT ![c][p] = <<>>]
        /\ GoOn(c, p, 0)
     \/ UNCHANGED <<position, waiting>> /\ Idle(c)
  /\ UNCHANGED <<left, age, group>>

-----------------------------------------------------------------------------
(* The consumer group.  A new assignment starts at the committed offset, not    *)
(* paused; the records still held from an older one stay.                       *)

Revoke(p) ==
  /\ owner[p] # None
  /\ Trouble
  /\ owner' = [owner EXCEPT ![p] = None]
  /\ UNCHANGED <<left, age, committed, local, writes>>

Assign(p, c) ==
  /\ owner[p] = None
  /\ owner' = [owner EXCEPT ![p] = c]
  /\ position' = [position EXCEPT ![c][p] = committed[p]]
  /\ paused' = [paused EXCEPT ![c] = @ \ {p}]
  /\ UNCHANGED <<left, age, committed, waiting, mode, at, todo, writes, trouble>>

(* The process dies, or run() lets an error through, and is started again.      *)
Crash(c) ==
  /\ Trouble
  /\ owner' = [p \in Partitions |-> IF owner[p] = c THEN None ELSE owner[p]]
  /\ waiting' = [waiting EXCEPT ![c] = [p \in Partitions |-> <<>>]]
  /\ paused' = [paused EXCEPT ![c] = {}]
  /\ Idle(c)
  /\ UNCHANGED <<left, age, committed, position, writes>>

-----------------------------------------------------------------------------
Step(c) ==
  \/ Accept(c) \/ Wake(c) \/ Commit(c)
  \/ \E p \in Partitions : Reinject(c, p)

Fault(c) ==
  \/ CommitFails(c) \/ Crash(c)
  \/ \E p \in Partitions : ReinjectFails(c, p)

Work ==
  \/ \E p \in Partitions : Park(p) \/ Revoke(p) \/ \E c \in Consumers : Assign(p, c)
  \/ \E c \in Consumers : Step(c) \/ Fault(c)

Next == Tick \/ Work

Spec == Init /\ [][Next]_vars

(* run() calls run_once() again and again, the group assigns its partitions,    *)
(* and time passes.  A re-injector polls a partition it owns in the end even if *)
(* others have records too.                                                     *)
AcceptFrom(c, p) == Accept(c) /\ position'[c][p] # position[c][p]
FairSpec ==
  /\ Spec
  /\ WF_vars(Tick)
  /\ \A p \in Partitions : WF_vars(\E c \in Consumers : Assign(p, c))
  /\ \A c \in Consumers :
       /\ WF_vars(Wake(c))
       /\ WF_vars(Commit(c))
       /\ \A p \in Partitions : SF_vars(AcceptFrom(c, p)) /\ SF_vars(Reinject(c, p))

-----------------------------------------------------------------------------
(* Properties                                                                   *)

(* Every variable keeps its type, and a call only releases what it holds        *)
(* (RetryReinjector).                                                           *)
TypeOK ==
  /\ left \in [Partitions -> Seq({NoStamp} \cup Int)]
  /\ age \in [Partitions -> Seq(0 .. 2 * Tier)]
  /\ committed \in [Partitions -> Nat]
  /\ owner \in [Partitions -> Consumers \cup {None}]
  /\ position \in [Consumers -> [Partitions -> Nat]]
  /\ paused \in [Consumers -> SUBSET Partitions]
  /\ waiting \in [Consumers -> [Partitions -> Seq(Held)]]
  /\ mode \in [Consumers -> {"idle", "releasing", "committing"}]
  /\ at \in [Consumers -> Partitions \cup {None}]
  /\ todo \in [Consumers -> [Partitions -> Nat]]
  /\ writes \in [Partitions -> Seq(Nat)]
  /\ trouble \in 0 .. MaxTrouble
  /\ \A c \in Consumers, p \in Partitions : todo[c][p] <= Len(waiting[c][p])

Written(p, o) == writes[p][o + 1] > 0

(* "The consumer offset is committed only after the broker confirmed the write  *)
(* to the work topic", through failures, rebalances and records held from an    *)
(* older assignment.                                                            *)
CommitOnlyWritten ==
  \A p \in Partitions : \A o \in 0 .. committed[p] - 1 : Written(p, o)

(* "A record never overtakes the one before it": what is on the work topic is a *)
(* beginning of the tier partition.                                             *)
NoOvertaking ==
  \A p \in Partitions : \A o \in 0 .. End(p) - 1 :
    Written(p, o) => \A k \in 0 .. o : Written(p, k)

(* A record is written again only for a failed call, a rebalance or a crash.    *)
WriteBudget == \A p \in Partitions : \A o \in 0 .. End(p) - 1 : writes[p][o + 1] <= 1 + trouble

(* No record is on the work topic before its tier has elapsed, as long as the   *)
(* producers' clocks are not behind.                                            *)
NotEarly ==
  [][\A p \in Partitions : \A o \in 0 .. End(p) - 1 :
       writes'[p][o + 1] # writes[p][o + 1] => age[p][o + 1] >= Tier]_vars

(* Every parked record reaches the work topic.                                  *)
EveryReinjected ==
  \A p \in Partitions : \A o \in 0 .. MaxLen - 1 :
    (o < End(p)) ~> (o < End(p) /\ Written(p, o))

=============================================================================
