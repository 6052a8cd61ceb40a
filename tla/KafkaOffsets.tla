---------------------------- MODULE KafkaOffsets ----------------------------
(***************************************************************************)
(* Offsets of the Kafka transport (kafka_transport.py): what each consumer *)
(* of a group remembers of the records it handed out, and the cumulative   *)
(* offset it commits.  A committed offset loses every lower record that is *)
(* not settled, so the transport must never commit past one.               *)
(*                                                                         *)
(* The callers are the runtime, which pops one record, settles it and pops *)
(* again (MaxBatch = 1) and is the only one to rewind(), and redrive(),     *)
(* which takes a batch and acknowledges its records one by one.  A caller   *)
(* whose settlement raised drops its handles and pops again.                *)
(*                                                                         *)
(* The broker (external): assigns partitions, a new assignment starts at   *)
(* the committed offset, seek() fails on a partition that is not assigned, *)
(* a commit may fail whenever it likes.                                    *)
(***************************************************************************)
EXTENDS Naturals, FiniteSets

CONSTANTS
  Consumers,
  Partitions,
  None,
  MaxLen,      (* bound: records per partition                                 *)
  MaxBatch,    (* records a caller takes before it settles any                 *)
  MaxTrouble   (* bound: abandoned or rewound pops, revocations and crashes    *)

ASSUME KafkaAssumption ==
  /\ None \notin Consumers
  /\ MaxLen \in Nat /\ MaxBatch \in Nat \ {0} /\ MaxTrouble \in Nat

VARIABLES
  end,         (* Partitions -> number of records produced                     *)
  committed,   (* Partitions -> the group's committed offset                   *)
  owner,       (* Partitions -> the consumer it is assigned to, or None        *)
  gen,         (* number of assignments so far                                 *)
  position,    (* Consumers -> Partitions -> offset the next poll() returns    *)
  pending,     (* Consumers -> handles handed out and not settled (_pending)   *)
  settled,     (* Consumers -> handles whose commit is deferred (_settled)     *)
  held,        (* Consumers -> the handles its caller still works on           *)
  mode,        (* Consumers -> "idle", "polling" (inside pop) or "working"     *)
  acked,       (* records <<p, offset>> whose outcome is final (history)       *)
  trouble

vars == <<end, committed, owner, gen, position, pending, settled, held, mode, acked, trouble>>

(* A handle is one message object: the same record polled in another assignment *)
(* is another handle.                                                           *)
Handles == [partition : Partitions, offset : Nat, gen : Nat]
Record(h) == <<h.partition, h.offset>>
Of(S, p) == {h \in S : h.partition = p}
IsLowest(h, S) == h \in S /\ \A k \in S : h.offset <= k.offset
IsHighest(h, S) == h \in S /\ \A k \in S : k.offset <= h.offset

Init ==
  /\ end = [p \in Partitions |-> 0]
  /\ committed = [p \in Partitions |-> 0]
  /\ owner = [p \in Partitions |-> None]
  /\ gen = 0
  /\ position = [c \in Consumers |-> [p \in Partitions |-> 0]]
  /\ pending = [c \in Consumers |-> {}]
  /\ settled = [c \in Consumers |-> {}]
  /\ held = [c \in Consumers |-> {}]
  /\ mode = [c \in Consumers |-> "idle"]
  /\ acked = {}
  /\ trouble = 0

Trouble == trouble < MaxTrouble /\ trouble' = trouble + 1

Produce(p) ==
  /\ end[p] < MaxLen
  /\ end' = [end EXCEPT ![p] = @ + 1]
  /\ UNCHANGED <<committed, owner, gen, position, pending, settled, held, mode, acked, trouble>>

-----------------------------------------------------------------------------
(* Definitions named Mut... are the mutants of the definition that follows them: *)
(* bugs the properties must find.  No specification uses them.                  *)

(* _forget_from(): the seek made the broker redeliver these.                    *)
Kept(S, p, offset) == {h \in S : h.partition # p \/ h.offset < offset}

(* pop() and pop_batch() first seek back to the lowest record per partition     *)
(* that was handed out and neither acknowledged nor rewound                     *)
(* (_rewind_abandoned).  A failed seek is swallowed.                            *)
MutSeeks(c, p) == FALSE
Seeks(c, p) == owner[p] = c /\ Of(pending[c], p) # {}

BeginPop(c) ==
  /\ mode[c] = "idle"
  /\ mode' = [mode EXCEPT ![c] = "polling"]
  /\ \E to \in [Partitions -> 0 .. MaxLen] :
       /\ \A p \in Partitions :
            IF Seeks(c, p) THEN \E h \in Of(pending[c], p) :
                                  IsLowest(h, Of(pending[c], p)) /\ to[p] = h.offset
                           ELSE to[p] = position[c][p]
       /\ position' = [position EXCEPT ![c] = to]
  /\ settled' = [settled EXCEPT ![c] =
       {h \in @ : \A k \in Of(pending[c], h.partition) : h.offset < k.offset}]
  /\ pending' = [pending EXCEPT ![c] = {}]
  /\ UNCHANGED <<end, committed, owner, gen, held, acked, trouble>>

(* _poll_one(): the record is tracked once it is handed out.                    *)
Poll(c) ==
  /\ mode[c] = "polling"
  /\ \E p \in Partitions :
       /\ owner[p] = c /\ position[c][p] < end[p]
       /\ LET h == [partition |-> p, offset |-> position[c][p], gen |-> gen]
          IN  /\ pending' = [pending EXCEPT ![c] = @ \cup {h}]
              /\ held' = [held EXCEPT ![c] = @ \cup {h}]
       /\ position' = [position EXCEPT ![c][p] = @ + 1]
  /\ mode' = [mode EXCEPT ![c] = IF Cardinality(held'[c]) < MaxBatch THEN @ ELSE "working"]
  /\ UNCHANGED <<end, committed, owner, gen, settled, acked, trouble>>

(* poll() timed out or returned an error: the batch ends.                       *)
PollNothing(c) ==
  /\ mode[c] = "polling"
  /\ mode' = [mode EXCEPT ![c] = IF held[c] = {} THEN "idle" ELSE "working"]
  /\ UNCHANGED <<end, committed, owner, gen, position, pending, settled, held, acked, trouble>>

(* The caller forgets the handles S; without any left it pops again.            *)
LetGo(c, S) ==
  /\ held' = [held EXCEPT ![c] = @ \ S]
  /\ mode' = [mode EXCEPT ![c] = IF held[c] \subseteq S THEN "idle" ELSE @]

-----------------------------------------------------------------------------
(* ack(): the record leaves _pending whatever the commit does.  The commit may   *)
(* reach as far as the lowest record of the partition still in flight; the rest *)
(* waits in _settled.                                                           *)
MutCommittable(done, inFlight, p) == Of(done, p)
Committable(done, inFlight, p) ==
  {h \in Of(done, p) : \A k \in Of(inFlight, p) : h.offset < k.offset}

Commit(S, p) ==
  \/ UNCHANGED committed
  \/ \E h \in S : IsHighest(h, S) /\ committed' = [committed EXCEPT ![p] = h.offset + 1]

Ack(c, h) ==
  /\ mode[c] = "working" /\ h \in held[c]
  /\ pending' = [pending EXCEPT ![c] = @ \ {h}]
  /\ LET done == settled[c] \cup {h}
         S == Committable(done, pending'[c], h.partition)
     IN  /\ settled' = [settled EXCEPT ![c] = done \ S]
         /\ Commit(S, h.partition)
  /\ acked' = acked \cup {Record(h)}
  /\ LetGo(c, {h})
  /\ UNCHANGED <<end, owner, gen, position, trouble>>

(* rewind() of the runtime's only record.  A failed seek is raised, before the  *)
(* record is forgotten, and logged by the runtime.                              *)
Rewind(c) ==
  /\ mode[c] = "working"
  /\ Trouble
  /\ \E h \in held[c] :
       /\ held[c] = {h}
       /\ IF owner[h.partition] = c
            THEN /\ position' = [position EXCEPT ![c][h.partition] = h.offset]
                 /\ pending' = [pending EXCEPT ![c] = Kept(@, h.partition, h.offset)]
                 /\ settled' = [settled EXCEPT ![c] = Kept(@, h.partition, h.offset)]
            ELSE UNCHANGED <<position, pending, settled>>
       /\ LetGo(c, {h})
  /\ UNCHANGED <<end, committed, owner, gen, acked>>

(* The settlement raised (a failed dead-letter write, a failed restore): the    *)
(* caller is left without its handles, the transport with its books.            *)
Abandon(c) ==
  /\ mode[c] = "working"
  /\ Trouble
  /\ LetGo(c, held[c])
  /\ UNCHANGED <<end, committed, owner, gen, position, pending, settled, acked>>

-----------------------------------------------------------------------------
(* The consumer group                                                           *)

Revoke(p) ==
  /\ owner[p] # None
  /\ Trouble
  /\ owner' = [owner EXCEPT ![p] = None]
  /\ UNCHANGED <<end, committed, gen, position, pending, settled, held, mode, acked>>

Assign(p, c) ==
  /\ owner[p] = None
  /\ owner' = [owner EXCEPT ![p] = c]
  /\ gen' = gen + 1
  /\ position' = [position EXCEPT ![c][p] = committed[p]]
  /\ UNCHANGED <<end, committed, pending, settled, held, mode, acked, trouble>>

(* The process dies and comes back with empty books and no partition.           *)
Crash(c) ==
  /\ Trouble
  /\ owner' = [p \in Partitions |-> IF owner[p] = c THEN None ELSE owner[p]]
  /\ pending' = [pending EXCEPT ![c] = {}]
  /\ settled' = [settled EXCEPT ![c] = {}]
  /\ held' = [held EXCEPT ![c] = {}]
  /\ mode' = [mode EXCEPT ![c] = "idle"]
  /\ UNCHANGED <<end, committed, gen, position, acked>>

-----------------------------------------------------------------------------
Settle(c) == \E h \in held[c] : Ack(c, h)

Next ==
  \/ \E p \in Partitions : Produce(p) \/ Revoke(p) \/ \E c \in Consumers : Assign(p, c)
  \/ \E c \in Consumers :
       BeginPop(c) \/ Poll(c) \/ PollNothing(c) \/ Settle(c) \/ Rewind(c) \/ Abandon(c) \/ Crash(c)

Spec == Init /\ [][Next]_vars

(* Consumers keep popping and settle what they took, a poll that is repeated     *)
(* while there are records returns one, the group assigns what nobody owns.     *)
FairSpec ==
  /\ Spec
  /\ \A c \in Consumers :
       /\ WF_vars(BeginPop(c)) /\ WF_vars(PollNothing(c)) /\ WF_vars(Settle(c))
       /\ \A p \in Partitions : SF_vars(Poll(c) /\ position'[c][p] > position[c][p])
  /\ \A p \in Partitions : WF_vars(\E c \in Consumers : Assign(p, c))

-----------------------------------------------------------------------------
(* Properties                                                                   *)

(* The books of the transport hold handles of records that exist.               *)
TypeOK ==
  /\ end \in [Partitions -> 0 .. MaxLen]
  /\ committed \in [Partitions -> 0 .. MaxLen]
  /\ owner \in [Partitions -> Consumers \cup {None}]
  /\ gen \in Nat
  /\ position \in [Consumers -> [Partitions -> 0 .. MaxLen]]
  /\ pending \in [Consumers -> SUBSET Handles]
  /\ settled \in [Consumers -> SUBSET Handles]
  /\ held \in [Consumers -> SUBSET Handles]
  /\ mode \in [Consumers -> {"idle", "polling", "working"}]
  /\ acked \subseteq Partitions \X Nat
  /\ trouble \in 0 .. MaxTrouble
  /\ \A c \in Consumers :
       /\ held[c] \subseteq pending[c]
       /\ mode[c] = "idle" => held[c] = {}
       /\ \A h \in pending[c] \cup settled[c] : h.offset < end[h.partition]
  /\ \A p \in Partitions : committed[p] <= end[p]

(* ack(): "commits still never pass an unsettled one".  Every record below the  *)
(* committed offset has a final outcome, in whatever order a batch is           *)
(* acknowledged, whichever settlement raises, whichever commit or seek fails,   *)
(* and however partitions move between consumers with records in flight.        *)
CommitOnlySettled ==
  \A p \in Partitions : \A o \in 0 .. MaxLen : o < committed[p] => <<p, o>> \in acked

(* What a consumer has polled past is settled or in its books: the record of a   *)
(* settlement that raised is not skipped by the pop() after it.                 *)
NothingSkipped ==
  \A p \in Partitions, c \in Consumers : \A o \in 0 .. MaxLen :
    owner[p] = c /\ o < position[c][p] =>
      <<p, o>> \in acked \/ \E h \in pending[c] : Record(h) = <<p, o>>

(* A deferred commit always waits for a lower record still in flight, so it is  *)
(* carried out by that record's ack() or undone by its redelivery.              *)
DeferredWaits ==
  \A c \in Consumers : \A h \in settled[c] :
    \E k \in pending[c] : k.partition = h.partition /\ k.offset <= h.offset

(* Every record gets its outcome: none is lost behind the committed offset and  *)
(* no abandoned record wedges its partition (_rewind_abandoned).                *)
EverySettled ==
  \A p \in Partitions : \A o \in 0 .. MaxLen - 1 : (o < end[p]) ~> (<<p, o>> \in acked)

=============================================================================
