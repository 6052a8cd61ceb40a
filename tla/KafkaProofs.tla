---------------------------- MODULE KafkaProofs ----------------------------
(***************************************************************************)
(* Proofs about KafkaOffsets and KafkaSettlement, for any consumers,        *)
(* partitions, log lengths, batch sizes, messages, tiers and attempts.      *)
(*                                                                         *)
(* The books first.  CommitOnlySettled is not inductive: that ack() never  *)
(* commits past an unsettled record follows from what the books hold below *)
(* each of their records (BooksClosed), and a new position or an old one   *)
(* is covered by the same books (NothingSkipped).                          *)
(*                                                                         *)
(* The settlement writes are a refinement of the books (SettlesByTheBooks), *)
(* so what is shown of the books holds with the writes in place.  That an  *)
(* offset is committed only after its record has an outcome then follows   *)
(* from one fact about the runtime: a record is acknowledged only after    *)
(* its write was confirmed (AckedOutcome).                                 *)
(***************************************************************************)
EXTENDS KafkaSettlement, FiniteSetTheorems, TLAPS

-----------------------------------------------------------------------------
(* The offset books                                                              *)

(* Record <<p, o>> has its outcome, or consumer c still has it in its books.    *)
Covered(c, p, o) == <<p, o>> \in acked \/ \E k \in pending[c] : Record(k) = <<p, o>>

(* Below every record a consumer remembers, every record is covered.            *)
BooksClosed ==
  \A c \in Consumers : \A h \in pending[c] \cup settled[c] : \A o \in 0 .. MaxLen :
    o < h.offset => Covered(c, h.partition, o)

(* A deferred record was acknowledged by the caller.                            *)
DeferredAcked == \A c \in Consumers : \A h \in settled[c] : Record(h) \in acked

IInv == /\ TypeOK /\ CommitOnlySettled /\ NothingSkipped /\ DeferredWaits
        /\ BooksClosed /\ DeferredAcked

USE DEF Of, Record, Handles

-----------------------------------------------------------------------------
(* The empty books of a new group satisfy the invariant.                        *)
LEMMA InitInv == Init => IInv
<1> SUFFICES ASSUME Init PROVE IInv
  OBVIOUS
<1>1. TypeOK
  BY KafkaAssumption DEF Init, TypeOK
<1>2. CommitOnlySettled /\ NothingSkipped
  BY KafkaAssumption DEF Init, CommitOnlySettled, NothingSkipped
<1>3. DeferredWaits /\ BooksClosed /\ DeferredAcked
  BY DEF Init, DeferredWaits, BooksClosed, DeferredAcked
<1> QED BY <1>1, <1>2, <1>3 DEF IInv

(* New records are above every offset the group knows.                          *)
LEMMA ProduceInv ==
  ASSUME NEW p \in Partitions, IInv, Produce(p)
  PROVE  IInv'
<1> USE DEF IInv
<1>1. TypeOK'
  BY KafkaAssumption DEF Produce, TypeOK
<1>2. CommitOnlySettled' /\ NothingSkipped' /\ DeferredWaits'
  BY DEF Produce, CommitOnlySettled, NothingSkipped, DeferredWaits
<1>3. BooksClosed' /\ DeferredAcked'
  BY DEF Produce, BooksClosed, DeferredAcked, Covered
<1> QED BY <1>1, <1>2, <1>3

(* pop() seeks back to the lowest abandoned record of each partition; the       *)
(* closed books cover everything below it.                                      *)
LEMMA BeginPopInv ==
  ASSUME NEW c \in Consumers, IInv, BeginPop(c)
  PROVE  IInv'
<1> USE DEF IInv
<1>1. PICK to \in [Partitions -> 0 .. MaxLen] :
        /\ \A p \in Partitions :
             IF Seeks(c, p) THEN \E h \in Of(pending[c], p) :
                                   IsLowest(h, Of(pending[c], p)) /\ to[p] = h.offset
                            ELSE to[p] = position[c][p]
        /\ position' = [position EXCEPT ![c] = to]
  BY DEF BeginPop
<1>2. TypeOK'
  <2>1. settled' \in [Consumers -> SUBSET Handles] /\ settled'[c] \subseteq settled[c]
    BY DEF BeginPop, TypeOK
  <2>2. held[c] = {}
    BY DEF BeginPop, TypeOK
  <2> QED BY <1>1, <2>1, <2>2 DEF BeginPop, TypeOK
<1>3. \A h \in settled[c] : ~ \A k \in Of(pending[c], h.partition) : h.offset < k.offset
  BY DEF DeferredWaits, TypeOK
<1>4. settled' = [settled EXCEPT ![c] = {}] /\ pending' = [pending EXCEPT ![c] = {}]
  BY <1>3 DEF BeginPop, TypeOK
<1>5. CommitOnlySettled'
  BY DEF BeginPop, CommitOnlySettled
<1>6. NothingSkipped'
  <2> SUFFICES ASSUME NEW p \in Partitions, NEW d \in Consumers, NEW o \in 0 .. MaxLen,
                      owner[p] = d, o < position'[d][p]
               PROVE  <<p, o>> \in acked \/ \E h \in pending'[d] : Record(h) = <<p, o>>
    BY DEF BeginPop, NothingSkipped
  <2>1. CASE d # c
    BY <2>1, <1>1, <1>4 DEF NothingSkipped, TypeOK
  <2>2. CASE d = c /\ Seeks(c, p)
    <3>1. PICK h \in Of(pending[c], p) : IsLowest(h, Of(pending[c], p)) /\ to[p] = h.offset
      BY <1>1, <2>2
    <3>2. o < h.offset
      BY <1>1, <2>2, <3>1 DEF TypeOK
    <3>3. Covered(c, p, o)
      BY <3>1, <3>2 DEF BooksClosed
    <3> QED BY <3>1, <3>2, <3>3, KafkaAssumption DEF Covered, IsLowest, TypeOK
  <2>3. CASE d = c /\ ~Seeks(c, p)
    <3>1. Of(pending[c], p) = {}
      BY <2>3 DEF Seeks
    <3>2. o < position[c][p]
      BY <1>1, <2>3 DEF TypeOK
    <3> QED BY <2>3, <3>1, <3>2 DEF NothingSkipped
  <2> QED BY <2>1, <2>2, <2>3
<1>7. DeferredWaits' /\ BooksClosed' /\ DeferredAcked'
  BY <1>4 DEF BeginPop, TypeOK, DeferredWaits, BooksClosed, DeferredAcked, Covered
<1> QED BY <1>2, <1>5, <1>6, <1>7

(* The record a poll hands out is the lowest one not covered yet.               *)
LEMMA PollInv ==
  ASSUME NEW c \in Consumers, IInv, Poll(c)
  PROVE  IInv'
<1> USE DEF IInv
<1>1. PICK p \in Partitions :
        /\ owner[p] = c /\ position[c][p] < end[p]
        /\ LET h == [partition |-> p, offset |-> position[c][p], gen |-> gen]
           IN  /\ pending' = [pending EXCEPT ![c] = @ \cup {h}]
               /\ held' = [held EXCEPT ![c] = @ \cup {h}]
        /\ position' = [position EXCEPT ![c][p] = @ + 1]
  BY DEF Poll
<1> DEFINE h == [partition |-> p, offset |-> position[c][p], gen |-> gen]
<1>2. /\ h \in Handles /\ h.partition = p /\ h.offset = position[c][p]
      /\ position[c][p] \in 0 .. MaxLen /\ position[c][p] + 1 \in 0 .. MaxLen
  BY <1>1, KafkaAssumption DEF TypeOK
<1>3. /\ pending' = [pending EXCEPT ![c] = @ \cup {h}]
      /\ held' = [held EXCEPT ![c] = @ \cup {h}]
  BY <1>1
<1> HIDE DEF h
<1>4. TypeOK'
  <2>1. mode' \in [Consumers -> {"idle", "polling", "working"}] /\ mode'[c] # "idle"
        /\ \A d \in Consumers \ {c} : mode'[d] = mode[d]
    BY DEF Poll, TypeOK
  <2>2. position' \in [Consumers -> [Partitions -> 0 .. MaxLen]]
    BY <1>1, <1>2 DEF TypeOK
  <2>3. /\ pending' \in [Consumers -> SUBSET Handles] /\ held' \in [Consumers -> SUBSET Handles]
        /\ \A d \in Consumers : held'[d] \subseteq pending'[d]
    BY <1>2, <1>3 DEF TypeOK
  <2>4. \A d \in Consumers : \A k \in pending'[d] \cup settled[d] : k.offset < end[k.partition]
    BY <1>1, <1>2, <1>3 DEF TypeOK
  <2>5. \A d \in Consumers : mode'[d] = "idle" => held'[d] = {}
    BY <2>1, <1>3 DEF TypeOK
  <2> QED BY <2>1, <2>2, <2>3, <2>4, <2>5 DEF Poll, TypeOK
<1>5. CommitOnlySettled' /\ DeferredAcked'
  BY DEF Poll, CommitOnlySettled, DeferredAcked
<1>6. /\ \A d \in Consumers : pending[d] \subseteq pending'[d]
      /\ \A d \in Consumers : \A k \in pending'[d] : k \in pending[d] \/ (d = c /\ k = h)
      /\ h \in pending'[c]
  BY <1>3 DEF TypeOK
<1>7. NothingSkipped'
  <2> SUFFICES ASSUME NEW q \in Partitions, NEW d \in Consumers, NEW o \in 0 .. MaxLen,
                      owner[q] = d, o < position'[d][q]
               PROVE  <<q, o>> \in acked \/ \E k \in pending'[d] : Record(k) = <<q, o>>
    BY DEF Poll, NothingSkipped
  <2>1. CASE o < position[d][q]
    BY <2>1, <1>6 DEF NothingSkipped
  <2>2. CASE ~ (o < position[d][q])
    <3>1. d = c /\ q = p
      BY <2>2, <1>1 DEF TypeOK
    <3>2. position'[c][p] = position[c][p] + 1
      BY <1>1 DEF TypeOK
    <3>3. o = position[c][p]
      BY <3>1, <3>2, <2>2, <1>2
    <3> QED BY <3>1, <3>3, <1>2, <1>6
  <2> QED BY <2>1, <2>2
<1>8. BooksClosed'
  <2> SUFFICES ASSUME NEW d \in Consumers, NEW k \in pending'[d] \cup settled[d],
                      NEW o \in 0 .. MaxLen, o < k.offset
               PROVE  <<k.partition, o>> \in acked
                        \/ \E x \in pending'[d] : Record(x) = <<k.partition, o>>
    BY DEF Poll, BooksClosed, Covered
  <2>1. CASE k \in pending[d] \cup settled[d]
    BY <2>1, <1>6 DEF BooksClosed, Covered
  <2>2. CASE d = c /\ k = h
    BY <2>2, <1>1, <1>2, <1>6 DEF NothingSkipped
  <2> QED BY <2>1, <2>2, <1>6
<1>9. DeferredWaits'
  BY <1>6 DEF Poll, DeferredWaits
<1> QED BY <1>4, <1>5, <1>7, <1>8, <1>9

-----------------------------------------------------------------------------
(* ack(): everything below the committable record is covered by the books, and  *)
(* what the books still hold in flight is above it.                             *)
LEMMA AckInv ==
  ASSUME NEW c \in Consumers, NEW h \in held[c], IInv, Ack(c, h)
  PROVE  IInv'
<1> USE DEF IInv
<1> DEFINE p == h.partition
           finished == settled[c] \cup {h}
           inFlight == pending[c] \ {h}
           S == Committable(finished, inFlight, p)
<1>1. /\ h \in pending[c] /\ h \in Handles /\ p \in Partitions /\ h.offset < end[p]
      /\ pending[c] \subseteq Handles /\ settled[c] \subseteq Handles
  BY DEF TypeOK
<1>2. /\ pending' = [pending EXCEPT ![c] = inFlight] /\ pending'[c] = inFlight
      /\ settled' = [settled EXCEPT ![c] = finished \ S]
      /\ Commit(S, p)
      /\ acked' = acked \cup {<<p, h.offset>>}
      /\ UNCHANGED <<end, owner, gen, position, trouble>>
  BY DEF Ack, TypeOK
<1>3. S = {k \in finished : k.partition = p /\ \A x \in inFlight : x.partition = p => k.offset < x.offset}
  BY DEF Committable
<1> HIDE DEF S
<1>4. \A k \in S : \A o \in 0 .. MaxLen : o <= k.offset => <<p, o>> \in acked'
  <2> SUFFICES ASSUME NEW k \in S, NEW o \in 0 .. MaxLen, o <= k.offset
               PROVE  <<p, o>> \in acked'
    OBVIOUS
  <2>1. k \in pending[c] \cup settled[c] /\ k.partition = p /\ k.offset \in Nat
    BY <1>1, <1>3
  <2>2. CASE o = k.offset
    BY <2>1, <2>2, <1>2, <1>3 DEF DeferredAcked
  <2>3. CASE o < k.offset
    <3>1. Covered(c, p, o)
      BY <2>1, <2>3 DEF BooksClosed
    <3>2. ASSUME NEW x \in pending[c], Record(x) = <<p, o>> PROVE x = h
      BY <3>2, <1>1, <1>3, <2>1, <2>3
    <3> QED BY <3>1, <3>2, <1>2 DEF Covered
  <2> QED BY <2>1, <2>2, <2>3
<1>5. \/ committed' = committed
      \/ \E k \in S : committed' = [committed EXCEPT ![p] = k.offset + 1]
  BY <1>2 DEF Commit, IsHighest
<1>6. \A k \in S : k.offset \in Nat /\ k.offset + 1 <= end[p] /\ end[p] \in 0 .. MaxLen
  BY <1>1, <1>3 DEF TypeOK
<1>7. TypeOK'
  <2>1. committed' \in [Partitions -> 0 .. MaxLen] /\ \A q \in Partitions : committed'[q] <= end[q]
    <3>1. CASE committed' = committed
      BY <3>1 DEF TypeOK
    <3>2. ASSUME NEW k \in S, committed' = [committed EXCEPT ![p] = k.offset + 1]
          PROVE  committed' \in [Partitions -> 0 .. MaxLen]
                 /\ \A q \in Partitions : committed'[q] <= end[q]
      BY <3>2, <1>1, <1>6, KafkaAssumption DEF TypeOK
    <3> QED BY <1>5, <3>1, <3>2
  <2>2. /\ pending' \in [Consumers -> SUBSET Handles] /\ settled' \in [Consumers -> SUBSET Handles]
        /\ \A d \in Consumers : pending'[d] \cup settled'[d] \subseteq pending[d] \cup settled[d]
    BY <1>1, <1>2 DEF TypeOK
  <2>3. held' = [held EXCEPT ![c] = @ \ {h}] /\ held' \in [Consumers -> SUBSET Handles]
        /\ \A d \in Consumers : held'[d] \subseteq pending'[d]
    BY <1>2 DEF Ack, LetGo, TypeOK
  <2>4. mode' \in [Consumers -> {"idle", "polling", "working"}]
        /\ \A d \in Consumers : mode'[d] = "idle" => held'[d] = {}
    BY <2>3 DEF Ack, LetGo, TypeOK
  <2>5. acked' \subseteq Partitions \X Nat
    BY <1>1, <1>2 DEF TypeOK
  <2> QED BY <1>2, <2>1, <2>2, <2>3, <2>4, <2>5 DEF TypeOK
<1>8. CommitOnlySettled'
  <2> SUFFICES ASSUME NEW q \in Partitions, NEW o \in 0 .. MaxLen, o < committed'[q]
               PROVE  <<q, o>> \in acked'
    BY DEF CommitOnlySettled
  <2>1. CASE o < committed[q]
    BY <2>1, <1>2 DEF CommitOnlySettled
  <2>2. CASE ~ (o < committed[q])
    <3>1. PICK k \in S : committed' = [committed EXCEPT ![p] = k.offset + 1]
      BY <1>5, <2>2
    <3>2. q = p /\ o < k.offset + 1
      BY <3>1, <2>2 DEF TypeOK
    <3> QED BY <3>2, <1>4, <1>6
  <2> QED BY <2>1, <2>2
<1>9. \A d \in Consumers : \A q \in Partitions : \A o \in 0 .. MaxLen :
        Covered(d, q, o) =>
          <<q, o>> \in acked' \/ \E k \in pending'[d] : Record(k) = <<q, o>>
  <2> SUFFICES ASSUME NEW d \in Consumers, NEW q \in Partitions, NEW o \in 0 .. MaxLen,
                      Covered(d, q, o)
               PROVE  <<q, o>> \in acked' \/ \E k \in pending'[d] : Record(k) = <<q, o>>
    OBVIOUS
  <2>1. CASE <<q, o>> \in acked
    BY <2>1, <1>2
  <2>2. ASSUME NEW k \in pending[d], Record(k) = <<q, o>>
        PROVE  <<q, o>> \in acked' \/ k \in pending'[d]
    <3>1. CASE d = c /\ k = h
      BY <3>1, <2>2, <1>2
    <3>2. CASE ~ (d = c /\ k = h)
      BY <3>2, <1>2 DEF TypeOK
    <3> QED BY <3>1, <3>2
  <2> QED BY <2>1, <2>2 DEF Covered
<1>10. NothingSkipped'
  BY <1>2, <1>9 DEF NothingSkipped, Covered
<1>11. BooksClosed'
  <2> SUFFICES ASSUME NEW d \in Consumers, NEW k \in pending'[d] \cup settled'[d],
                      NEW o \in 0 .. MaxLen, o < k.offset
               PROVE  Covered(d, k.partition, o)'
    BY DEF BooksClosed
  <2>1. k \in pending[d] \cup settled[d]
    BY <1>1, <1>2 DEF TypeOK
  <2>2. k.partition \in Partitions /\ Covered(d, k.partition, o)
    BY <2>1 DEF BooksClosed, TypeOK
  <2> QED BY <2>2, <1>9 DEF Covered
<1>12. DeferredWaits'
  <2> SUFFICES ASSUME NEW d \in Consumers, NEW k \in settled'[d]
               PROVE  \E x \in pending'[d] : x.partition = k.partition /\ x.offset <= k.offset
    BY DEF DeferredWaits
  <2>1. CASE d # c
    BY <2>1, <1>2 DEF DeferredWaits, TypeOK
  <2>2. CASE d = c /\ k.partition = p
    <3>1. k \in finished /\ k \notin S
      BY <2>2, <1>2 DEF TypeOK
    <3>2. PICK x \in inFlight : x.partition = p /\ ~ (k.offset < x.offset)
      BY <3>1, <2>2, <1>3
    <3>3. x.offset \in Nat /\ k.offset \in Nat
      BY <3>1, <3>2, <1>1
    <3> QED BY <3>2, <3>3, <2>2, <1>2
  <2>3. CASE d = c /\ k.partition # p
    <3>1. k \in settled[c]
      BY <2>3, <1>2 DEF TypeOK
    <3>2. PICK x \in pending[c] : x.partition = k.partition /\ x.offset <= k.offset
      BY <3>1 DEF DeferredWaits
    <3> QED BY <3>2, <2>3, <1>2
  <2> QED BY <2>1, <2>2, <2>3
<1>13. DeferredAcked'
  BY <1>2 DEF DeferredAcked, TypeOK
<1> QED BY <1>7, <1>8, <1>10, <1>11, <1>12, <1>13

(* rewind() keeps exactly the part of the books below the record it seeks to.   *)
LEMMA RewindInv ==
  ASSUME NEW c \in Consumers, IInv, Rewind(c)
  PROVE  IInv'
<1> USE DEF IInv
<1>1. PICK h \in held[c] :
        /\ held[c] = {h}
        /\ IF owner[h.partition] = c
             THEN /\ position' = [position EXCEPT ![c][h.partition] = h.offset]
                  /\ pending' = [pending EXCEPT ![c] = Kept(@, h.partition, h.offset)]
                  /\ settled' = [settled EXCEPT ![c] = Kept(@, h.partition, h.offset)]
             ELSE UNCHANGED <<position, pending, settled>>
        /\ LetGo(c, {h})
  BY DEF Rewind
<1>2. /\ h \in pending[c] /\ h.partition \in Partitions /\ h.offset \in 0 .. MaxLen
  BY KafkaAssumption DEF TypeOK
<1>3. /\ held' = [held EXCEPT ![c] = {}] /\ mode' = [mode EXCEPT ![c] = "idle"]
      /\ UNCHANGED <<end, committed, owner, gen, acked>>
      /\ trouble' \in 0 .. MaxTrouble
  <2>1. held' = [held EXCEPT ![c] = {}]
    BY <1>1 DEF LetGo, TypeOK
  <2>2. mode' = [mode EXCEPT ![c] = "idle"]
    BY <1>1 DEF LetGo, TypeOK
  <2>3. trouble' \in 0 .. MaxTrouble
    BY KafkaAssumption DEF Rewind, Trouble, TypeOK
  <2> QED BY <2>1, <2>2, <2>3 DEF Rewind
<1>4. CASE owner[h.partition] # c
  <2>1. UNCHANGED <<position, pending, settled>>
    BY <1>1, <1>4
  <2>2. TypeOK'
    BY <2>1, <1>3 DEF TypeOK
  <2> QED BY <2>1, <2>2, <1>3
    DEF CommitOnlySettled, NothingSkipped, DeferredWaits, BooksClosed, DeferredAcked, Covered
<1>5. CASE owner[h.partition] = c
  <2> DEFINE p == h.partition
  <2>1. /\ position' = [position EXCEPT ![c][p] = h.offset]
        /\ pending' = [pending EXCEPT ![c] = Kept(@, p, h.offset)]
        /\ settled' = [settled EXCEPT ![c] = Kept(@, p, h.offset)]
    BY <1>1, <1>5
  <2>2. /\ \A d \in Consumers : pending'[d] \subseteq pending[d] /\ settled'[d] \subseteq settled[d]
        /\ \A d \in Consumers \ {c} : pending'[d] = pending[d] /\ settled'[d] = settled[d]
        /\ \A k \in pending[c] : k \in pending'[c] <=> k.partition # p \/ k.offset < h.offset
        /\ \A k \in settled[c] : k \in settled'[c] <=> k.partition # p \/ k.offset < h.offset
    BY <2>1 DEF Kept, TypeOK
  <2>3. /\ pending' \in [Consumers -> SUBSET Handles] /\ settled' \in [Consumers -> SUBSET Handles]
        /\ position' \in [Consumers -> [Partitions -> 0 .. MaxLen]]
    BY <2>1, <1>2 DEF Kept, TypeOK
  <2>4. TypeOK'
    BY <2>2, <2>3, <1>3 DEF TypeOK
  <2>5. \A d \in Consumers, q \in Partitions : \A o \in 0 .. MaxLen :
          Covered(d, q, o) /\ (d = c /\ q = p => o < h.offset) =>
            <<q, o>> \in acked \/ \E k \in pending'[d] : Record(k) = <<q, o>>
    BY <2>2 DEF Covered
  <2>6. CommitOnlySettled' /\ DeferredAcked'
    BY <2>2, <1>3 DEF CommitOnlySettled, DeferredAcked
  <2>7. NothingSkipped'
    <3> SUFFICES ASSUME NEW q \in Partitions, NEW d \in Consumers, NEW o \in 0 .. MaxLen,
                        owner[q] = d, o < position'[d][q]
                 PROVE  <<q, o>> \in acked \/ \E k \in pending'[d] : Record(k) = <<q, o>>
      BY <1>3 DEF NothingSkipped
    <3>1. CASE d = c /\ q = p
      <4>1. o < h.offset
        BY <3>1, <2>1 DEF TypeOK
      <4>2. Covered(c, p, o)
        BY <4>1, <1>2 DEF BooksClosed
      <4> QED BY <3>1, <4>1, <4>2, <2>5
    <3>2. CASE ~ (d = c /\ q = p)
      <4>1. o < position[d][q]
        BY <3>2, <2>1 DEF TypeOK
      <4>2. Covered(d, q, o)
        BY <4>1 DEF NothingSkipped, Covered
      <4> QED BY <3>2, <4>2, <2>5
    <3> QED BY <3>1, <3>2
  <2>8. BooksClosed'
    <3> SUFFICES ASSUME NEW d \in Consumers, NEW k \in pending'[d] \cup settled'[d],
                        NEW o \in 0 .. MaxLen, o < k.offset
                 PROVE  Covered(d, k.partition, o)'
      BY DEF BooksClosed
    <3>1. k \in pending[d] \cup settled[d] /\ k.partition \in Partitions /\ k.offset \in Nat
      BY <2>2 DEF TypeOK
    <3>2. Covered(d, k.partition, o)
      BY <3>1 DEF BooksClosed
    <3>3. d = c /\ k.partition = p => o < h.offset
      BY <3>1, <2>2, <1>2
    <3> QED BY <3>1, <3>2, <3>3, <2>5, <1>3 DEF Covered
  <2>9. DeferredWaits'
    <3> SUFFICES ASSUME NEW d \in Consumers, NEW k \in settled'[d]
                 PROVE  \E x \in pending'[d] : x.partition = k.partition /\ x.offset <= k.offset
      BY DEF DeferredWaits
    <3>1. k \in settled[d]
      BY <2>2
    <3>2. PICK x \in pending[d] : x.partition = k.partition /\ x.offset <= k.offset
      BY <3>1 DEF DeferredWaits
    <3>3. x.offset \in Nat /\ k.offset \in Nat
      BY <3>1, <3>2 DEF TypeOK
    <3> QED BY <3>1, <3>2, <3>3, <2>2, <1>2
  <2> QED BY <2>4, <2>6, <2>7, <2>8, <2>9
<1> QED BY <1>4, <1>5

-----------------------------------------------------------------------------
(* A caller that drops its handles leaves the books as they are, and a poll     *)
(* that ends a batch too.                                                       *)
LEMMA IdleInv ==
  ASSUME NEW c \in Consumers, IInv, PollNothing(c) \/ Abandon(c)
  PROVE  IInv'
<1> USE DEF IInv
<1>1. UNCHANGED <<end, committed, owner, gen, position, pending, settled, acked>>
  BY DEF PollNothing, Abandon
<1>2. TypeOK'
  <2>1. CASE PollNothing(c)
    BY <2>1 DEF PollNothing, TypeOK
  <2>2. CASE Abandon(c)
    <3>1. held' = [held EXCEPT ![c] = {}]
      BY <2>2 DEF Abandon, LetGo, TypeOK
    <3>2. trouble' \in 0 .. MaxTrouble
      BY <2>2, KafkaAssumption DEF Abandon, Trouble, TypeOK
    <3>3. mode' = [mode EXCEPT ![c] = "idle"]
      BY <2>2 DEF Abandon, LetGo, TypeOK
    <3> QED BY <1>1, <3>1, <3>2, <3>3 DEF TypeOK
  <2> QED BY <2>1, <2>2
<1> QED BY <1>1, <1>2
  DEF CommitOnlySettled, NothingSkipped, DeferredWaits, BooksClosed, DeferredAcked, Covered

(* The consumer group: a new assignment starts at the committed offset, below   *)
(* which everything has its outcome.                                            *)
LEMMA GroupInv ==
  ASSUME NEW p \in Partitions, NEW c \in Consumers, IInv,
         Revoke(p) \/ Assign(p, c) \/ Crash(c)
  PROVE  IInv'
<1> USE DEF IInv
<1>1. CASE Revoke(p)
  <2>1. TypeOK'
    BY <1>1, KafkaAssumption DEF Revoke, Trouble, TypeOK
  <2>2. NothingSkipped'
    BY <1>1, KafkaAssumption DEF Revoke, NothingSkipped, TypeOK
  <2> QED BY <1>1, <2>1, <2>2
    DEF Revoke, CommitOnlySettled, DeferredWaits, BooksClosed, DeferredAcked, Covered
<1>2. CASE Assign(p, c)
  <2>1. TypeOK'
    BY <1>2 DEF Assign, TypeOK
  <2>2. NothingSkipped'
    <3> SUFFICES ASSUME NEW q \in Partitions, NEW d \in Consumers, NEW o \in 0 .. MaxLen,
                        owner'[q] = d, o < position'[d][q]
                 PROVE  <<q, o>> \in acked \/ \E k \in pending[d] : Record(k) = <<q, o>>
      BY <1>2 DEF Assign, NothingSkipped
    <3>1. CASE q = p
      BY <1>2, <3>1 DEF Assign, CommitOnlySettled, TypeOK
    <3>2. CASE q # p
      BY <1>2, <3>2 DEF Assign, NothingSkipped, TypeOK
    <3> QED BY <3>1, <3>2
  <2> QED BY <1>2, <2>1, <2>2
    DEF Assign, CommitOnlySettled, DeferredWaits, BooksClosed, DeferredAcked, Covered
<1>3. CASE Crash(c)
  <2>1. TypeOK'
    BY <1>3, KafkaAssumption DEF Crash, Trouble, TypeOK
  <2>2. NothingSkipped'
    BY <1>3, KafkaAssumption DEF Crash, NothingSkipped, TypeOK
  <2>3. CommitOnlySettled' /\ DeferredAcked'
    BY <1>3 DEF Crash, CommitOnlySettled, DeferredAcked, TypeOK
  <2>4. DeferredWaits' /\ BooksClosed'
    BY <1>3 DEF Crash, DeferredWaits, BooksClosed, Covered, TypeOK
  <2> QED BY <2>1, <2>2, <2>3, <2>4
<1> QED BY <1>1, <1>2, <1>3

(* Every step preserves the invariant.                                          *)
LEMMA NextInv == IInv /\ [Next]_vars => IInv'
<1> SUFFICES ASSUME IInv, [Next]_vars PROVE IInv'
  OBVIOUS
<1>1. CASE UNCHANGED vars
  BY <1>1 DEF IInv, vars, TypeOK, CommitOnlySettled, NothingSkipped, DeferredWaits,
              BooksClosed, DeferredAcked, Covered
<1>2. ASSUME NEW p \in Partitions, Produce(p) PROVE IInv'
  BY <1>2, ProduceInv
<1>3. ASSUME NEW p \in Partitions, Revoke(p) PROVE IInv'
  <2>1. CASE Consumers = {}
    BY <1>3, <2>1 DEF Revoke, IInv, TypeOK
  <2>2. CASE Consumers # {}
    BY <1>3, <2>2, GroupInv
  <2> QED BY <2>1, <2>2
<1>4. ASSUME NEW p \in Partitions, NEW c \in Consumers, Assign(p, c) PROVE IInv'
  BY <1>4, GroupInv
<1>5. ASSUME NEW c \in Consumers, BeginPop(c) PROVE IInv'
  BY <1>5, BeginPopInv
<1>6. ASSUME NEW c \in Consumers, Poll(c) PROVE IInv'
  BY <1>6, PollInv
<1>7. ASSUME NEW c \in Consumers, PollNothing(c) \/ Abandon(c) PROVE IInv'
  BY <1>7, IdleInv
<1>8. ASSUME NEW c \in Consumers, Settle(c) PROVE IInv'
  BY <1>8, AckInv DEF Settle
<1>9. ASSUME NEW c \in Consumers, Rewind(c) PROVE IInv'
  BY <1>9, RewindInv
<1>10. ASSUME NEW c \in Consumers, Crash(c) PROVE IInv'
  <2>1. CASE Partitions = {}
    BY <1>10, <2>1, KafkaAssumption DEF Crash, Trouble, IInv, TypeOK, CommitOnlySettled,
       NothingSkipped, DeferredWaits, BooksClosed, DeferredAcked, Covered
  <2>2. CASE Partitions # {}
    BY <1>10, <2>2, GroupInv
  <2> QED BY <2>1, <2>2
<1> QED BY <1>1, <1>2, <1>3, <1>4, <1>5, <1>6, <1>7, <1>8, <1>9, <1>10 DEF Next

(* The invariant the four results below are read off.                           *)
THEOREM Invariants == Spec => []IInv
BY InitInv, NextInv, PTL DEF Spec

(* The books of kafka_transport.py keep their types.                            *)
THEOREM TypeCorrect == Spec => []TypeOK
<1>1. IInv => TypeOK
  BY DEF IInv
<1> QED BY <1>1, Invariants, PTL

(* ack() never commits past an unsettled record, for any group, any batch size, *)
(* any interleaving of rebalances, crashes, abandoned and rewound records.      *)
THEOREM NeverPastUnsettled == Spec => []CommitOnlySettled
<1>1. IInv => CommitOnlySettled
  BY DEF IInv
<1> QED BY <1>1, Invariants, PTL

(* pop() never leaves an abandoned record behind (_rewind_abandoned).           *)
THEOREM NoneSkipped == Spec => []NothingSkipped
<1>1. IInv => NothingSkipped
  BY DEF IInv
<1> QED BY <1>1, Invariants, PTL

(* A deferred commit always waits for a lower record in flight (_settled).      *)
THEOREM DeferredCommitsWait == Spec => []DeferredWaits
<1>1. IInv => DeferredWaits
  BY DEF IInv
<1> QED BY <1>1, Invariants, PTL

-----------------------------------------------------------------------------
(* The settlement writes                                                         *)

HIDE DEF Of, Record

Records == [msg : Messages, class : Classes, header : Nat \cup {NoHeader}, body : Nat]

(* The topics hold records; the runtime works on one record, and decided nothing *)
(* before it holds one.                                                          *)
KTypeOK ==
  /\ log \in [Partitions -> Seq(Records)]
  /\ \A p \in Partitions : Len(log[p]) = end[p]
  /\ tier \in [Tiers -> Seq(Records)]
  /\ step \in [Consumers -> Steps]
  /\ \A c \in Consumers :
       /\ mode[c] = "polling" => held[c] = {}
       /\ mode[c] = "working" => \E h \in Handles : held[c] = {h}
       /\ mode[c] # "working" => step[c] = "route"

(* What was acknowledged has its outcome.                                        *)
AckedOutcome ==
  \A p \in Partitions, o \in Nat :
    <<p, o>> \in acked => o < end[p] /\ Outcome(log[p][o + 1])

(* So has what is about to be acknowledged as handled or written.                *)
ReadyOutcome ==
  \A c \in Consumers : mode[c] = "working" /\ step[c] = "ack" => Outcome(Rec(c))

KInv == KTypeOK /\ AckedOutcome /\ ReadyOutcome

USE DEF Handles

-----------------------------------------------------------------------------
(* A step of the settlement is a step of the offset books or leaves them alone.  *)
LEMMA StepByTheBooks == [KNext]_allvars => [Next]_vars
<1> SUFFICES ASSUME KNext PROVE [Next]_vars
  BY DEF allvars
<1>1. ASSUME NEW p \in Partitions, NEW m \in Messages, Publish(p, m) PROVE Next
  BY <1>1 DEF Publish, Write, Next
<1>2. ASSUME NEW p \in Partitions, Reinject(p) PROVE Next
  BY <1>2 DEF Reinject, Write, Next
<1>3. ASSUME NEW p \in Partitions, Revoked(p) PROVE Next
  BY <1>3 DEF Revoked, Next
<1>4. ASSUME NEW m \in Messages, PublishDelayed(m) PROVE UNCHANGED vars
  BY <1>4 DEF PublishDelayed
<1>5. ASSUME NEW c \in Consumers, Books(c) PROVE Next
  BY <1>5 DEF Books, Next
<1>6. ASSUME NEW c \in Consumers, Undecodable(c) \/ HandlerReturns(c) \/ HandlerRaises(c) \/ Confirmed(c)
      PROVE  UNCHANGED vars
  BY <1>6 DEF Undecodable, HandlerReturns, HandlerRaises, Confirmed
<1>7. ASSUME NEW c \in Consumers, Unconfirmed(c) PROVE Next
  BY <1>7 DEF Unconfirmed, AfterUnconfirmed, Next
<1>8. ASSUME NEW c \in Consumers, SettleHeld(c) PROVE Next
  BY <1>8 DEF SettleHeld, Next
<1>9. ASSUME NEW c \in Consumers, CrashAnywhere(c) PROVE Next
  BY <1>9 DEF CrashAnywhere, Next
<1> QED BY <1>1, <1>2, <1>3, <1>4, <1>5, <1>6, <1>7, <1>8, <1>9 DEF KNext, Step

(* kafka_transport.py writes and settles as its offset books require: every      *)
(* behaviour of the transport with its settlement writes is one of KafkaOffsets. *)
THEOREM SettlesByTheBooks == KSpec => Spec
<1>1. KInit => Init
  BY DEF KInit
<1> QED BY <1>1, StepByTheBooks, PTL DEF KSpec, Spec

(* So commits never pass an unsettled record here either.                        *)
LEMMA BooksInvariant == KSpec => []IInv
BY SettlesByTheBooks, Invariants, PTL


-----------------------------------------------------------------------------
(* Types                                                                         *)

LEMMA RecordsRead ==
  ASSUME IInv, KTypeOK, NEW c \in Consumers, mode[c] = "working"
  PROVE  /\ held[c] = {Holds(c)} /\ Holds(c) \in Handles
         /\ Holds(c).partition \in Partitions /\ Holds(c).offset \in Nat
         /\ Holds(c).offset < end[Holds(c).partition]
         /\ Rec(c) \in Records
<1>1. PICK h \in Handles : held[c] = {h}
  BY DEF KTypeOK
<1>2. Holds(c) = h
  BY <1>1 DEF Holds
<1>3. h \in pending[c] /\ h.offset < end[h.partition]
  BY <1>1 DEF IInv, TypeOK
<1>4. log[h.partition][h.offset + 1] \in Records
  <2>1. h.partition \in Partitions /\ h.offset \in Nat
    BY <1>1
  <2>2. log[h.partition] \in Seq(Records) /\ Len(log[h.partition]) = end[h.partition]
    BY <2>1 DEF KTypeOK
  <2> QED BY <1>3, <2>1, <2>2
<1> QED BY <1>1, <1>2, <1>3, <1>4 DEF Rec

LEMMA RedeliveredType ==
  ASSUME NEW r \in Records
  PROVE  /\ AttemptsBefore(r) \in Nat
         /\ Redelivered(r) \in Records
         /\ Redelivered(r).msg = r.msg
         /\ AttemptsBefore(Redelivered(r)) = AttemptsBefore(r) + 1
<1>1. AttemptsBefore(r) \in Nat
  BY DEF AttemptsBefore, Reconciled, Records
<1> DEFINE q == Redelivered(r)
           a == AttemptsBefore(r) + 1
<1>2. /\ q \in Records /\ q.msg = r.msg /\ q.class = r.class
      /\ q.header = a /\ q.body = a
  BY <1>1 DEF Redelivered, WithCounts, Records
<1>3. q.header # NoHeader
  BY <1>1, <1>2, KafkaSettlementAssumption
<1>4. AttemptsBefore(q) = AttemptsBefore(r) + 1
  BY <1>2, <1>3 DEF AttemptsBefore, Reconciled
<1> QED BY <1>1, <1>2, <1>4

LEMMA NamedType ==
  ASSUME NEW m \in Messages, NEW content \in Fresh[m]
  PROVE  Named(m, content) \in Records
<1>1. content \in Contents
  BY KafkaSettlementAssumption
<1>2. Contents \subseteq [class : Classes, header : Nat \cup {NoHeader}, body : Nat]
  BY KafkaSettlementAssumption DEF Contents, Counts
<1> QED BY <1>1, <1>2 DEF Named, Records

LEMMA TierForType ==
  ASSUME NEW n \in Nat
  PROVE  TierFor(n) \in Tiers
BY KafkaSettlementAssumption DEF TierFor, Tiers

(* What happens to the topics in a step: they grow, at their ends.               *)
Grows ==
  /\ \A p \in Partitions :
       /\ log'[p] \in Seq(Records) /\ Len(log'[p]) = end'[p] /\ end[p] <= end'[p]
       /\ \A i \in 1 .. end[p] : log'[p][i] = log[p][i]
  /\ \A n \in Tiers :
       /\ tier'[n] \in Seq(Records) /\ Len(tier[n]) <= Len(tier'[n])
       /\ \A i \in 1 .. Len(tier[n]) : tier'[n][i] = tier[n][i]
  /\ done \subseteq done' /\ dropped \subseteq dropped' /\ dlq \subseteq dlq'
  /\ log' \in [Partitions -> Seq(Records)] /\ tier' \in [Tiers -> Seq(Records)]

LEMMA WriteGrows ==
  ASSUME IInv, KTypeOK, NEW p \in Partitions, NEW r \in Records, Write(p, r),
         UNCHANGED <<tier, done, dropped, dlq>>
  PROVE  Grows
<1>1. log \in [Partitions -> Seq(Records)] /\ end \in [Partitions -> Nat]
  BY KafkaAssumption DEF KTypeOK, IInv, TypeOK
<1>2. log' = [log EXCEPT ![p] = Append(log[p], r)] /\ end' = [end EXCEPT ![p] = end[p] + 1]
  BY DEF Write, Produce
<1>3. \A q \in Partitions :
        /\ log'[q] \in Seq(Records) /\ Len(log'[q]) = end'[q] /\ end[q] <= end'[q]
        /\ \A i \in 1 .. end[q] : log'[q][i] = log[q][i]
  <2> SUFFICES ASSUME NEW q \in Partitions
               PROVE  /\ log'[q] \in Seq(Records) /\ Len(log'[q]) = end'[q] /\ end[q] <= end'[q]
                      /\ \A i \in 1 .. end[q] : log'[q][i] = log[q][i]
    OBVIOUS
  <2>1. log[q] \in Seq(Records) /\ Len(log[q]) = end[q] /\ end[q] \in Nat
    BY <1>1 DEF KTypeOK
  <2>2. CASE q = p
    BY <1>1, <1>2, <2>1, <2>2
  <2>3. CASE q # p
    BY <1>1, <1>2, <2>1, <2>3
  <2> QED BY <2>2, <2>3
<1>4. log' \in [Partitions -> Seq(Records)]
  BY <1>1, <1>2, <1>3
<1> QED BY <1>3, <1>4 DEF Grows, KTypeOK

LEMMA ParkGrows ==
  ASSUME IInv, KTypeOK, NEW n \in Tiers, NEW r \in Records, Park(r, n),
         UNCHANGED <<log, end, done, dropped, dlq>>
  PROVE  Grows /\ \E i \in 1 .. Len(tier'[n]) : tier'[n][i] = r
<1>1. tier \in [Tiers -> Seq(Records)] /\ tier' = [tier EXCEPT ![n] = Append(tier[n], r)]
  BY DEF KTypeOK, Park
<1>2. \A m \in Tiers :
        /\ tier'[m] \in Seq(Records) /\ Len(tier[m]) <= Len(tier'[m])
        /\ \A i \in 1 .. Len(tier[m]) : tier'[m][i] = tier[m][i]
  <2> SUFFICES ASSUME NEW m \in Tiers
               PROVE  /\ tier'[m] \in Seq(Records) /\ Len(tier[m]) <= Len(tier'[m])
                      /\ \A i \in 1 .. Len(tier[m]) : tier'[m][i] = tier[m][i]
    OBVIOUS
  <2>1. tier[m] \in Seq(Records)
    BY <1>1
  <2>2. CASE m = n
    BY <1>1, <2>1, <2>2
  <2>3. CASE m # n
    BY <1>1, <2>1, <2>3
  <2> QED BY <2>2, <2>3
<1>3. tier'[n][Len(tier[n]) + 1] = r /\ Len(tier[n]) + 1 \in 1 .. Len(tier'[n])
  BY <1>1
<1>4. tier' \in [Tiers -> Seq(Records)]
  BY <1>1, <1>2
<1>5. end \in [Partitions -> Nat]
  BY KafkaAssumption DEF IInv, TypeOK
<1> QED BY <1>2, <1>3, <1>4, <1>5 DEF Grows, KTypeOK

LEMMA StillGrows ==
  ASSUME IInv, KTypeOK, UNCHANGED <<log, end, tier>>,
         done \subseteq done', dropped \subseteq dropped', dlq \subseteq dlq'
  PROVE  Grows
<1>1. end \in [Partitions -> Nat]
  BY KafkaAssumption DEF IInv, TypeOK
<1> QED BY <1>1 DEF Grows, KTypeOK

LEMMA OutcomeStays ==
  ASSUME IInv, KTypeOK, Grows, NEW r, Outcome(r)
  PROVE  Outcome(r)'
<1>1. CASE Over(r.msg)
  BY <1>1 DEF Outcome, Over, Grows
<1>2. ASSUME NEW k \in OnWork \cup OnTier PROVE k \in OnWork' \cup OnTier'
  <2>1. CASE k \in OnWork
    <3>0. PICK p \in Partitions : \E i \in 1 .. end[p] : k = log[p][i]
      BY <2>1 DEF OnWork
    <3>1. PICK i \in 1 .. end[p] : k = log[p][i]
      BY <3>0
    <3>2. i \in 1 .. end'[p] /\ k = log'[p][i]
      BY <3>1, KafkaAssumption DEF Grows, IInv, TypeOK, KTypeOK
    <3> QED BY <3>2 DEF OnWork
  <2>2. CASE k \in OnTier
    <3>0. PICK n \in Tiers : \E i \in 1 .. Len(tier[n]) : k = tier[n][i]
      BY <2>2 DEF OnTier
    <3>1. PICK i \in 1 .. Len(tier[n]) : k = tier[n][i]
      BY <3>0
    <3>2. tier[n] \in Seq(Records) /\ tier'[n] \in Seq(Records)
      BY DEF Grows, KTypeOK
    <3>3. i \in 1 .. Len(tier'[n]) /\ k = tier'[n][i]
      BY <3>1, <3>2 DEF Grows
    <3> QED BY <3>3 DEF OnTier
  <2> QED BY <1>2, <2>1, <2>2
<1>3. CASE \E k \in OnWork \cup OnTier : k.msg = r.msg /\ AttemptsBefore(k) > AttemptsBefore(r)
  BY <1>2, <1>3 DEF Outcome
<1> QED BY <1>1, <1>3 DEF Outcome

-----------------------------------------------------------------------------
(* Every step keeps the types of the runtime.                                    *)

(* Of the books, only pop() and ack() change what a consumer holds.              *)
LEMMA HoldsAfterBooks ==
  ASSUME IInv, KTypeOK, NEW c \in Consumers,
         BeginPop(c) \/ Poll(c) \/ PollNothing(c) \/ \E p \in Partitions : Assign(p, c)
  PROVE  \A d \in Consumers :
           /\ mode'[d] = "polling" => held'[d] = {}
           /\ mode'[d] = "working" => \E h \in Handles : held'[d] = {h}
           /\ mode'[d] = "working" /\ step[d] # "route" => mode[d] = "working" /\ held'[d] = held[d]
           /\ mode'[d] # "working" => step[d] = "route"
<1> USE DEF IInv
<1>0. /\ mode \in [Consumers -> {"idle", "polling", "working"}]
      /\ held \in [Consumers -> SUBSET Handles]
      /\ \A d \in Consumers : mode[d] = "idle" => held[d] = {}
  BY DEF TypeOK
<1>1. CASE BeginPop(c)
  BY <1>0, <1>1 DEF BeginPop, KTypeOK
<1>2. CASE Poll(c)
  <2>1. PICK p \in Partitions :
          held' = [held EXCEPT ![c] = @ \cup {[partition |-> p, offset |-> position[c][p], gen |-> gen]}]
    BY <1>2 DEF Poll
  <2> DEFINE h == [partition |-> p, offset |-> position[c][p], gen |-> gen]
  <2>2. h \in Handles
    BY DEF TypeOK
  <2>3. held[c] = {} /\ held'[c] = {h}
    BY <1>0, <1>2, <2>1 DEF Poll, KTypeOK
  <2>4. Cardinality({h}) = 1
    BY FS_Singleton
  <2>5. mode' = [mode EXCEPT ![c] = "working"]
    <3>1. MaxBatch = 1
      BY KafkaSettlementAssumption
    <3>2. ~(Cardinality(held'[c]) < MaxBatch)
      BY <2>3, <2>4, <3>1
    <3> QED BY <1>2, <3>2 DEF Poll
  <2> QED BY <1>0, <1>2, <2>1, <2>2, <2>3, <2>5 DEF Poll, KTypeOK
<1>3. CASE PollNothing(c)
  BY <1>0, <1>3 DEF PollNothing, KTypeOK
<1>4. ASSUME NEW p \in Partitions, Assign(p, c) PROVE mode' = mode /\ held' = held
  BY <1>4 DEF Assign
<1> QED BY <1>1, <1>2, <1>3, <1>4 DEF KTypeOK

(* A settlement leaves the consumer idle and without its record.                 *)
LEMMA IdleAfterSettling ==
  ASSUME IInv, KTypeOK, NEW c \in Consumers,
         \/ Settle(c) \/ Rewind(c) \/ Abandon(c) \/ Crash(c)
  PROVE  /\ mode' = [mode EXCEPT ![c] = "idle"] /\ held' = [held EXCEPT ![c] = {}]
         /\ UNCHANGED end
<1> USE DEF IInv
<1>0. held \in [Consumers -> SUBSET Handles] /\ mode \in [Consumers -> {"idle", "polling", "working"}]
  BY DEF TypeOK
<1>1. CASE Settle(c)
  <2>1. PICK h \in held[c] : Ack(c, h)
    BY <1>1 DEF Settle
  <2>2. held[c] = {h}
    BY <2>1 DEF Ack, KTypeOK
  <2> QED BY <1>0, <2>1, <2>2 DEF Ack, LetGo
<1>2. CASE Rewind(c)
  BY <1>0, <1>2 DEF Rewind, LetGo
<1>3. CASE Abandon(c)
  BY <1>0, <1>3 DEF Abandon, LetGo
<1>4. CASE Crash(c)
  BY <1>4 DEF Crash
<1> QED BY <1>1, <1>2, <1>3, <1>4

LEMMA OutcomesStay ==
  ASSUME IInv, KInv, Grows
  PROVE  /\ \A p \in Partitions, o \in Nat :
              <<p, o>> \in acked => o < end'[p] /\ Outcome(log[p][o + 1])'
         /\ \A c \in Consumers :
              mode[c] = "working" /\ step[c] = "ack" /\ held'[c] = held[c] => Outcome(Rec(c))'
<1> USE DEF KInv
<1>0. \A p \in Partitions : end[p] \in Nat /\ end'[p] \in Nat
  <2>1. \A p \in Partitions : log'[p] \in Seq(Records) /\ Len(log'[p]) = end'[p]
    BY DEF Grows
  <2>2. \A p \in Partitions : Len(log'[p]) \in Nat
    BY <2>1
  <2>3. \A p \in Partitions : end[p] \in Nat
    BY KafkaAssumption DEF IInv, TypeOK
  <2> QED BY <2>1, <2>2, <2>3
<1>1. ASSUME NEW p \in Partitions, NEW o \in Nat, o < end[p], Outcome(log[p][o + 1])
      PROVE  o < end'[p] /\ Outcome(log[p][o + 1])'
  <2>1. PICK r : r = log[p][o + 1]
    OBVIOUS
  <2>2. o < end'[p] /\ log'[p][o + 1] = r
    <3>1. o + 1 \in 1 .. end[p] /\ end[p] <= end'[p]
      BY <1>0, <1>1 DEF Grows
    <3>2. log'[p][o + 1] = log[p][o + 1]
      BY <3>1 DEF Grows
    <3> QED BY <1>0, <2>1, <3>1, <3>2
  <2>3. Outcome(r)
    BY <1>1, <2>1
  <2>4. Outcome(r)'
    BY <2>3, OutcomeStays
  <2> QED BY <2>2, <2>4
<1>2. ASSUME NEW c \in Consumers, mode[c] = "working", step[c] = "ack", held'[c] = held[c]
      PROVE  Outcome(Rec(c))'
  <2>1. PICK r : r = Rec(c)
    OBVIOUS
  <2>2. Outcome(r)
    BY <1>2, <2>1 DEF ReadyOutcome
  <2>3. Outcome(r)'
    BY <2>2, OutcomeStays
  <2>4. Holds(c)' = Holds(c)
    BY <1>2 DEF Holds
  <2>5. PICK p \in Partitions, o \in Nat : Holds(c).partition = p /\ Holds(c).offset = o /\ o < end[p]
    BY <1>2, RecordsRead
  <2>6. log'[p][o + 1] = log[p][o + 1]
    BY <1>0, <2>5 DEF Grows
  <2>7. Rec(c)' = r
    BY <2>1, <2>4, <2>5, <2>6 DEF Rec
  <2> QED BY <2>3, <2>7
<1> QED BY <1>1, <1>2 DEF AckedOutcome

(* A step that acknowledges nothing keeps the invariant when it lets no record   *)
(* be acknowledged that has no outcome.                                          *)
LEMMA KeepsInv ==
  ASSUME IInv, KInv, Grows, UNCHANGED acked, step' \in [Consumers -> Steps],
         \A d \in Consumers :
           /\ mode'[d] = "polling" => held'[d] = {}
           /\ mode'[d] = "working" => \E h \in Handles : held'[d] = {h}
           /\ mode'[d] # "working" => step'[d] = "route"
           /\ mode'[d] = "working" /\ step'[d] = "ack" =>
                \/ mode[d] = "working" /\ step[d] = "ack" /\ held'[d] = held[d]
                \/ Outcome(Rec(d))'
  PROVE  KInv'
<1>1. KTypeOK'
  BY DEF KTypeOK, Grows
<1>2. AckedOutcome'
  BY OutcomesStay DEF AckedOutcome
<1>3. ReadyOutcome'
  BY OutcomesStay DEF ReadyOutcome
<1> QED BY <1>1, <1>2, <1>3 DEF KInv

(* The topics change, the runtime does not.                                      *)
LEMMA ProducersInv ==
  ASSUME IInv, KInv, Grows, UNCHANGED <<acked, step, mode, held>>
  PROVE  KInv'
BY KeepsInv DEF KInv, KTypeOK

LEMMA PublishInv ==
  ASSUME IInv, KInv, NEW p \in Partitions, NEW m \in Messages, Publish(p, m)
  PROVE  KInv'
<1>1. PICK content \in Fresh[m] : Write(p, Named(m, content))
  BY DEF Publish
<1>2. UNCHANGED <<tier, done, dropped, dlq, step>>
  BY DEF Publish, retries, ends
<1>3. UNCHANGED <<acked, mode, held>>
  BY <1>1 DEF Write, Produce
<1>4. Grows
  BY <1>1, <1>2, NamedType, WriteGrows DEF KInv
<1> QED BY <1>2, <1>3, <1>4, ProducersInv

LEMMA PublishDelayedInv ==
  ASSUME IInv, KInv, NEW m \in Messages, PublishDelayed(m)
  PROVE  KInv'
<1>1. PICK content \in Fresh[m], n \in Tiers : Park(Named(m, content), n)
  BY DEF PublishDelayed
<1>2. UNCHANGED <<log, end, done, dropped, dlq, acked, step, mode, held>>
  BY DEF PublishDelayed, ends, vars
<1>3. Grows
  BY <1>1, <1>2, NamedType, ParkGrows DEF KInv
<1> QED BY <1>2, <1>3, ProducersInv

LEMMA ReinjectInv ==
  ASSUME IInv, KInv, NEW p \in Partitions, Reinject(p)
  PROVE  KInv'
<1>1. PICK n \in Tiers : \E i \in (1 .. Len(tier[n])) \ moved[n] : Write(p, tier[n][i])
  BY DEF Reinject
<1>2. PICK i \in 1 .. Len(tier[n]) : Write(p, tier[n][i])
  BY <1>1
<1>3. PICK r : r = tier[n][i]
  OBVIOUS
<1>4. r \in Records
  BY <1>2, <1>3 DEF KInv, KTypeOK
<1>5. UNCHANGED <<tier, done, dropped, dlq, step>>
  BY DEF Reinject, ends
<1>6. Write(p, r)
  BY <1>2, <1>3
<1>7. UNCHANGED <<acked, mode, held>>
  BY <1>2 DEF Write, Produce
<1>8. Grows
  BY <1>4, <1>5, <1>6, WriteGrows DEF KInv
<1> QED BY <1>5, <1>7, <1>8, ProducersInv

LEMMA RevokedInv ==
  ASSUME IInv, KInv, NEW p \in Partitions, Revoked(p)
  PROVE  KInv'
<1>1. UNCHANGED <<log, end, tier, done, dropped, dlq, acked, step, mode, held>>
  BY DEF Revoked, Revoke, settlement, topics, retries, ends
<1>2. Grows
  BY <1>1, StillGrows DEF KInv
<1> QED BY <1>1, <1>2, ProducersInv

LEMMA BooksInv ==
  ASSUME IInv, KInv, NEW c \in Consumers, Books(c)
  PROVE  KInv'
<1>1. UNCHANGED <<log, end, tier, done, dropped, dlq, acked, step>>
  BY DEF Books, settlement, topics, retries, ends, BeginPop, Poll, PollNothing, Assign
<1>2. Grows
  BY <1>1, StillGrows DEF KInv
<1>3. BeginPop(c) \/ Poll(c) \/ PollNothing(c) \/ \E p \in Partitions : Assign(p, c)
  BY DEF Books
<1>4. step' \in [Consumers -> Steps]
  BY <1>1 DEF KInv, KTypeOK
<1>5. \A d \in Consumers :
        /\ mode'[d] = "polling" => held'[d] = {}
        /\ mode'[d] = "working" => \E h \in Handles : held'[d] = {h}
        /\ mode'[d] = "working" /\ step[d] # "route" => mode[d] = "working" /\ held'[d] = held[d]
        /\ mode'[d] # "working" => step[d] = "route"
  BY <1>3, HoldsAfterBooks DEF KInv
<1> QED BY <1>1, <1>2, <1>4, <1>5, KeepsInv

-----------------------------------------------------------------------------
(* The runtime: what it decides, writes and acknowledges.                        *)

LEMMA DecidesInv ==
  ASSUME IInv, KInv, NEW c \in Consumers,
         Undecodable(c) \/ HandlerReturns(c) \/ HandlerRaises(c)
  PROVE  KInv'
<1> USE DEF KInv
<1>1. /\ UNCHANGED <<log, end, tier, dropped, dlq, acked, mode, held>>
      /\ done \subseteq done' /\ mode[c] = "working"
  BY DEF Undecodable, HandlerReturns, HandlerRaises, At, vars, topics, retries, ends
<1>2. Grows
  BY <1>1, StillGrows
<1>3. PICK s \in Steps : step' = [step EXCEPT ![c] = s] /\ (s = "ack" => HandlerReturns(c))
  BY DEF Undecodable, HandlerReturns, HandlerRaises, To, RouteUndecodable, RetryOrDeadLetter, Steps
<1>4. step' \in [Consumers -> Steps]
  BY <1>3 DEF KTypeOK
<1>5. ASSUME HandlerReturns(c) PROVE Outcome(Rec(c))'
  <2>1. Rec(c)' = Rec(c)
    BY <1>1 DEF Rec, Holds
  <2>2. Rec(c).msg \in done'
    BY <1>5 DEF HandlerReturns, Msg
  <2> QED BY <2>1, <2>2 DEF Outcome, Over
<1>6. \A d \in Consumers : d # c => step'[d] = step[d]
  BY <1>3 DEF KTypeOK
<1>7. step'[c] = "ack" => Outcome(Rec(c))'
  BY <1>3, <1>5 DEF KTypeOK
<1>8. \A d \in Consumers : mode[d] # "working" => step'[d] = "route"
  BY <1>1, <1>6 DEF KTypeOK
<1>9. \A d \in Consumers :
        /\ mode'[d] = "polling" => held'[d] = {}
        /\ mode'[d] = "working" => \E h \in Handles : held'[d] = {h}
  BY <1>1 DEF KTypeOK
<1>10. \A d \in Consumers : mode'[d] = "working" /\ step'[d] = "ack" =>
         \/ mode[d] = "working" /\ step[d] = "ack" /\ held'[d] = held[d]
         \/ Outcome(Rec(d))'
  BY <1>1, <1>6, <1>7
<1> QED BY <1>1, <1>2, <1>4, <1>8, <1>9, <1>10, KeepsInv

(* A write that landed is the outcome of the record it was made for: the retried *)
(* copy has one attempt more.                                                    *)
LEMMA LandedOutcome ==
  ASSUME IInv, KInv, NEW c \in Consumers, mode[c] = "working", Lands(c),
         UNCHANGED <<log, end, done, dropped>>
  PROVE  /\ Grows
         /\ held'[c] = held[c] => Outcome(Rec(c))'
<1> USE DEF KInv
<1>1. PICK r \in Records : r = Rec(c)
  BY RecordsRead
<1>2. held'[c] = held[c] => Rec(c)' = r
  BY <1>1 DEF Rec, Holds
<1>3. CASE step[c] = "retry" /\ Park(Redelivered(Rec(c)), TierFor(AttemptsBefore(Rec(c)))) /\ UNCHANGED dlq
  <2>1. PICK q : q = Redelivered(r)
    OBVIOUS
  <2>2. PICK n : n = TierFor(AttemptsBefore(r))
    OBVIOUS
  <2>3. /\ q \in Records /\ q.msg = r.msg
        /\ AttemptsBefore(r) \in Nat /\ AttemptsBefore(q) = AttemptsBefore(r) + 1
    BY <2>1, RedeliveredType
  <2>4. n \in Tiers
    BY <2>2, <2>3, TierForType
  <2>5. Park(q, n)
    BY <1>1, <1>3, <2>1, <2>2
  <2>6. Grows /\ \E i \in 1 .. Len(tier'[n]) : tier'[n][i] = q
    BY <1>3, <2>3, <2>4, <2>5, ParkGrows
  <2>7. q \in OnTier'
    BY <2>4, <2>6 DEF OnTier
  <2>8. AttemptsBefore(q) > AttemptsBefore(r)
    BY <2>3
  <2>9. Outcome(r)'
    BY <2>3, <2>7, <2>8 DEF Outcome
  <2> QED BY <1>2, <2>6, <2>9
<1>4. CASE dlq' = dlq \cup {Msg(c)} /\ UNCHANGED retries
  <2>1. Grows
    BY <1>4, StillGrows DEF retries
  <2>2. Outcome(r)'
    BY <1>1, <1>4 DEF Outcome, Over, Msg
  <2> QED BY <1>2, <2>1, <2>2
<1> QED BY <1>3, <1>4 DEF Lands

LEMMA ConfirmedInv ==
  ASSUME IInv, KInv, NEW c \in Consumers, Confirmed(c)
  PROVE  KInv'
<1> USE DEF KInv
<1>1. /\ UNCHANGED <<log, end, done, dropped, acked, mode, held>>
      /\ mode[c] = "working" /\ Lands(c) /\ step' = [step EXCEPT ![c] = "ack"]
  BY DEF Confirmed, To, vars
<1>2. Grows /\ Outcome(Rec(c))'
  BY <1>1, LandedOutcome
<1>3. step' \in [Consumers -> Steps] /\ \A d \in Consumers : d # c => step'[d] = step[d]
  BY <1>1 DEF KTypeOK, Steps
<1>4. \A d \in Consumers :
        /\ mode'[d] = "polling" => held'[d] = {}
        /\ mode'[d] = "working" => \E h \in Handles : held'[d] = {h}
        /\ mode'[d] # "working" => step'[d] = "route"
  BY <1>1, <1>3 DEF KTypeOK
<1>5. \A d \in Consumers : mode'[d] = "working" /\ step'[d] = "ack" =>
         \/ mode[d] = "working" /\ step[d] = "ack" /\ held'[d] = held[d]
         \/ Outcome(Rec(d))'
  BY <1>1, <1>2, <1>3
<1> QED BY <1>1, <1>2, <1>3, <1>4, <1>5, KeepsInv

(* A consumer that is done with its record is idle and undecided.                *)
LEMMA IdleTypes ==
  ASSUME IInv, KInv, NEW c \in Consumers,
         mode' = [mode EXCEPT ![c] = "idle"], held' = [held EXCEPT ![c] = {}],
         step' = [step EXCEPT ![c] = "route"]
  PROVE  /\ step' \in [Consumers -> Steps]
         /\ \A d \in Consumers :
              /\ mode'[d] = "polling" => held'[d] = {}
              /\ mode'[d] = "working" => \E h \in Handles : held'[d] = {h}
              /\ mode'[d] # "working" => step'[d] = "route"
              /\ mode'[d] = "working" /\ step'[d] = "ack" =>
                   mode[d] = "working" /\ step[d] = "ack" /\ held'[d] = held[d]
BY DEF KInv, KTypeOK, Steps, IInv, TypeOK

LEMMA UnconfirmedInv ==
  ASSUME IInv, KInv, NEW c \in Consumers, Unconfirmed(c)
  PROVE  KInv'
<1> USE DEF KInv
<1>1. /\ Rewind(c) \/ Abandon(c)
      /\ mode[c] = "working" /\ step' = [step EXCEPT ![c] = "route"]
      /\ Lands(c) \/ UNCHANGED <<retries, dlq>>
      /\ UNCHANGED <<log, done, dropped>>
  BY DEF Unconfirmed, AfterUnconfirmed, To
<1>2. /\ mode' = [mode EXCEPT ![c] = "idle"] /\ held' = [held EXCEPT ![c] = {}]
      /\ UNCHANGED <<end, acked>>
  BY <1>1, IdleAfterSettling DEF Rewind, Abandon
<1>3. Grows
  <2>1. CASE Lands(c)
    BY <1>1, <1>2, <2>1, LandedOutcome
  <2>2. CASE UNCHANGED <<retries, dlq>>
    BY <1>1, <1>2, <2>2, StillGrows DEF retries
  <2> QED BY <1>1, <2>1, <2>2
<1> QED BY <1>1, <1>2, <1>3, IdleTypes, KeepsInv

LEMMA CrashInv ==
  ASSUME IInv, KInv, NEW c \in Consumers, CrashAnywhere(c)
  PROVE  KInv'
<1> USE DEF KInv
<1>1. /\ step' = [step EXCEPT ![c] = "route"]
      /\ UNCHANGED <<log, tier, done, dropped, dlq, acked>>
  BY DEF CrashAnywhere, Crash, To, topics, retries, ends
<1>2. /\ mode' = [mode EXCEPT ![c] = "idle"] /\ held' = [held EXCEPT ![c] = {}]
      /\ UNCHANGED end
  BY IdleAfterSettling DEF CrashAnywhere
<1>3. Grows
  BY <1>1, <1>2, StillGrows
<1> QED BY <1>1, <1>2, <1>3, IdleTypes, KeepsInv

(* ack(): only of a handled, a written or a dropped record.                      *)
LEMMA SettleInv ==
  ASSUME IInv, KInv, NEW c \in Consumers, SettleHeld(c)
  PROVE  KInv'
<1> USE DEF KInv
<1>1. /\ step[c] \in {"ack", "drop"} /\ Settle(c)
      /\ step' = [step EXCEPT ![c] = "route"]
      /\ UNCHANGED <<log, tier, done, dlq>>
      /\ dropped' = IF step[c] = "drop" THEN dropped \cup {Msg(c)} ELSE dropped
  BY DEF SettleHeld, To, topics, retries
<1>2. /\ mode' = [mode EXCEPT ![c] = "idle"] /\ held' = [held EXCEPT ![c] = {}]
      /\ UNCHANGED end
  BY <1>1, IdleAfterSettling
<1>3. Grows
  BY <1>1, <1>2, StillGrows
<1>4. PICK h \in held[c] : Ack(c, h)
  BY <1>1 DEF Settle
<1>5. mode[c] = "working" /\ acked' = acked \cup {<<h.partition, h.offset>>}
  BY <1>4 DEF Ack, Record
<1>6. h = Holds(c)
  BY <1>4, <1>5, RecordsRead
<1>7. PICK p \in Partitions, o \in Nat : p = h.partition /\ o = h.offset /\ o < end[p]
  BY <1>5, <1>6, RecordsRead
<1>8. Outcome(log[p][o + 1])'
  <2>1. log[p][o + 1] = Rec(c) /\ log'[p] = log[p]
    BY <1>1, <1>6, <1>7 DEF Rec
  <2>2. PICK r : r = Rec(c)
    OBVIOUS
  <2>3. CASE step[c] = "drop"
    BY <1>1, <2>1, <2>3 DEF Outcome, Over, Msg
  <2>4. CASE step[c] = "ack"
    <3>1. Outcome(r)
      BY <1>5, <2>2, <2>4 DEF ReadyOutcome
    <3>2. Outcome(r)'
      BY <1>3, <3>1, OutcomeStays
    <3> QED BY <2>1, <2>2, <3>2
  <2> QED BY <1>1, <2>3, <2>4
<1>9. AckedOutcome'
  <2> SUFFICES ASSUME NEW q \in Partitions, NEW u \in Nat, <<q, u>> \in acked'
               PROVE  u < end'[q] /\ Outcome(log[q][u + 1])'
    BY DEF AckedOutcome
  <2>1. CASE <<q, u>> \in acked
    BY <1>3, <2>1, OutcomesStay
  <2>2. CASE q = p /\ u = o
    BY <1>2, <1>7, <1>8, <2>2
  <2> QED BY <1>5, <1>7, <2>1, <2>2
<1>10. KTypeOK'
  BY <1>1, <1>2, <1>3, IdleTypes DEF KTypeOK, Grows
<1>11. ReadyOutcome'
  BY <1>1, <1>2, <1>3, IdleTypes, OutcomesStay DEF ReadyOutcome
<1> QED BY <1>9, <1>10, <1>11

-----------------------------------------------------------------------------
LEMMA KInitInv == KInit => KInv
<1> SUFFICES ASSUME KInit PROVE KInv
  OBVIOUS
<1>1. KTypeOK
  BY DEF KInit, Init, KTypeOK, Steps
<1>2. AckedOutcome /\ ReadyOutcome
  BY DEF KInit, Init, AckedOutcome, ReadyOutcome
<1> QED BY <1>1, <1>2 DEF KInv

LEMMA KNextInv == IInv /\ KInv /\ [KNext]_allvars => KInv'
<1> SUFFICES ASSUME IInv, KInv, [KNext]_allvars PROVE KInv'
  OBVIOUS
<1>1. CASE KNext
  BY <1>1, PublishInv, PublishDelayedInv, ReinjectInv, RevokedInv, BooksInv, DecidesInv,
     ConfirmedInv, UnconfirmedInv, SettleInv, CrashInv DEF KNext, Step
<1>2. CASE UNCHANGED allvars
  <2>1. UNCHANGED <<log, end, tier, done, dropped, dlq, acked, step, mode, held>>
    BY <1>2 DEF allvars, vars, settlement, topics, retries, ends
  <2> QED BY <2>1, StillGrows, ProducersInv DEF KInv
<1> QED BY <1>1, <1>2

(* The invariant of the settlement writes.                                       *)
THEOREM SettlementInvariant == KSpec => []KInv
<1>1. KSpec => []IInv
  BY BooksInvariant
<1> QED BY <1>1, KInitInv, KNextInv, PTL DEF KSpec

(* kafka_transport.py commits an offset only when every record below it has an   *)
(* outcome: handled, dropped, dead-lettered, or retried with one attempt more.   *)
THEOREM CommitsOutcomes == KSpec => []OutcomeBeforeCommit
<1>1. IInv /\ KInv => OutcomeBeforeCommit
  <2> SUFFICES ASSUME IInv, KInv, NEW p \in Partitions, NEW o \in 0 .. end[p] - 1, o < committed[p]
               PROVE  Outcome(log[p][o + 1])
    BY DEF OutcomeBeforeCommit
  <2>1. o \in Nat /\ o \in 0 .. MaxLen
    BY KafkaAssumption DEF IInv, TypeOK
  <2>2. <<p, o>> \in acked
    BY <2>1 DEF IInv, CommitOnlySettled
  <2> QED BY <2>1, <2>2 DEF KInv, AckedOutcome
<1> QED BY <1>1, BooksInvariant, SettlementInvariant, PTL

-----------------------------------------------------------------------------
(* Attempts: what the copies of a message say, and what its handler ran for.     *)

(* m has used up n attempts: each beyond those it came with stands for a run of  *)
(* the handler.                                                                  *)
Earned(m, n) == runs[m] = MaxAttempts \/ n <= Reconciled(first[m]) + runs[m]

(* A copy is the published record, or agrees with itself; its attempts are paid. *)
CopyKnown(k) ==
  /\ first[k.msg] # None /\ k.class = first[k.msg].class
  /\ k.header = k.body \/ first[k.msg] = [class |-> k.class, header |-> k.header, body |-> k.body]
  /\ k.class = "ok" => Earned(k.msg, AttemptsBefore(k))

(* What a dead letter has to show.                                               *)
Spent(m) ==
  first[m].class = "ok" => runs[m] > 0 /\ runs[m] + Reconciled(first[m]) >= MaxAttempts

(* So has the write a consumer is about to make for a record it could read.      *)
Granted(c) ==
  Rec(c).class = "ok" =>
    /\ runs[Msg(c)] > 0 /\ Earned(Msg(c), AttemptsBefore(Rec(c)) + 1)
    /\ step[c] = "dlq" => AttemptsBefore(Rec(c)) + 1 >= MaxAttempts

Writing(c) == mode[c] = "working" /\ step[c] \in {"retry", "dlq"}
Copies == OnWork \cup OnTier

BTypeOK == first \in [Messages -> Contents \cup {None}] /\ runs \in [Messages -> 0 .. MaxAttempts]

BudgetInv ==
  /\ BTypeOK
  /\ \A k \in Copies : CopyKnown(k)
  /\ \A c \in Consumers : Writing(c) => Granted(c)
  /\ \A m \in dlq : m \in Messages /\ first[m] # None /\ Spent(m)

(* Nothing published changes, and runs are not taken back.                       *)
Onward ==
  /\ BTypeOK'
  /\ \A m \in Messages : /\ first[m] # None => first'[m] = first[m]
                         /\ runs[m] <= runs'[m]

LEMMA ReconciledType ==
  ASSUME NEW r, r \in Records \/ r \in Contents
  PROVE  Reconciled(r) \in Nat
<1>1. Contents \subseteq [class : Classes, header : Nat \cup {NoHeader}, body : Nat]
  BY KafkaSettlementAssumption DEF Contents, Counts
<1>2. r.header \in Nat \cup {NoHeader} /\ r.body \in Nat
  BY <1>1 DEF Records
<1> QED BY <1>2 DEF Reconciled

LEMMA CopiesType ==
  ASSUME IInv, KTypeOK
  PROVE  Copies \subseteq Records
<1>1. ASSUME NEW p \in Partitions, NEW i \in 1 .. end[p] PROVE log[p][i] \in Records
  BY KafkaAssumption DEF KTypeOK
<1>2. ASSUME NEW n \in Tiers, NEW i \in 1 .. Len(tier[n]) PROVE tier[n][i] \in Records
  BY DEF KTypeOK
<1> QED BY <1>1, <1>2 DEF Copies, OnWork, OnTier

LEMMA EarnedStays ==
  ASSUME BTypeOK, Onward, NEW m \in Messages, NEW n \in Nat, first[m] # None, Earned(m, n)
  PROVE  Earned(m, n)'
<1>1. first'[m] = first[m] /\ first[m] \in Contents /\ Reconciled(first[m]) \in Nat
  BY ReconciledType DEF Onward, BTypeOK
<1>2. runs[m] \in 0 .. MaxAttempts /\ runs'[m] \in 0 .. MaxAttempts /\ runs[m] <= runs'[m]
  BY DEF Onward, BTypeOK
<1>3. Reconciled(first[m])' = Reconciled(first[m])
  BY <1>1 DEF Reconciled
<1> QED BY <1>1, <1>2, <1>3, KafkaSettlementAssumption DEF Earned

LEMMA CopyStays ==
  ASSUME BTypeOK, Onward, NEW k \in Records, CopyKnown(k)
  PROVE  CopyKnown(k)'
<1>1. k.msg \in Messages /\ first[k.msg] # None /\ first'[k.msg] = first[k.msg]
  BY DEF CopyKnown, Records, Onward
<1>2. AttemptsBefore(k) \in Nat
  BY RedeliveredType
<1>3. k.class = "ok" => Earned(k.msg, AttemptsBefore(k))'
  BY <1>1, <1>2, EarnedStays DEF CopyKnown
<1> QED BY <1>1, <1>3 DEF CopyKnown, AttemptsBefore

LEMMA SpentStays ==
  ASSUME BTypeOK, Onward, NEW m \in Messages, first[m] # None, Spent(m)
  PROVE  first'[m] # None /\ Spent(m)'
<1>1. first'[m] = first[m] /\ first[m] \in Contents /\ Reconciled(first[m]) \in Nat
  BY ReconciledType DEF Onward, BTypeOK
<1>2. runs[m] \in Nat /\ runs'[m] \in Nat /\ runs[m] <= runs'[m]
  BY DEF Onward, BTypeOK
<1>3. Reconciled(first'[m]) = Reconciled(first[m])
  BY <1>1
<1> QED BY <1>1, <1>2, <1>3, KafkaSettlementAssumption DEF Spent

(* What a consumer works on is a copy on the topic, and stays the same.          *)
LEMMA WorksOnCopy ==
  ASSUME IInv, KTypeOK, NEW c \in Consumers, mode[c] = "working"
  PROVE  Rec(c) \in Copies
<1>1. Holds(c).partition \in Partitions /\ Holds(c).offset + 1 \in 1 .. end[Holds(c).partition]
  BY RecordsRead, KafkaAssumption DEF IInv, TypeOK
<1> QED BY <1>1 DEF Rec, Copies, OnWork

LEMMA SameRecord ==
  ASSUME IInv, KTypeOK, Grows, NEW c \in Consumers, mode[c] = "working", held'[c] = held[c]
  PROVE  Rec(c)' = Rec(c)
<1>1. Holds(c)' = Holds(c)
  BY DEF Holds
<1>2. PICK p \in Partitions, o \in Nat : Holds(c).partition = p /\ Holds(c).offset = o /\ o < end[p]
  BY RecordsRead
<1>3. o + 1 \in 1 .. end[p]
  BY <1>2, KafkaAssumption DEF IInv, TypeOK
<1>4. log'[p][o + 1] = log[p][o + 1]
  BY <1>3 DEF Grows
<1> QED BY <1>1, <1>2, <1>4 DEF Rec

(* A step keeps the invariant when its new copies are known, and the writes it   *)
(* decides on and the dead letters it leaves are paid.                           *)
LEMMA KeepsBudget ==
  ASSUME IInv, KInv, BudgetInv, Grows, Onward,
         \A k \in Copies' : k \in Copies \/ CopyKnown(k)',
         \A c \in Consumers : Writing(c)' =>
           \/ mode[c] = "working" /\ step'[c] = step[c] /\ held'[c] = held[c]
           \/ Granted(c)',
         \A m \in dlq' : m \in dlq \/ (m \in Messages /\ first'[m] # None /\ Spent(m)')
  PROVE  BudgetInv'
<1> USE DEF KInv
<1>1. \A k \in Copies' : CopyKnown(k)'
  BY CopiesType, CopyStays DEF BudgetInv
<1>2. ASSUME NEW c \in Consumers, Writing(c)' PROVE Granted(c)'
  <2> SUFFICES ASSUME mode[c] = "working", step'[c] = step[c], held'[c] = held[c] PROVE Granted(c)'
    BY <1>2
  <2>1. Granted(c)
    BY <1>2 DEF Writing, BudgetInv
  <2>2. PICK r \in Records : r = Rec(c)
    BY RecordsRead
  <2>3. Rec(c)' = r /\ Msg(c)' = r.msg /\ Msg(c) = r.msg
    BY <2>2, SameRecord DEF Msg
  <2>4. r \in Copies /\ r.msg \in Messages /\ first[r.msg] # None
    BY <2>2, WorksOnCopy DEF BudgetInv, CopyKnown, Records
  <2>5. AttemptsBefore(r) \in Nat
    BY RedeliveredType
  <2>6. ASSUME r.class = "ok" PROVE runs[r.msg] > 0 /\ Earned(r.msg, AttemptsBefore(r) + 1)
    BY <2>1, <2>2, <2>3, <2>6 DEF Granted
  <2>7. ASSUME r.class = "ok" PROVE Earned(r.msg, AttemptsBefore(r) + 1)'
    BY <2>4, <2>5, <2>6, <2>7, EarnedStays DEF BudgetInv
  <2>8. ASSUME r.class = "ok" PROVE runs'[r.msg] > 0
    BY <2>4, <2>6, <2>8 DEF Onward, BudgetInv, BTypeOK
  <2>9. step[c] = "dlq" /\ r.class = "ok" => AttemptsBefore(r) + 1 >= MaxAttempts
    BY <2>1, <2>2 DEF Granted
  <2>10. AttemptsBefore(Rec(c))' = AttemptsBefore(r)
    BY <2>3 DEF AttemptsBefore, Reconciled
  <2>11. Earned(Msg(c), AttemptsBefore(Rec(c)) + 1)' = Earned(r.msg, AttemptsBefore(r) + 1)'
    BY <2>3, <2>10 DEF Earned
  <2> QED BY <2>3, <2>7, <2>8, <2>9, <2>10, <2>11 DEF Granted
<1>3. ASSUME NEW m \in dlq' PROVE m \in Messages /\ first'[m] # None /\ Spent(m)'
  BY <1>3, SpentStays DEF BudgetInv
<1> QED BY <1>1, <1>2, <1>3 DEF BudgetInv, Onward

(* Nothing changes that the counts depend on.                                    *)
LEMMA StillOnward ==
  ASSUME BudgetInv, UNCHANGED <<first, runs>>
  PROVE  Onward
BY DEF BudgetInv, BTypeOK, Onward

LEMMA SameCopies ==
  ASSUME UNCHANGED <<log, end, tier>>
  PROVE  Copies' = Copies
BY DEF Copies, OnWork, OnTier

LEMMA WrittenCopy ==
  ASSUME IInv, KTypeOK, NEW p \in Partitions, NEW r, Write(p, r), UNCHANGED tier
  PROVE  Copies' \subseteq Copies \cup {r}
<1>1. log \in [Partitions -> Seq(Records)] /\ end \in [Partitions -> Nat]
  BY KafkaAssumption DEF KTypeOK, IInv, TypeOK
<1>2. log' = [log EXCEPT ![p] = Append(log[p], r)] /\ end' = [end EXCEPT ![p] = end[p] + 1]
  BY DEF Write, Produce
<1>3. ASSUME NEW q \in Partitions, NEW i \in 1 .. end'[q]
      PROVE  log'[q][i] = r \/ log'[q][i] \in OnWork
  <2>1. log[q] \in Seq(Records) /\ Len(log[q]) = end[q] /\ end[q] \in Nat
    BY <1>1 DEF KTypeOK
  <2>2. CASE q = p /\ i = end[q] + 1
    BY <1>1, <1>2, <2>1, <2>2
  <2>3. CASE ~(q = p /\ i = end[q] + 1)
    <3>1. i \in 1 .. end[q]
      BY <1>1, <1>2, <1>3, <2>1, <2>3
    <3>2. log'[q][i] = log[q][i]
      BY <1>1, <1>2, <2>1, <3>1
    <3> QED BY <3>1, <3>2 DEF OnWork
  <2> QED BY <2>2, <2>3
<1>4. OnTier' = OnTier
  BY DEF OnTier
<1> QED BY <1>3, <1>4 DEF Copies, OnWork

LEMMA ParkedCopy ==
  ASSUME KTypeOK, NEW n \in Tiers, NEW r, Park(r, n), UNCHANGED <<log, end>>
  PROVE  Copies' \subseteq Copies \cup {r}
<1>1. tier \in [Tiers -> Seq(Records)] /\ tier' = [tier EXCEPT ![n] = Append(tier[n], r)]
  BY DEF KTypeOK, Park
<1>2. ASSUME NEW m \in Tiers, NEW i \in 1 .. Len(tier'[m])
      PROVE  tier'[m][i] = r \/ tier'[m][i] \in OnTier
  <2>1. tier[m] \in Seq(Records)
    BY <1>1
  <2>2. CASE m = n /\ i = Len(tier[m]) + 1
    BY <1>1, <2>1, <2>2
  <2>3. CASE ~(m = n /\ i = Len(tier[m]) + 1)
    <3>1. i \in 1 .. Len(tier[m]) /\ tier'[m][i] = tier[m][i]
      BY <1>1, <1>2, <2>1, <2>3
    <3> QED BY <3>1 DEF OnTier
  <2> QED BY <2>2, <2>3
<1>3. OnWork' = OnWork
  BY DEF OnWork
<1> QED BY <1>2, <1>3 DEF Copies, OnTier

LEMMA NamedKnown ==
  ASSUME BudgetInv, NEW m \in Messages, NEW content \in Fresh[m], first[m] = None,
         first' = [first EXCEPT ![m] = content], UNCHANGED runs
  PROVE  Onward /\ CopyKnown(Named(m, content))'
<1>1. content \in Contents /\ content # None
  BY KafkaSettlementAssumption
<1>2. BTypeOK' /\ first'[m] = content
  BY <1>1 DEF BudgetInv, BTypeOK
<1>3. Onward
  BY <1>1, <1>2 DEF BudgetInv, BTypeOK, Onward
<1>4. content = [class |-> content.class, header |-> content.header, body |-> content.body]
  BY <1>1 DEF Contents
<1>5. PICK r : r = Named(m, content)
  OBVIOUS
<1>6. r.msg = m /\ r.class = content.class /\ r.header = content.header /\ r.body = content.body
  BY <1>5 DEF Named
<1>7. r.class = "ok" => AttemptsBefore(r) = Reconciled(content)
  BY <1>6 DEF AttemptsBefore, Reconciled
<1>8. Reconciled(content) \in Nat /\ runs'[m] \in Nat
  BY <1>1, <1>2, ReconciledType, KafkaSettlementAssumption DEF BTypeOK
<1>9. r.class = "ok" => Earned(m, AttemptsBefore(r))'
  BY <1>2, <1>7, <1>8 DEF Earned, AttemptsBefore, Reconciled
<1>10. CopyKnown(r)'
  BY <1>1, <1>2, <1>4, <1>6, <1>9 DEF CopyKnown
<1> QED BY <1>3, <1>5, <1>10

LEMMA PublishBudget ==
  ASSUME IInv, KInv, BudgetInv, NEW p \in Partitions, NEW m \in Messages, Publish(p, m)
  PROVE  BudgetInv'
<1> USE DEF KInv
<1>1. PICK content \in Fresh[m] : first' = [first EXCEPT ![m] = content] /\ Write(p, Named(m, content))
  BY DEF Publish
<1>2. UNCHANGED <<tier, done, dropped, dlq, step, runs>> /\ first[m] = None
  BY DEF Publish, retries, ends
<1>3. UNCHANGED <<mode, held>>
  BY <1>1 DEF Write, Produce
<1>4. Grows
  BY <1>1, <1>2, NamedType, WriteGrows
<1>5. Onward /\ CopyKnown(Named(m, content))'
  BY <1>1, <1>2, NamedKnown
<1>6. \A k \in Copies' : k \in Copies \/ CopyKnown(k)'
  BY <1>1, <1>2, <1>5, WrittenCopy
<1>7. \A c \in Consumers : Writing(c)' =>
        mode[c] = "working" /\ step'[c] = step[c] /\ held'[c] = held[c]
  BY <1>2, <1>3 DEF Writing
<1> QED BY <1>2, <1>4, <1>5, <1>6, <1>7, KeepsBudget

LEMMA PublishDelayedBudget ==
  ASSUME IInv, KInv, BudgetInv, NEW m \in Messages, PublishDelayed(m)
  PROVE  BudgetInv'
<1> USE DEF KInv
<1>1. PICK content \in Fresh[m], n \in Tiers :
        first' = [first EXCEPT ![m] = content] /\ Park(Named(m, content), n)
  BY DEF PublishDelayed
<1>2. UNCHANGED <<log, end, done, dropped, dlq, step, mode, held, runs>> /\ first[m] = None
  BY DEF PublishDelayed, ends, vars
<1>3. Grows
  BY <1>1, <1>2, NamedType, ParkGrows
<1>4. Onward /\ CopyKnown(Named(m, content))'
  BY <1>1, <1>2, NamedKnown
<1>5. \A k \in Copies' : k \in Copies \/ CopyKnown(k)'
  BY <1>1, <1>2, <1>4, ParkedCopy
<1>6. \A c \in Consumers : Writing(c)' =>
        mode[c] = "working" /\ step'[c] = step[c] /\ held'[c] = held[c]
  BY <1>2 DEF Writing
<1> QED BY <1>2, <1>3, <1>4, <1>5, <1>6, KeepsBudget

LEMMA ReinjectBudget ==
  ASSUME IInv, KInv, BudgetInv, NEW p \in Partitions, Reinject(p)
  PROVE  BudgetInv'
<1> USE DEF KInv
<1>1. PICK n \in Tiers : \E i \in (1 .. Len(tier[n])) \ moved[n] : Write(p, tier[n][i])
  BY DEF Reinject
<1>2. PICK i \in 1 .. Len(tier[n]) : Write(p, tier[n][i])
  BY <1>1
<1>3. PICK r : r = tier[n][i]
  OBVIOUS
<1>4. r \in Records /\ r \in Copies
  BY <1>2, <1>3 DEF KTypeOK, Copies, OnTier
<1>5. UNCHANGED <<tier, done, dropped, dlq, step, first, runs>>
  BY DEF Reinject, ends
<1>6. Write(p, r)
  BY <1>2, <1>3
<1>7. UNCHANGED <<mode, held>>
  BY <1>2 DEF Write, Produce
<1>8. Grows /\ Onward
  BY <1>4, <1>5, <1>6, WriteGrows, StillOnward
<1>9. Copies' \subseteq Copies
  BY <1>4, <1>5, <1>6, WrittenCopy
<1>10. \A c \in Consumers : Writing(c)' =>
        mode[c] = "working" /\ step'[c] = step[c] /\ held'[c] = held[c]
  BY <1>5, <1>7 DEF Writing
<1> QED BY <1>5, <1>8, <1>9, <1>10, KeepsBudget

(* The topics and the counts stay, and nobody decides on a write.                *)
LEMMA QuietBudget ==
  ASSUME IInv, KInv, BudgetInv, UNCHANGED <<log, end, tier, first, runs, dlq>>,
         done \subseteq done', dropped \subseteq dropped',
         \A c \in Consumers : Writing(c)' =>
           mode[c] = "working" /\ step'[c] = step[c] /\ held'[c] = held[c]
  PROVE  BudgetInv'
<1>1. Grows /\ Onward /\ Copies' = Copies
  BY StillGrows, StillOnward, SameCopies DEF KInv
<1> QED BY <1>1, KeepsBudget

LEMMA BooksBudget ==
  ASSUME IInv, KInv, BudgetInv, NEW c \in Consumers, Books(c)
  PROVE  BudgetInv'
<1>1. UNCHANGED <<log, end, tier, first, runs, done, dropped, dlq, step>>
  BY DEF Books, settlement, topics, retries, ends, BeginPop, Poll, PollNothing, Assign
<1>2. BeginPop(c) \/ Poll(c) \/ PollNothing(c) \/ \E p \in Partitions : Assign(p, c)
  BY DEF Books
<1>3. \A d \in Consumers : Writing(d)' =>
        mode[d] = "working" /\ step'[d] = step[d] /\ held'[d] = held[d]
  BY <1>1, <1>2, HoldsAfterBooks DEF KInv, Writing
<1> QED BY <1>1, <1>3, QuietBudget

LEMMA RevokedBudget ==
  ASSUME IInv, KInv, BudgetInv, NEW p \in Partitions, Revoked(p)
  PROVE  BudgetInv'
<1>1. UNCHANGED <<log, end, tier, first, runs, done, dropped, dlq, step, mode, held>>
  BY DEF Revoked, Revoke, settlement, topics, retries, ends
<1> QED BY <1>1, QuietBudget DEF Writing

(* A settled record, or a crash: the consumer is idle.                           *)
LEMMA IdleBudget ==
  ASSUME IInv, KInv, BudgetInv, NEW c \in Consumers,
         (Settle(c) \/ Crash(c)), step' = [step EXCEPT ![c] = "route"],
         UNCHANGED <<log, tier, first, runs, dlq>>,
         done \subseteq done', dropped \subseteq dropped'
  PROVE  BudgetInv'
<1>1. /\ mode' = [mode EXCEPT ![c] = "idle"] /\ held' = [held EXCEPT ![c] = {}]
      /\ UNCHANGED end
  BY IdleAfterSettling DEF KInv
<1>2. \A d \in Consumers : Writing(d)' =>
        mode[d] = "working" /\ step'[d] = step[d] /\ held'[d] = held[d]
  BY <1>1 DEF Writing, KInv, KTypeOK, IInv, TypeOK
<1> QED BY <1>1, <1>2, QuietBudget

LEMMA SettleBudget ==
  ASSUME IInv, KInv, BudgetInv, NEW c \in Consumers, SettleHeld(c)
  PROVE  BudgetInv'
BY IdleBudget DEF SettleHeld, To, topics, retries

LEMMA CrashBudget ==
  ASSUME IInv, KInv, BudgetInv, NEW c \in Consumers, CrashAnywhere(c)
  PROVE  BudgetInv'
BY IdleBudget DEF CrashAnywhere, To, topics, retries, ends

(* The handler runs, or the record cannot be read.                               *)
LEMMA DecidesBudget ==
  ASSUME IInv, KInv, BudgetInv, NEW c \in Consumers,
         Undecodable(c) \/ HandlerReturns(c) \/ HandlerRaises(c)
  PROVE  BudgetInv'
<1> USE DEF KInv
<1>1. /\ UNCHANGED <<log, end, tier, first, dlq, mode, held>>
      /\ done \subseteq done' /\ dropped \subseteq dropped' /\ mode[c] = "working"
  BY DEF Undecodable, HandlerReturns, HandlerRaises, At, vars, topics, retries, ends
<1>2. Grows /\ Copies' = Copies
  BY <1>1, StillGrows, SameCopies
<1>3. PICK r \in Records : r = Rec(c)
  BY <1>1, RecordsRead
<1>4. Rec(c)' = r /\ Msg(c) = r.msg /\ Msg(c)' = r.msg
  BY <1>1, <1>2, <1>3, SameRecord DEF Msg
<1>5. r.msg \in Messages /\ CopyKnown(r) /\ AttemptsBefore(r) \in Nat
  BY <1>1, <1>3, WorksOnCopy, RedeliveredType DEF BudgetInv, Records
<1>6. runs \in [Messages -> 0 .. MaxAttempts] /\ MaxAttempts \in Nat \ {0}
  BY KafkaSettlementAssumption DEF BudgetInv, BTypeOK
<1>7. \/ UNCHANGED runs
      \/ runs' = [runs EXCEPT ![r.msg] = IF runs[r.msg] < MaxAttempts THEN runs[r.msg] + 1 ELSE runs[r.msg]]
  BY <1>4 DEF Undecodable, HandlerReturns, HandlerRaises, Ran
<1>8. Onward
  <2>1. runs' \in [Messages -> 0 .. MaxAttempts] /\ \A m \in Messages : runs[m] <= runs'[m]
    BY <1>5, <1>6, <1>7
  <2> QED BY <1>1, <2>1 DEF Onward, BudgetInv, BTypeOK
<1>9. \A d \in Consumers : d # c => step'[d] = step[d]
  BY DEF Undecodable, HandlerReturns, HandlerRaises, To, KTypeOK
<1>10. Writing(c)' => Granted(c)'
  <2> SUFFICES ASSUME Writing(c)', r.class = "ok" PROVE Granted(c)'
    BY <1>4 DEF Granted
  <2>1. HandlerRaises(c)
    <3>1. HandlerReturns(c) => step'[c] = "ack"
      BY DEF HandlerReturns, To, KTypeOK
    <3> QED BY <1>3, <3>1 DEF Undecodable, Writing
  <2>2. step'[c] = RetryOrDeadLetter(r)
    BY <1>3, <2>1 DEF HandlerRaises, To, KTypeOK
  <2>3. Counted(r) = AttemptsBefore(r)
    BY DEF Counted, AttemptsBefore
  <2>4. step'[c] = "dlq" => AttemptsBefore(r) + 1 >= MaxAttempts
    BY <1>5, <1>6, <2>2, <2>3 DEF RetryOrDeadLetter
  <2>5. runs' = [runs EXCEPT ![r.msg] = IF runs[r.msg] < MaxAttempts THEN runs[r.msg] + 1 ELSE runs[r.msg]]
    BY <1>4, <2>1 DEF HandlerRaises, Ran
  <2>6. first[r.msg] \in Contents /\ Reconciled(first[r.msg]) \in Nat
    BY <1>5, ReconciledType DEF CopyKnown, BudgetInv, BTypeOK
  <2>7. runs[r.msg] = MaxAttempts \/ AttemptsBefore(r) <= Reconciled(first[r.msg]) + runs[r.msg]
    BY <1>5 DEF CopyKnown, Earned
  <2>8. /\ runs'[r.msg] > 0
        /\ \/ runs'[r.msg] = MaxAttempts
           \/ AttemptsBefore(r) + 1 <= Reconciled(first[r.msg]) + runs'[r.msg]
    BY <1>5, <1>6, <2>5, <2>6, <2>7
  <2>9. Earned(r.msg, AttemptsBefore(r) + 1)'
    BY <1>1, <2>8 DEF Earned, Reconciled, AttemptsBefore
  <2>10. AttemptsBefore(Rec(c))' = AttemptsBefore(r)
    BY <1>4 DEF AttemptsBefore, Reconciled
  <2>11. Earned(Msg(c), AttemptsBefore(Rec(c)) + 1)'
    BY <1>4, <2>9, <2>10 DEF Earned
  <2> QED BY <1>4, <2>4, <2>8, <2>10, <2>11 DEF Granted
<1>11. \A d \in Consumers : Writing(d)' =>
         \/ mode[d] = "working" /\ step'[d] = step[d] /\ held'[d] = held[d]
         \/ Granted(d)'
  BY <1>1, <1>9, <1>10 DEF Writing
<1> QED BY <1>1, <1>2, <1>8, <1>11, KeepsBudget

(* What a write that lands leaves behind.                                        *)
LEMMA LandsKnown ==
  ASSUME IInv, KInv, BudgetInv, NEW c \in Consumers, Writing(c), Lands(c),
         UNCHANGED <<log, end, done, dropped, first, runs>>
  PROVE  /\ Grows /\ Onward
         /\ \A k \in Copies' : k \in Copies \/ CopyKnown(k)'
         /\ \A m \in dlq' : m \in dlq \/ (m \in Messages /\ first'[m] # None /\ Spent(m)')
<1> USE DEF KInv
<1>1. Grows /\ Onward
  BY LandedOutcome, StillOnward DEF Writing
<1>2. PICK r \in Records : r = Rec(c)
  BY RecordsRead DEF Writing
<1>3. r.msg \in Messages /\ CopyKnown(r) /\ AttemptsBefore(r) \in Nat /\ Msg(c) = r.msg
  BY <1>2, WorksOnCopy, RedeliveredType DEF BudgetInv, Records, Msg, Writing
<1>4. r.class = "ok" =>
        /\ runs[r.msg] > 0 /\ Earned(r.msg, AttemptsBefore(r) + 1)
        /\ step[c] = "dlq" => AttemptsBefore(r) + 1 >= MaxAttempts
  BY <1>2, <1>3 DEF BudgetInv, Granted
<1>5. CASE step[c] = "retry" /\ Park(Redelivered(Rec(c)), TierFor(AttemptsBefore(Rec(c)))) /\ UNCHANGED dlq
  <2>1. PICK q : q = Redelivered(r)
    OBVIOUS
  <2>2. /\ q \in Records /\ q.msg = r.msg /\ q.class = r.class /\ q.header = q.body
        /\ AttemptsBefore(q) = AttemptsBefore(r) + 1
    BY <2>1, RedeliveredType DEF Redelivered, WithCounts
  <2>3. CopyKnown(q)
    BY <1>3, <1>4, <2>2 DEF CopyKnown
  <2>4. CopyKnown(q)'
    BY <1>1, <2>2, <2>3, CopyStays DEF BudgetInv
  <2>5. PICK n \in Tiers : n = TierFor(AttemptsBefore(r))
    BY <1>3, TierForType
  <2>6. Copies' \subseteq Copies \cup {q}
    BY <1>2, <1>5, <2>1, <2>5, ParkedCopy
  <2> QED BY <1>1, <1>5, <2>4, <2>6
<1>6. CASE step[c] = "dlq" /\ dlq' = dlq \cup {Msg(c)} /\ UNCHANGED retries
  <2>1. Copies' = Copies
    BY <1>6, SameCopies DEF retries
  <2>2. first[r.msg] \in Contents /\ first[r.msg] # None /\ first[r.msg].class = r.class
    BY <1>3 DEF CopyKnown, BudgetInv, BTypeOK
  <2>3. Reconciled(first[r.msg]) \in Nat /\ runs[r.msg] \in Nat /\ MaxAttempts \in Nat
    BY <1>3, <2>2, ReconciledType, KafkaSettlementAssumption DEF BudgetInv, BTypeOK
  <2>4. Spent(r.msg)
    BY <1>3, <1>4, <1>6, <2>2, <2>3 DEF Spent, Earned
  <2>5. first'[r.msg] # None /\ Spent(r.msg)'
    BY <1>1, <1>3, <2>2, <2>4, SpentStays DEF BudgetInv
  <2> QED BY <1>1, <1>3, <1>6, <2>1, <2>5
<1> QED BY <1>5, <1>6 DEF Lands

LEMMA ConfirmedBudget ==
  ASSUME IInv, KInv, BudgetInv, NEW c \in Consumers, Confirmed(c)
  PROVE  BudgetInv'
<1>1. /\ UNCHANGED <<log, end, done, dropped, first, runs, mode, held>>
      /\ Writing(c) /\ Lands(c) /\ step' = [step EXCEPT ![c] = "ack"]
  BY DEF Confirmed, To, vars, Writing
<1>2. \A d \in Consumers : Writing(d)' =>
        mode[d] = "working" /\ step'[d] = step[d] /\ held'[d] = held[d]
  BY <1>1 DEF Writing, KInv, KTypeOK
<1> QED BY <1>1, <1>2, LandsKnown, KeepsBudget

LEMMA UnconfirmedBudget ==
  ASSUME IInv, KInv, BudgetInv, NEW c \in Consumers, Unconfirmed(c)
  PROVE  BudgetInv'
<1> USE DEF KInv
<1>1. /\ Rewind(c) \/ Abandon(c)
      /\ Writing(c) /\ step' = [step EXCEPT ![c] = "route"]
      /\ Lands(c) \/ UNCHANGED <<retries, dlq>>
      /\ UNCHANGED <<log, done, dropped, first, runs>>
  BY DEF Unconfirmed, AfterUnconfirmed, To, Writing
<1>2. /\ mode' = [mode EXCEPT ![c] = "idle"] /\ held' = [held EXCEPT ![c] = {}]
      /\ UNCHANGED end
  BY <1>1, IdleAfterSettling DEF Rewind, Abandon
<1>3. \A d \in Consumers : Writing(d)' =>
        mode[d] = "working" /\ step'[d] = step[d] /\ held'[d] = held[d]
  BY <1>1, <1>2 DEF Writing, KTypeOK, IInv, TypeOK
<1>4. CASE Lands(c)
  BY <1>1, <1>2, <1>3, <1>4, LandsKnown, KeepsBudget
<1>5. CASE UNCHANGED <<retries, dlq>>
  BY <1>1, <1>2, <1>3, <1>5, QuietBudget DEF retries
<1> QED BY <1>1, <1>4, <1>5

LEMMA KInitBudget == KInit => BudgetInv
<1> SUFFICES ASSUME KInit PROVE BudgetInv
  OBVIOUS
<1>1. BTypeOK
  BY KafkaSettlementAssumption DEF KInit, BTypeOK
<1>2. Copies = {}
  BY DEF KInit, Init, Copies, OnWork, OnTier
<1> QED BY <1>1, <1>2 DEF KInit, Init, BudgetInv, Writing

LEMMA KNextBudget == IInv /\ KInv /\ BudgetInv /\ [KNext]_allvars => BudgetInv'
<1> SUFFICES ASSUME IInv, KInv, BudgetInv, [KNext]_allvars PROVE BudgetInv'
  OBVIOUS
<1>1. CASE KNext
  BY <1>1, PublishBudget, PublishDelayedBudget, ReinjectBudget, RevokedBudget, BooksBudget,
     DecidesBudget, ConfirmedBudget, UnconfirmedBudget, SettleBudget, CrashBudget DEF KNext, Step
<1>2. CASE UNCHANGED allvars
  <2>1. UNCHANGED <<log, end, tier, first, runs, done, dropped, dlq, step, mode, held>>
    BY <1>2 DEF allvars, vars, settlement, topics, retries, ends
  <2> QED BY <2>1, QuietBudget DEF Writing
<1> QED BY <1>1, <1>2

THEOREM AttemptsInvariant == KSpec => []BudgetInv
BY BooksInvariant, SettlementInvariant, KInitBudget, KNextBudget, PTL DEF KSpec

(* redeliver() keeps the header and the body of a retried record in step, and    *)
(* nothing else writes a record that is not as its producer published it.        *)
THEOREM RetriesInStep == KSpec => []RetriedInStep
<1>1. BudgetInv => RetriedInStep
  BY DEF BudgetInv, Copies, CopyKnown, RetriedInStep
<1> QED BY <1>1, AttemptsInvariant, PTL

(* A readable message is dead-lettered only when its handler ran once for each   *)
(* attempt it had left, through any number of tiers, duplicates and crashes.     *)
THEOREM BudgetsAreSpent == KSpec => []FullBudget
<1>1. BudgetInv => FullBudget
  BY DEF BudgetInv, Spent, FullBudget
<1> QED BY <1>1, AttemptsInvariant, PTL

=============================================================================
