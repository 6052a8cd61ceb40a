-------------------------- MODULE KafkaRetryProofs --------------------------
(***************************************************************************)
(* Proofs about KafkaRetry, for any re-injectors, partitions, tier, clocks *)
(* and log lengths.  CommitOnlyWritten and NoOvertaking rest on the same   *)
(* fact: below every record held in memory, and below the position of the  *)
(* owner, a record is on the work topic or held further ahead, also in the *)
(* memory of a re-injector that lost the partition (HeldInOrder).           *)
(* WriteBudget counts tickets: the places from which a record may yet be    *)
(* written, each paid for by its parking or a failure (WritesPaid).         *)
(***************************************************************************)
EXTENDS KafkaRetry, FiniteSetTheorems, WellFoundedInduction, TLAPS

(* The books agree in length with the tier partition.                           *)
Bounds ==
  \A p \in Partitions :
    /\ Len(writes[p]) = End(p) /\ Len(age[p]) = End(p) /\ committed[p] <= End(p)
    /\ \A c \in Consumers :
         /\ position[c][p] <= End(p)
         /\ \A i \in 1 .. Len(waiting[c][p]) : waiting[c][p][i].offset < End(p)

(* Record k is written, or one of the first n records c holds of the partition. *)
Ahead(c, p, n, k) == Written(p, k) \/ \E j \in 1 .. n : waiting[c][p][j].offset = k

HeldInOrder ==
  \A c \in Consumers, p \in Partitions : \A i \in 1 .. Len(waiting[c][p]), k \in Nat :
    k < waiting[c][p][i].offset => Ahead(c, p, i - 1, k)

PolledInOrder ==
  \A c \in Consumers, p \in Partitions, k \in Nat :
    owner[p] = c /\ k < position[c][p] => Ahead(c, p, Len(waiting[c][p]), k)

(* Between the confirmed write and the commit the record is still the head.     *)
CommitsHead ==
  \A c \in Consumers : mode[c] = "committing" =>
    /\ at[c] \in Partitions /\ todo[c][at[c]] > 0
    /\ Written(at[c], Head(waiting[c][at[c]]).offset)

(* What a call of _release_due counted as due is due.                           *)
DueNow ==
  \A c \in Consumers, p \in Partitions : \A i \in 1 .. todo[c][p] : waiting[c][p][i].wait = 0

(* The ticks a record still has to wait make up, with its age, for the tier.    *)
OnTimeClocks == Skews \subseteq Nat \cup {NoStamp}
Timely ==
  OnTimeClocks =>
    \A p \in Partitions :
      /\ \A o \in 1 .. End(p) : left[p][o] # NoStamp => left[p][o] >= 0 /\ left[p][o] + age[p][o] >= Tier
      /\ \A c \in Consumers : \A i \in 1 .. Len(waiting[c][p]) :
           waiting[c][p][i].wait + age[p][waiting[c][p][i].offset + 1] >= Tier

Order == HeldInOrder /\ PolledInOrder /\ CommitsHead /\ CommitOnlyWritten /\ NoOvertaking
IInv == TypeOK /\ Bounds /\ Order /\ DueNow /\ Timely

USE DEF End

-----------------------------------------------------------------------------
(* Due() counts a run of due records at the head: there is a first one that is  *)
(* not due, if any is not.                                                      *)
LEMMA DueHeads ==
  ASSUME NEW held \in Seq(Held)
  PROVE  Due(held) \in 0 .. Len(held) /\ \A i \in 1 .. Due(held) : held[i].wait = 0
<1> DEFINE T == {n \in 0 .. Len(held) : n < Len(held) => held[n + 1].wait # 0}
           R == OpToRel(<, Nat)
<1>1. Len(held) \in T /\ T \subseteq Nat
  OBVIOUS
<1>2. PICK n \in T : \A m \in T : <<m, n>> \notin R
  <2>1. IsWellFoundedOn(R, Nat)
    BY NatLessThanWellFounded
  <2> HIDE DEF T, R
  <2> QED BY <1>1, <2>1, WFMin
<1>3. \A m \in T : ~ m < n
  BY <1>1, <1>2 DEF OpToRel
<1>4. \A i \in 1 .. n : held[i].wait = 0
  <2> SUFFICES ASSUME NEW i \in 1 .. n PROVE held[i].wait = 0
    OBVIOUS
  <2>1. i - 1 < n /\ n \in 0 .. Len(held) /\ i - 1 \in 0 .. Len(held)
    BY <1>1
  <2>2. i - 1 \notin T
    BY <1>3, <2>1
  <2> QED BY <2>1, <2>2
<1> QED BY <1>2, <1>4 DEF Due

LEMMA TargetTimeType ==
  ASSUME NEW l \in {NoStamp} \cup Int
  PROVE  /\ TargetTime(l) \in 0 .. Tier
         /\ l = NoStamp => TargetTime(l) = Tier
         /\ l # NoStamp /\ l >= 0 => TargetTime(l) = l \/ TargetTime(l) = Tier
BY KafkaRetryAssumption DEF TargetTime

(* What the types say about single entries.                                     *)
LEMMA EntryOf == ASSUME NEW S, NEW s \in Seq(S), NEW i \in 1 .. Len(s) PROVE s[i] \in S
OBVIOUS

LEMMA Reads ==
  ASSUME TypeOK, NEW p \in Partitions
  PROVE  /\ left[p] \in Seq({NoStamp} \cup Int) /\ End(p) \in Nat
         /\ age[p] \in Seq(0 .. 2 * Tier) /\ writes[p] \in Seq(Nat) /\ committed[p] \in Nat
BY DEF TypeOK

LEMMA ReadsHeld ==
  ASSUME TypeOK, NEW p \in Partitions, NEW c \in Consumers
  PROVE  /\ position[c][p] \in Nat /\ todo[c][p] \in 0 .. Len(waiting[c][p])
         /\ waiting[c][p] \in Seq(Held) /\ Len(waiting[c][p]) \in Nat
         /\ \A i \in 1 .. Len(waiting[c][p]) :
              /\ waiting[c][p][i] \in Held
              /\ waiting[c][p][i].offset \in Nat /\ waiting[c][p][i].wait \in 0 .. Tier
<1>1. /\ position[c][p] \in Nat /\ todo[c][p] \in Nat /\ todo[c][p] <= Len(waiting[c][p])
      /\ waiting[c][p] \in Seq(Held)
  BY DEF TypeOK
<1>2. \A i \in 1 .. Len(waiting[c][p]) : waiting[c][p][i] \in Held
  BY <1>1, EntryOf
<1>3. \A h \in Held : h.offset \in Nat /\ h.wait \in 0 .. Tier
  BY DEF Held
<1>4. Len(waiting[c][p]) \in Nat
  BY <1>1
<1> QED BY <1>1, <1>2, <1>3, <1>4

LEMMA Appended ==
  ASSUME NEW S, NEW s \in Seq(S), NEW e \in S
  PROVE  /\ Append(s, e) \in Seq(S) /\ Len(Append(s, e)) = Len(s) + 1
         /\ Append(s, e)[Len(s) + 1] = e
         /\ \A i \in 1 .. Len(s) : Append(s, e)[i] = s[i]
OBVIOUS

LEMMA InitInv == Init => IInv
<1> SUFFICES ASSUME Init PROVE IInv
  OBVIOUS
<1>1. TypeOK
  BY KafkaRetryAssumption DEF Init, TypeOK
<1>2. Bounds
  BY DEF Init, Bounds
<1>3. Order
  BY DEF Init, Order, HeldInOrder, PolledInOrder, CommitsHead, CommitOnlyWritten, NoOvertaking
<1>4. DueNow /\ Timely
  BY DEF Init, DueNow, Timely
<1> QED BY <1>1, <1>2, <1>3, <1>4 DEF IInv

-----------------------------------------------------------------------------
(* A record parked on the tier, and a tick of the clock                         *)

LEMMA ParkInv ==
  ASSUME NEW p \in Partitions, IInv, Park(p)
  PROVE  IInv'
<1> USE DEF IInv
<1>1. PICK s \in Skews :
        left' = [left EXCEPT ![p] = Append(@, IF s = NoStamp THEN NoStamp ELSE Tier + s)]
  BY DEF Park
<1> DEFINE l == IF s = NoStamp THEN NoStamp ELSE Tier + s
<1>2. l \in {NoStamp} \cup Int /\ (l # NoStamp /\ OnTimeClocks => l >= Tier)
  BY KafkaRetryAssumption DEF OnTimeClocks
<1> HIDE DEF l
<1>3. /\ End(p)' = End(p) + 1 /\ Len(age'[p]) = End(p) + 1 /\ Len(writes'[p]) = End(p) + 1
      /\ \A o \in 1 .. End(p) :
           left'[p][o] = left[p][o] /\ age'[p][o] = age[p][o] /\ writes'[p][o] = writes[p][o]
      /\ left'[p][End(p) + 1] = l /\ age'[p][End(p) + 1] = 0 /\ writes'[p][End(p) + 1] = 0
  <2>1. left'[p] = Append(left[p], l) /\ age'[p] = Append(age[p], 0) /\ writes'[p] = Append(writes[p], 0)
    BY <1>1 DEF Park, TypeOK, l
  <2>2. Len(age[p]) = End(p) /\ Len(writes[p]) = End(p)
    BY DEF Bounds
  <2>3. 0 \in 0 .. 2 * Tier
    BY KafkaRetryAssumption
  <2>4. /\ Len(left'[p]) = End(p) + 1 /\ left'[p][End(p) + 1] = l
        /\ \A o \in 1 .. End(p) : left'[p][o] = left[p][o]
    BY <1>2, <2>1, Reads, ReadsHeld, Appended
  <2>5. /\ Len(age'[p]) = End(p) + 1 /\ age'[p][End(p) + 1] = 0
        /\ \A o \in 1 .. End(p) : age'[p][o] = age[p][o]
    BY <2>1, <2>2, <2>3, Reads, ReadsHeld, Appended
  <2>6. /\ Len(writes'[p]) = End(p) + 1 /\ writes'[p][End(p) + 1] = 0
        /\ \A o \in 1 .. End(p) : writes'[p][o] = writes[p][o]
    BY <2>1, <2>2, Reads, ReadsHeld, Appended
  <2> QED BY <2>4, <2>5, <2>6
<1>4. \A q \in Partitions \ {p} : left'[q] = left[q] /\ age'[q] = age[q] /\ writes'[q] = writes[q]
  BY <1>1 DEF Park, TypeOK
<1>5. TypeOK'
  <2>1. left' \in [Partitions -> Seq({NoStamp} \cup Int)]
    BY <1>1, <1>2 DEF TypeOK, l
  <2>2. age' \in [Partitions -> Seq(0 .. 2 * Tier)] /\ writes' \in [Partitions -> Seq(Nat)]
    BY KafkaRetryAssumption DEF Park, TypeOK
  <2> QED BY <2>1, <2>2 DEF Park, TypeOK, group, local
<1>6. Bounds'
  <2> SUFFICES ASSUME NEW q \in Partitions
               PROVE  /\ Len(writes'[q]) = End(q)' /\ Len(age'[q]) = End(q)' /\ End(q) <= End(q)'
    BY Reads, ReadsHeld DEF Park, Bounds, group, local
  <2>1. CASE q = p
    BY <1>3, <2>1, Reads
  <2>2. CASE q # p
    BY <1>4, <2>2, Reads DEF Bounds
  <2> QED BY <2>1, <2>2
<1>7. /\ \A q \in Partitions, k \in Nat : k < End(q) => (Written(q, k)' <=> Written(q, k))
      /\ \A k \in Nat : k < End(p)' /\ Written(p, k)' => k < End(p)
      /\ \A q \in Partitions \ {p} : End(q)' = End(q)
  <2>1. \A k \in Nat : k < End(p) => k + 1 \in 1 .. End(p)
    BY Reads, ReadsHeld
  <2>2. \A k \in Nat : k < End(p) + 1 => k < End(p) \/ k + 1 = End(p) + 1
    BY Reads, ReadsHeld
  <2>3. \A k \in Nat : k < End(p) => (Written(p, k)' <=> Written(p, k))
    BY <1>3, <2>1 DEF Written
  <2>4. \A q \in Partitions \ {p}, k \in Nat :
           (Written(q, k)' <=> Written(q, k)) /\ End(q)' = End(q)
    BY <1>4 DEF Written
  <2>5. \A k \in Nat : k = End(p) => ~ Written(p, k)'
    BY <1>3 DEF Written
  <2>6. \A k \in Nat : k < End(p)' => k < End(p) \/ k = End(p)
    BY <1>3, Reads
  <2> QED BY <2>3, <2>4, <2>5, <2>6
<1>8. HeldInOrder' /\ PolledInOrder'
  <2>1. /\ \A c \in Consumers, q \in Partitions : \A i \in 1 .. Len(waiting[c][q]), k \in Nat :
             k < waiting[c][q][i].offset => k < End(q)
        /\ \A c \in Consumers, q \in Partitions, k \in Nat : k < position[c][q] => k < End(q)
    <3> SUFFICES ASSUME NEW c \in Consumers, NEW q \in Partitions
                 PROVE  /\ \A i \in 1 .. Len(waiting[c][q]), k \in Nat :
                             k < waiting[c][q][i].offset => k < End(q)
                        /\ \A k \in Nat : k < position[c][q] => k < End(q)
      OBVIOUS
    <3>1. End(q) \in Nat
      BY Reads
    <3>2. /\ position[c][q] \in Nat
          /\ \A i \in 1 .. Len(waiting[c][q]) : waiting[c][q][i].offset \in Nat
      BY ReadsHeld
    <3>3. /\ position[c][q] <= End(q)
          /\ \A i \in 1 .. Len(waiting[c][q]) : waiting[c][q][i].offset < End(q)
      BY DEF Bounds
    <3> HIDE DEF IInv
    <3> QED BY <3>1, <3>2, <3>3
  <2> QED BY <1>7, <2>1 DEF Park, Order, HeldInOrder, PolledInOrder, Ahead, group, local
<1>9. CommitsHead'
  <2> SUFFICES ASSUME NEW c \in Consumers, mode[c] = "committing"
               PROVE  Written(at[c], Head(waiting[c][at[c]]).offset)'
    BY DEF Park, Order, CommitsHead, local
  <2>1. at[c] \in Partitions /\ todo[c][at[c]] > 0
    BY DEF Order, CommitsHead
  <2>2. 1 \in 1 .. Len(waiting[c][at[c]]) /\ Head(waiting[c][at[c]]) = waiting[c][at[c]][1]
    BY <2>1, Reads, ReadsHeld
  <2>3. Head(waiting[c][at[c]]).offset \in Nat /\ Head(waiting[c][at[c]]).offset < End(at[c])
    BY <2>1, <2>2, Reads, ReadsHeld DEF Bounds
  <2> QED BY <1>7, <2>1, <2>3 DEF Park, Order, CommitsHead, local, Written
<1>10. CommitOnlyWritten'
  <2>1. \A q \in Partitions : \A o \in 0 .. committed[q] - 1 : o \in Nat /\ o < End(q)
    BY Reads, ReadsHeld DEF Bounds
  <2> QED BY <1>7, <2>1 DEF Park, Order, CommitOnlyWritten, group
<1>13. NoOvertaking'
  <2> SUFFICES ASSUME NEW q \in Partitions, NEW o \in 0 .. End(q)' - 1, Written(q, o)',
                      NEW k \in 0 .. o
               PROVE  Written(q, k)'
    BY DEF NoOvertaking
  <2>1. End(q)' \in Nat
    BY <1>3, <1>4, Reads, ReadsHeld
  <2>2. o \in Nat /\ k \in Nat /\ o < End(q) /\ k < End(q)
    <3>1. o \in Nat /\ k \in Nat /\ k <= o /\ o < End(q)'
      BY <2>1
    <3>2. o < End(q)
      BY <1>7, <3>1
    <3> QED BY <3>1, <3>2, Reads
  <2>3. Written(q, o) /\ o \in 0 .. End(q) - 1
    BY <1>7, <2>2, Reads, ReadsHeld
  <2> QED BY <1>7, <2>2, <2>3 DEF Order, NoOvertaking
<1>11. DueNow'
  BY DEF Park, DueNow, local
<1>12. Timely'
  <2> SUFFICES ASSUME OnTimeClocks, NEW q \in Partitions
               PROVE /\ \A o \in 1 .. End(q)' : left'[q][o] # NoStamp =>
                          left'[q][o] >= 0 /\ left'[q][o] + age'[q][o] >= Tier
                     /\ \A c \in Consumers : \A i \in 1 .. Len(waiting[c][q]) :
                          waiting[c][q][i].wait + age'[q][waiting[c][q][i].offset + 1] >= Tier
    BY DEF Park, Timely, local, OnTimeClocks
  <2>1. CASE q # p
    BY <2>1, <1>4 DEF Timely
  <2>2. CASE q = p
    <3>1. \A o \in 1 .. End(p)' : left'[p][o] # NoStamp =>
             left'[p][o] >= 0 /\ left'[p][o] + age'[p][o] >= Tier
      <4> SUFFICES ASSUME NEW o \in 1 .. End(p)', left'[p][o] # NoStamp
                   PROVE  left'[p][o] >= 0 /\ left'[p][o] + age'[p][o] >= Tier
        OBVIOUS
      <4>1. o \in 1 .. End(p) \/ o = End(p) + 1
        BY <1>3, Reads, ReadsHeld
      <4>2. \A x \in 1 .. End(p) : left[p][x] # NoStamp => left[p][x] >= 0 /\ left[p][x] + age[p][x] >= Tier
        BY DEF Timely
      <4>3. CASE o \in 1 .. End(p)
        BY <1>3, <4>2, <4>3
      <4>4. CASE o = End(p) + 1
        BY <1>2, <1>3, <4>4, KafkaRetryAssumption
      <4> QED BY <4>1, <4>3, <4>4
    <3>2. \A c \in Consumers : \A i \in 1 .. Len(waiting[c][p]) :
             age'[p][waiting[c][p][i].offset + 1] = age[p][waiting[c][p][i].offset + 1]
      <4>1. \A c \in Consumers : \A i \in 1 .. Len(waiting[c][p]) :
               waiting[c][p][i].offset + 1 \in 1 .. End(p)
        <5> SUFFICES ASSUME NEW c \in Consumers, NEW i \in 1 .. Len(waiting[c][p])
                     PROVE  waiting[c][p][i].offset + 1 \in 1 .. End(p)
          OBVIOUS
        <5>1. waiting[c][p][i].offset < End(p)
          BY DEF Bounds
        <5>2. waiting[c][p][i].offset \in Nat /\ End(p) \in Nat
          BY Reads, ReadsHeld
        <5> QED BY <5>1, <5>2
      <4> QED BY <1>3, <4>1
    <3> QED BY <2>2, <3>1, <3>2 DEF Timely
  <2> QED BY <2>1, <2>2
<1> QED BY <1>5, <1>6, <1>8, <1>9, <1>10, <1>11, <1>12, <1>13 DEF Order

(* A tick takes from a wait what it adds to an age, until the age is capped.    *)
LEMMA LessWait ==
  ASSUME NEW w \in Nat, NEW n \in 0 .. 2 * Tier
  PROVE  /\ Less(w) \in Nat /\ Less(w) <= w
         /\ w + n >= Tier => Less(w) + (IF n < 2 * Tier THEN n + 1 ELSE n) >= Tier
<1>1. CASE w = 0
  BY <1>1, KafkaRetryAssumption DEF Less
<1>2. CASE w # 0
  <2>1. Less(w) = w - 1
    BY <1>2 DEF Less
  <2> QED BY <1>2, <2>1, KafkaRetryAssumption
<1> QED BY <1>1, <1>2

LEMMA TickInv ==
  ASSUME IInv, Tick
  PROVE  IInv'
<1> USE DEF IInv
<1>1. ASSUME NEW c \in Consumers, NEW p \in Partitions
      PROVE  /\ waiting'[c][p] \in Seq(Held) /\ Len(waiting'[c][p]) = Len(waiting[c][p])
             /\ \A i \in 1 .. Len(waiting[c][p]) :
                  /\ waiting'[c][p][i].offset = waiting[c][p][i].offset
                  /\ waiting'[c][p][i].wait = Less(waiting[c][p][i].wait)
  <2>1. waiting[c][p] \in Seq(Held)
    BY DEF TypeOK
  <2>2. waiting'[c][p] = [i \in 1 .. Len(waiting[c][p]) |-> [waiting[c][p][i] EXCEPT !.wait = Less(@)]]
    BY DEF Tick
  <2>3. ASSUME NEW i \in 1 .. Len(waiting[c][p])
        PROVE  /\ waiting'[c][p][i] \in Held
               /\ waiting'[c][p][i].offset = waiting[c][p][i].offset
               /\ waiting'[c][p][i].wait = Less(waiting[c][p][i].wait)
    <3>1. waiting[c][p][i] \in Held
      BY Reads, ReadsHeld
    <3>2. Less(waiting[c][p][i].wait) \in 0 .. Tier
      <4>1. PICK w \in 0 .. Tier : w = waiting[c][p][i].wait
        BY ReadsHeld
      <4>2. 0 \in 0 .. 2 * Tier
        BY KafkaRetryAssumption
      <4>3. w \in Nat /\ Less(w) \in Nat /\ Less(w) <= w
        BY <4>2, LessWait
      <4> QED BY <4>1, <4>3, KafkaRetryAssumption
    <3>3. waiting'[c][p][i] = [waiting[c][p][i] EXCEPT !.wait = Less(waiting[c][p][i].wait)]
      BY <2>2
    <3> HIDE DEF Less
    <3> QED BY <3>1, <3>2, <3>3 DEF Held
  <2>4. Len(waiting[c][p]) \in Nat
    BY Reads, ReadsHeld
  <2>5. Len(waiting'[c][p]) = Len(waiting[c][p])
    BY <2>2, <2>4
  <2>6. waiting'[c][p] \in Seq(Held)
    <3> DEFINE f == waiting'[c][p]
    <3>1. DOMAIN f = 1 .. Len(waiting[c][p]) /\ f = [i \in DOMAIN f |-> f[i]]
      BY <2>2
    <3> HIDE DEF f
    <3> QED BY <2>3, <2>4, <3>1 DEF f
  <2> QED BY <2>3, <2>5, <2>6
<1>2. ASSUME NEW p \in Partitions
      PROVE  /\ left'[p] \in Seq({NoStamp} \cup Int) /\ End(p)' = End(p)
             /\ age'[p] \in Seq(0 .. 2 * Tier) /\ Len(age'[p]) = Len(age[p])
             /\ \A o \in 1 .. End(p) :
                  /\ left'[p][o] = Less(left[p][o])
                  /\ age'[p][o] = IF age[p][o] < 2 * Tier THEN age[p][o] + 1 ELSE age[p][o]
  <2>1. left[p] \in Seq({NoStamp} \cup Int) /\ age[p] \in Seq(0 .. 2 * Tier) /\ Len(age[p]) = End(p)
    BY DEF TypeOK, Bounds
  <2>2. /\ left'[p] = [i \in 1 .. End(p) |-> Less(left[p][i])]
        /\ age'[p] = [i \in 1 .. End(p) |-> IF age[p][i] < 2 * Tier THEN age[p][i] + 1 ELSE age[p][i]]
    BY DEF Tick
  <2>3. \A i \in 1 .. End(p) : Less(left[p][i]) \in {NoStamp} \cup Int
    BY <2>1 DEF Less
  <2>4. \A i \in 1 .. End(p) : (IF age[p][i] < 2 * Tier THEN age[p][i] + 1 ELSE age[p][i]) \in 0 .. 2 * Tier
    BY <2>1, KafkaRetryAssumption
  <2> QED BY <2>1, <2>2, <2>3, <2>4
<1>3. TypeOK'
  <2>1. waiting' \in [Consumers -> [Partitions -> Seq(Held)]]
    BY <1>1 DEF Tick
  <2>2. left' \in [Partitions -> Seq({NoStamp} \cup Int)] /\ age' \in [Partitions -> Seq(0 .. 2 * Tier)]
    BY <1>2 DEF Tick
  <2> QED BY <1>1, <2>1, <2>2 DEF Tick, TypeOK, group
<1>4. Bounds'
  BY <1>1, <1>2 DEF Tick, Bounds, group
<1>5. HeldInOrder' /\ PolledInOrder'
  <2>1. ASSUME NEW c \in Consumers, NEW p \in Partitions, NEW n \in 0 .. Len(waiting[c][p]),
               NEW k \in Nat, Ahead(c, p, n, k)
        PROVE  Ahead(c, p, n, k)'
    BY <1>1, <2>1, Reads, ReadsHeld DEF Tick, Ahead, Written
  <2>2. \A c \in Consumers, p \in Partitions : Len(waiting[c][p]) \in Nat
    BY Reads, ReadsHeld
  <2>3. HeldInOrder'
    <3> SUFFICES ASSUME NEW c \in Consumers, NEW p \in Partitions, NEW i \in 1 .. Len(waiting[c][p]),
                        NEW k \in Nat, k < waiting[c][p][i].offset
                 PROVE  Ahead(c, p, i - 1, k)'
      BY <1>1 DEF HeldInOrder
    <3>1. Ahead(c, p, i - 1, k) /\ i - 1 \in 0 .. Len(waiting[c][p])
      BY <2>2 DEF Order, HeldInOrder
    <3> QED BY <2>1, <3>1
  <2>4. PolledInOrder'
    <3> SUFFICES ASSUME NEW c \in Consumers, NEW p \in Partitions, NEW k \in Nat,
                        owner[p] = c, k < position[c][p]
                 PROVE  Ahead(c, p, Len(waiting[c][p]), k)'
      BY <1>1 DEF Tick, PolledInOrder, group
    <3> QED BY <1>1, <2>1, <2>2 DEF Order, PolledInOrder
  <2> QED BY <2>3, <2>4
<1>6. CommitsHead'
  <2> SUFFICES ASSUME NEW c \in Consumers, mode[c] = "committing"
               PROVE  Head(waiting'[c][at[c]]).offset = Head(waiting[c][at[c]]).offset
    BY DEF Tick, Order, CommitsHead, Written
  <2>1. at[c] \in Partitions /\ todo[c][at[c]] > 0
    BY DEF Order, CommitsHead
  <2>2. 1 \in 1 .. Len(waiting[c][at[c]])
    BY <2>1, Reads, ReadsHeld
  <2>3. waiting[c][at[c]][1].offset = waiting'[c][at[c]][1].offset
    BY <1>1, <2>1, <2>2
  <2> QED BY <1>1, <2>1, <2>2, <2>3
<1>7. CommitOnlyWritten' /\ NoOvertaking'
  BY <1>2 DEF Tick, Order, CommitOnlyWritten, NoOvertaking, Written, group
<1>8. DueNow'
  BY <1>1 DEF Tick, DueNow, Less, TypeOK
<1>9. Timely'
  <2> SUFFICES ASSUME OnTimeClocks, NEW p \in Partitions
               PROVE /\ \A o \in 1 .. End(p) : left'[p][o] # NoStamp =>
                          left'[p][o] >= 0 /\ left'[p][o] + age'[p][o] >= Tier
                     /\ \A c \in Consumers : \A i \in 1 .. Len(waiting[c][p]) :
                          waiting'[c][p][i].wait + age'[p][waiting'[c][p][i].offset + 1] >= Tier
    BY <1>1, <1>2 DEF Timely, OnTimeClocks
  <2>1. \A o \in 1 .. End(p) : age[p][o] \in 0 .. 2 * Tier
    <3>1. age[p] \in Seq(0 .. 2 * Tier) /\ Len(age[p]) = End(p)
      BY Reads DEF Bounds
    <3> QED BY <3>1, EntryOf
  <2>2. ASSUME NEW o \in 1 .. End(p), left'[p][o] # NoStamp
        PROVE  left'[p][o] >= 0 /\ left'[p][o] + age'[p][o] >= Tier
    <3>1. left[p][o] \in {NoStamp} \cup Int
      BY DEF TypeOK
    <3>2. left[p][o] # NoStamp
      BY <1>2, <2>2, KafkaRetryAssumption DEF Less
    <3>3. left[p][o] >= 0 /\ left[p][o] + age[p][o] >= Tier
      BY <3>2 DEF Timely
    <3>4. age[p][o] \in 0 .. 2 * Tier /\ left'[p][o] = Less(left[p][o])
          /\ age'[p][o] = IF age[p][o] < 2 * Tier THEN age[p][o] + 1 ELSE age[p][o]
      BY <1>2, <2>1
    <3>5. left[p][o] \in Nat
      BY <3>1, <3>2, <3>3
    <3>6. Less(left[p][o]) \in Nat /\ Less(left[p][o]) + age'[p][o] >= Tier
      BY <3>3, <3>4, <3>5, LessWait
    <3> QED BY <3>4, <3>6
  <2>3. ASSUME NEW c \in Consumers, NEW i \in 1 .. Len(waiting[c][p])
        PROVE  waiting'[c][p][i].wait + age'[p][waiting'[c][p][i].offset + 1] >= Tier
    <3> DEFINE w == waiting[c][p][i]
    <3>1. w \in Held /\ w.offset < End(p)
      BY Reads, ReadsHeld DEF Bounds
    <3>2. w.offset + 1 \in 1 .. End(p) /\ w.wait \in 0 .. Tier
      BY <3>1, Reads, ReadsHeld
    <3>3. w.wait + age[p][w.offset + 1] >= Tier
      BY DEF Timely
    <3>4. waiting'[c][p][i].wait = Less(w.wait) /\ waiting'[c][p][i].offset = w.offset
      BY <1>1
    <3> HIDE DEF w
    <3>5. LET n == age[p][w.offset + 1] IN
            n \in 0 .. 2 * Tier /\ age'[p][w.offset + 1] = IF n < 2 * Tier THEN n + 1 ELSE n
      BY <1>2, <2>1, <3>2
    <3>6. Less(w.wait) + age'[p][w.offset + 1] >= Tier
      BY <3>2, <3>3, <3>5, LessWait
    <3> QED BY <3>4, <3>6
  <2> QED BY <2>2, <2>3
<1> QED BY <1>3, <1>4, <1>5, <1>6, <1>7, <1>8, <1>9 DEF Order

-----------------------------------------------------------------------------
(* run_once(), and the seeks of the group                                       *)

(* _release_due() counts what is due in every partition.                        *)
LEMMA ReleaseCounts ==
  ASSUME TypeOK, NEW c \in Consumers, NEW held \in [Partitions -> Seq(Held)], Release(c, held)
  PROVE  /\ todo' \in [Consumers -> [Partitions -> Nat]]
         /\ mode' \in [Consumers -> {"idle", "releasing", "committing"}]
         /\ mode'[c] # "committing" /\ at' = at
         /\ \A p \in Partitions : /\ todo'[c][p] \in 0 .. Len(held[p])
                                  /\ \A i \in 1 .. todo'[c][p] : held[p][i].wait = 0
         /\ \A d \in Consumers \ {c} : todo'[d] = todo[d] /\ mode'[d] = mode[d]
<1>1. todo'[c] = [p \in Partitions |-> Due(held[p])]
  BY DEF Release, TypeOK
<1>2. \A p \in Partitions : /\ Due(held[p]) \in 0 .. Len(held[p]) /\ Len(held[p]) \in Nat
                            /\ \A i \in 1 .. Due(held[p]) : held[p][i].wait = 0
  BY DueHeads
<1>3. [p \in Partitions |-> Due(held[p])] \in [Partitions -> Nat]
  BY <1>2
<1>4. todo' \in [Consumers -> [Partitions -> Nat]]
  BY <1>3 DEF Release, TypeOK
<1>5. mode' \in [Consumers -> {"idle", "releasing", "committing"}] /\ mode'[c] # "committing"
  BY DEF Release, TypeOK
<1> QED BY <1>1, <1>2, <1>4, <1>5 DEF Release, TypeOK

(* A record stays ahead while the records before it are kept and those written  *)
(* stay written.                                                                *)
LEMMA StaysAhead ==
  ASSUME NEW c \in Consumers, NEW p \in Partitions, NEW n \in Nat, NEW m \in Nat, NEW k \in Nat,
         n <= m, Written(p, k) => Written(p, k)',
         \A j \in 1 .. n : waiting'[c][p][j].offset = waiting[c][p][j].offset,
         Ahead(c, p, n, k)
  PROVE  Ahead(c, p, m, k)'
BY DEF Ahead

LEMMA WakeInv ==
  ASSUME NEW c \in Consumers, IInv, Wake(c)
  PROVE  IInv'
<1> USE DEF IInv
<1>1. waiting[c] \in [Partitions -> Seq(Held)] /\ waiting' = waiting
  BY DEF Wake, TypeOK
<1>2. /\ todo' \in [Consumers -> [Partitions -> Nat]]
      /\ mode' \in [Consumers -> {"idle", "releasing", "committing"}]
      /\ mode'[c] # "committing" /\ at' = at
      /\ \A p \in Partitions : /\ todo'[c][p] \in 0 .. Len(waiting[c][p])
                               /\ \A i \in 1 .. todo'[c][p] : waiting[c][p][i].wait = 0
      /\ \A d \in Consumers \ {c} : todo'[d] = todo[d] /\ mode'[d] = mode[d]
  BY <1>1, ReleaseCounts DEF Wake
<1>3. TypeOK'
  <2>1. ASSUME NEW d \in Consumers, NEW q \in Partitions
        PROVE  todo'[d][q] <= Len(waiting[d][q])
    <3>1. CASE d = c
      BY <1>2, <3>1, ReadsHeld
    <3>2. CASE d # c
      <4>1. todo'[d] = todo[d]
        BY <1>2, <3>2
      <4> QED BY <4>1, ReadsHeld
    <3> QED BY <3>1, <3>2
  <2> QED BY <1>1, <1>2, <2>1 DEF Wake, TypeOK, group
<1>4. Bounds' /\ Timely'
  BY DEF Wake, Bounds, Timely, group
<1>5. HeldInOrder' /\ PolledInOrder' /\ CommitOnlyWritten' /\ NoOvertaking'
  BY DEF Wake, Order, HeldInOrder, PolledInOrder, CommitOnlyWritten, NoOvertaking, Ahead, Written, group
<1>6. CommitsHead'
  BY <1>1, <1>2 DEF Wake, Order, CommitsHead, Written
<1>7. DueNow'
  <2> SUFFICES ASSUME NEW d \in Consumers, NEW q \in Partitions, NEW i \in 1 .. todo'[d][q]
               PROVE  waiting[d][q][i].wait = 0
    BY <1>1 DEF DueNow
  <2>1. CASE d = c
    BY <1>2, <2>1
  <2>2. CASE d # c
    BY <1>2, <2>2 DEF DueNow
  <2> QED BY <2>1, <2>2
<1> QED BY <1>3, <1>4, <1>5, <1>6, <1>7 DEF Order

LEMMA AcceptInv ==
  ASSUME NEW c \in Consumers, IInv, Accept(c)
  PROVE  IInv'
<1> USE DEF IInv
<1>1. PICK p \in Partitions :
        /\ owner[p] = c /\ position[c][p] < End(p)
        /\ waiting' = [waiting EXCEPT ![c][p] = Append(@, [offset |-> position[c][p],
                         wait |-> TargetTime(left[p][position[c][p] + 1])])]
        /\ position' = [position EXCEPT ![c][p] = @ + 1]
        /\ paused' = [paused EXCEPT ![c] = @ \cup {p}] \/ UNCHANGED paused
        /\ trouble' = trouble \/ Trouble
  BY DEF Accept, Hold
<1> DEFINE o == position[c][p]
           h == [offset |-> o, wait |-> TargetTime(left[p][o + 1])]
           n == Len(waiting[c][p])
<1>2. /\ o \in Nat /\ End(p) \in Nat /\ o < End(p) /\ n \in Nat
      /\ left[p][o + 1] \in {NoStamp} \cup Int /\ waiting[c][p] \in Seq(Held)
  <2>1. left[p] \in Seq({NoStamp} \cup Int) /\ o \in Nat /\ End(p) \in Nat
    BY Reads, ReadsHeld
  <2> QED BY <1>1, <2>1, ReadsHeld, EntryOf
<1>3. h \in Held /\ h.offset = o /\ h.wait = TargetTime(left[p][o + 1]) /\ h.wait \in 0 .. Tier
  BY <1>2, TargetTimeType DEF Held
<1> HIDE DEF h
<1>4. waiting' = [waiting EXCEPT ![c] = [@ EXCEPT ![p] = Append(waiting[c][p], h)]]
  BY <1>1 DEF h
<1>5. Append(waiting[c][p], h) \in Seq(Held)
  BY <1>2, <1>3, Appended
<1>6. /\ waiting' \in [Consumers -> [Partitions -> Seq(Held)]]
      /\ waiting'[c][p] = Append(waiting[c][p], h)
      /\ \A d \in Consumers, q \in Partitions : d # c \/ q # p => waiting'[d][q] = waiting[d][q]
  BY <1>4, <1>5 DEF TypeOK
<1>7. /\ Len(waiting'[c][p]) = n + 1 /\ waiting'[c][p][n + 1] = h
      /\ \A i \in 1 .. n : waiting'[c][p][i] = waiting[c][p][i]
  BY <1>2, <1>3, <1>6, Appended
<1>8. /\ position' \in [Consumers -> [Partitions -> Nat]] /\ position'[c][p] = o + 1
      /\ \A d \in Consumers, q \in Partitions : d # c \/ q # p => position'[d][q] = position[d][q]
  BY <1>1, <1>2 DEF TypeOK
<1> HIDE DEF o, n
<1>9. /\ todo' \in [Consumers -> [Partitions -> Nat]]
      /\ mode' \in [Consumers -> {"idle", "releasing", "committing"}]
      /\ mode'[c] # "committing" /\ at' = at
      /\ \A q \in Partitions : /\ todo'[c][q] \in 0 .. Len(waiting'[c][q])
                               /\ \A i \in 1 .. todo'[c][q] : waiting'[c][q][i].wait = 0
      /\ \A d \in Consumers \ {c} : todo'[d] = todo[d] /\ mode'[d] = mode[d]
  <2>1. waiting'[c] \in [Partitions -> Seq(Held)]
    BY <1>6
  <2> QED BY <2>1, ReleaseCounts DEF Accept
<1>10. TypeOK'
  <2>1. paused' \in [Consumers -> SUBSET Partitions]
    <3>1. CASE paused' = [paused EXCEPT ![c] = @ \cup {p}]
      BY <3>1 DEF TypeOK
    <3>2. CASE UNCHANGED paused
      BY <3>2 DEF TypeOK
    <3> QED BY <1>1, <3>1, <3>2
  <2>3. trouble' \in 0 .. MaxTrouble
    BY <1>1, KafkaRetryAssumption DEF TypeOK, Trouble
  <2>2. \A d \in Consumers, q \in Partitions : todo'[d][q] <= Len(waiting'[d][q])
    <3> SUFFICES ASSUME NEW d \in Consumers, NEW q \in Partitions
                 PROVE  todo'[d][q] <= Len(waiting'[d][q])
      OBVIOUS
    <3>1. CASE d = c
      <4>1. Len(waiting'[c][q]) \in Nat
        BY <1>6
      <4> QED BY <1>9, <3>1, <4>1
    <3>2. CASE d # c
      <4>1. todo'[d] = todo[d] /\ waiting'[d][q] = waiting[d][q]
        BY <1>6, <1>9, <3>2
      <4> QED BY <4>1, ReadsHeld
    <3> QED BY <3>1, <3>2
  <2> QED BY <1>6, <1>8, <1>9, <2>1, <2>2, <2>3 DEF Accept, TypeOK, group
<1>11. Bounds'
  <2> SUFFICES ASSUME NEW q \in Partitions, NEW d \in Consumers
               PROVE  /\ position'[d][q] <= End(q)
                      /\ \A i \in 1 .. Len(waiting'[d][q]) : waiting'[d][q][i].offset < End(q)
    BY DEF Accept, Bounds, group
  <2>1. CASE d = c /\ q = p
    <3>1. \A i \in 1 .. n : waiting[c][p][i].offset < End(p)
      BY DEF Bounds, n
    <3>2. \A i \in 1 .. n + 1 : i \in 1 .. n \/ i = n + 1
      BY <1>2
    <3>3. position'[c][p] <= End(p)
      BY <1>2, <1>8
    <3>4. \A i \in 1 .. n + 1 : waiting'[c][p][i].offset < End(p)
      BY <1>2, <1>3, <1>7, <3>1, <3>2
    <3> QED BY <1>7, <2>1, <3>3, <3>4
  <2>2. CASE d # c \/ q # p
    BY <1>6, <1>8, <2>2 DEF Bounds
  <2> QED BY <2>1, <2>2
<1>12. \A q \in Partitions, k \in Nat : Written(q, k)' <=> Written(q, k)
  BY DEF Accept, Written
<1>13. ASSUME NEW d \in Consumers, NEW q \in Partitions, NEW a \in 0 .. Len(waiting[d][q]), NEW b \in Nat,
              a <= b, NEW k \in Nat, Ahead(d, q, a, k)
       PROVE  Ahead(d, q, b, k)'
  <2>1. \A j \in 1 .. a : waiting'[d][q][j].offset = waiting[d][q][j].offset
    <3>1. CASE d = c /\ q = p
      <4>1. \A j \in 1 .. a : j \in 1 .. n
        BY <1>2, <3>1 DEF n
      <4> QED BY <1>7, <3>1, <4>1
    <3>2. CASE d # c \/ q # p
      BY <1>6, <3>2
    <3> QED BY <3>1, <3>2
  <2>2. a \in Nat
    BY ReadsHeld
  <2> QED BY <1>12, <1>13, <2>1, <2>2, StaysAhead
<1>14. HeldInOrder'
  <2> SUFFICES ASSUME NEW d \in Consumers, NEW q \in Partitions, NEW i \in 1 .. Len(waiting'[d][q]),
                      NEW k \in Nat, k < waiting'[d][q][i].offset
               PROVE  Ahead(d, q, i - 1, k)'
    BY DEF HeldInOrder
  <2>1. i \in Nat /\ i - 1 \in Nat
    BY <1>6
  <2>2. CASE i \in 1 .. Len(waiting[d][q])
    <3>1. k < waiting[d][q][i].offset
      BY <1>6, <1>7, <2>2 DEF n
    <3>2. Ahead(d, q, i - 1, k) /\ i - 1 \in 0 .. Len(waiting[d][q])
      BY <2>2, <3>1, ReadsHeld DEF Order, HeldInOrder
    <3> QED BY <1>13, <2>1, <3>2
  <2>3. CASE i \notin 1 .. Len(waiting[d][q])
    <3>1. d = c /\ q = p /\ i = n + 1
      BY <1>2, <1>6, <1>7, <2>3 DEF n
    <3>2. k < position[c][p]
      BY <1>3, <1>7, <3>1 DEF o
    <3>3. Ahead(c, p, n, k)
      BY <1>1, <3>2 DEF Order, PolledInOrder, n
    <3> QED BY <1>2, <1>13, <3>1, <3>3 DEF n
  <2> QED BY <2>2, <2>3
<1>15. PolledInOrder'
  <2> SUFFICES ASSUME NEW d \in Consumers, NEW q \in Partitions, NEW k \in Nat,
                      owner[q] = d, k < position'[d][q]
               PROVE  Ahead(d, q, Len(waiting[d][q]), k)'
    <3>1. owner' = owner
      BY DEF Accept, group
    <3> QED BY <3>1 DEF PolledInOrder
  <2>1. Len(waiting'[d][q]) \in Nat /\ Len(waiting[d][q]) \in Nat /\ Len(waiting[d][q]) <= Len(waiting'[d][q])
    <3>1. CASE d = c /\ q = p
      BY <1>2, <1>7, <3>1 DEF n
    <3>2. CASE d # c \/ q # p
      BY <1>6, <3>2, ReadsHeld
    <3> QED BY <3>1, <3>2
  <2>2. CASE k < position[d][q]
    <3>1. Ahead(d, q, Len(waiting[d][q]), k)
      BY <2>2 DEF Order, PolledInOrder
    <3>2. Len(waiting[d][q]) \in 0 .. Len(waiting[d][q])
      BY <2>1
    <3> QED BY <1>13, <2>1, <3>1, <3>2
  <2>3. CASE ~ k < position[d][q]
    <3>1. d = c /\ q = p /\ k = o
      BY <1>2, <1>8, <2>3 DEF o
    <3>2. n + 1 \in 1 .. Len(waiting'[c][p]) /\ waiting'[c][p][n + 1].offset = o
      BY <1>2, <1>3, <1>7
    <3> QED BY <3>1, <3>2 DEF Ahead
  <2> QED BY <2>2, <2>3
<1>16. CommitsHead' /\ CommitOnlyWritten' /\ NoOvertaking'
  <2>1. CommitsHead'
    <3> SUFFICES ASSUME NEW d \in Consumers, mode'[d] = "committing"
                 PROVE /\ at[d] \in Partitions /\ todo'[d][at[d]] > 0
                       /\ writes'[at[d]][Head(waiting'[d][at[d]]).offset + 1] > 0
      BY <1>9 DEF CommitsHead, Written
    <3>1. d # c /\ mode[d] = "committing"
      BY <1>9
    <3>2. at[d] \in Partitions /\ todo[d][at[d]] > 0 /\ Written(at[d], Head(waiting[d][at[d]]).offset)
      BY <3>1 DEF Order, CommitsHead
    <3>3. waiting'[d][at[d]] = waiting[d][at[d]]
      BY <1>6, <3>1, <3>2
    <3>4. todo'[d] = todo[d] /\ writes' = writes
      BY <1>9, <3>1 DEF Accept
    <3> QED BY <3>2, <3>3, <3>4 DEF Written
  <2> QED BY <2>1 DEF Accept, Order, CommitOnlyWritten, NoOvertaking, Written, group
<1>17. DueNow'
  <2> SUFFICES ASSUME NEW d \in Consumers, NEW q \in Partitions, NEW i \in 1 .. todo'[d][q]
               PROVE  waiting'[d][q][i].wait = 0
    BY DEF DueNow
  <2>1. CASE d = c
    BY <1>9, <2>1
  <2>2. CASE d # c
    <3>1. todo'[d] = todo[d] /\ waiting'[d][q] = waiting[d][q]
      BY <1>6, <1>9, <2>2
    <3> QED BY <3>1 DEF DueNow
  <2> QED BY <2>1, <2>2
<1>18. Timely'
  <2> SUFFICES ASSUME OnTimeClocks, NEW q \in Partitions, NEW d \in Consumers,
                      NEW i \in 1 .. Len(waiting'[d][q])
               PROVE  waiting'[d][q][i].wait + age[q][waiting'[d][q][i].offset + 1] >= Tier
    BY DEF Accept, Timely, OnTimeClocks
  <2>1. CASE i \in 1 .. Len(waiting[d][q])
    BY <1>6, <1>7, <2>1 DEF Timely, n
  <2>2. CASE i \notin 1 .. Len(waiting[d][q])
    <3>1. d = c /\ q = p /\ i = n + 1
      BY <1>2, <1>6, <1>7, <2>2 DEF n
    <3>2. o + 1 \in 1 .. End(p)
      BY <1>2
    <3>3. age[p][o + 1] \in 0 .. 2 * Tier
      <4>1. age[p] \in Seq(0 .. 2 * Tier) /\ Len(age[p]) = End(p)
        BY Reads DEF Bounds
      <4> QED BY <3>2, <4>1, EntryOf
    <3>4. left[p][o + 1] # NoStamp => left[p][o + 1] >= 0 /\ left[p][o + 1] + age[p][o + 1] >= Tier
      BY <3>2 DEF Timely
    <3>5. h.wait + age[p][o + 1] >= Tier
      BY <1>2, <1>3, <3>3, <3>4, TargetTimeType, KafkaRetryAssumption
    <3> QED BY <1>3, <1>7, <3>1, <3>5
  <2> QED BY <2>1, <2>2
<1> QED BY <1>10, <1>11, <1>14, <1>15, <1>16, <1>17, <1>18 DEF Order

-----------------------------------------------------------------------------
(* The steps that keep or drop what is held: writes, failures and seeks         *)

(* What is on the work topic stays there, and stays a beginning of the tier.    *)
WritesKept ==
  /\ writes' \in [Partitions -> Seq(Nat)]
  /\ \A q \in Partitions : Len(writes'[q]) = Len(writes[q])
  /\ \A q \in Partitions, k \in Nat : k < End(q) /\ Written(q, k) => Written(q, k)'
  /\ NoOvertaking'

LEMMA Carried ==
  ASSUME IInv, TypeOK', CommitsHead', UNCHANGED <<left, age, committed>>, WritesKept,
         \A d \in Consumers, q \in Partitions :
           /\ position'[d][q] <= End(q)
           /\ waiting'[d][q] = waiting[d][q] \/ waiting'[d][q] = <<>>
           /\ todo'[d][q] = 0 \/ (todo'[d][q] = todo[d][q] /\ waiting'[d][q] = waiting[d][q])
           /\ owner'[q] = d =>
                \/ /\ owner[q] = d /\ position'[d][q] = position[d][q]
                   /\ waiting'[d][q] = waiting[d][q]
                \/ \A k \in Nat : k < position'[d][q] => Written(q, k)
  PROVE  IInv'
<1> USE DEF IInv
<1>1. Bounds'
  <2> SUFFICES ASSUME NEW q \in Partitions, NEW d \in Consumers
               PROVE  \A i \in 1 .. Len(waiting'[d][q]) : waiting'[d][q][i].offset < End(q)
    BY DEF Bounds, WritesKept
  <2> QED BY DEF Bounds
<1>2. ASSUME NEW d \in Consumers, NEW q \in Partitions, NEW n \in Nat, NEW k \in Nat,
             k < End(q), waiting'[d][q] = waiting[d][q], Ahead(d, q, n, k)
      PROVE  Ahead(d, q, n, k)'
  BY <1>2 DEF WritesKept, Ahead
<1>3. HeldInOrder'
  <2> SUFFICES ASSUME NEW d \in Consumers, NEW q \in Partitions, NEW i \in 1 .. Len(waiting'[d][q]),
                      NEW k \in Nat, k < waiting'[d][q][i].offset
               PROVE  Ahead(d, q, i - 1, k)'
    BY DEF HeldInOrder
  <2>1. waiting'[d][q] = waiting[d][q]
    OBVIOUS
  <2>2. i \in 1 .. Len(waiting[d][q]) /\ i - 1 \in Nat /\ k < waiting[d][q][i].offset
    BY <2>1, ReadsHeld
  <2>3. k < End(q)
    BY <2>2, Reads, ReadsHeld DEF Bounds
  <2> QED BY <1>2, <2>1, <2>2, <2>3 DEF Order, HeldInOrder
<1>4. PolledInOrder'
  <2> SUFFICES ASSUME NEW d \in Consumers, NEW q \in Partitions, NEW k \in Nat,
                      owner'[q] = d, k < position'[d][q]
               PROVE  Ahead(d, q, Len(waiting[d][q]), k)'
    BY DEF PolledInOrder
  <2>3. k < End(q)
    <3>1. position'[d][q] \in Nat /\ End(q) \in Nat /\ position'[d][q] <= End(q)
      BY Reads DEF TypeOK
    <3> QED BY <3>1
  <2>1. CASE owner[q] = d /\ position'[d][q] = position[d][q] /\ waiting'[d][q] = waiting[d][q]
    <3>1. Ahead(d, q, Len(waiting[d][q]), k) /\ Len(waiting[d][q]) \in Nat
      BY <2>1, ReadsHeld DEF Order, PolledInOrder
    <3>2. Ahead(d, q, Len(waiting[d][q]), k) => \/ Written(q, k)'
            \/ \E j \in 1 .. Len(waiting'[d][q]) : waiting'[d][q][j].offset = k
      BY <2>1, <2>3 DEF Ahead, WritesKept
    <3> QED BY <3>1, <3>2 DEF Ahead
  <2>2. CASE \A x \in Nat : x < position'[d][q] => Written(q, x)
    BY <2>2, <2>3 DEF Ahead, WritesKept
  <2> QED BY <2>1, <2>2
<1>5. CommitOnlyWritten'
  <2> SUFFICES ASSUME NEW q \in Partitions, NEW o \in 0 .. committed[q] - 1
               PROVE  Written(q, o)'
    BY DEF CommitOnlyWritten
  <2>1. o \in Nat /\ o < End(q)
    BY Reads DEF Bounds
  <2> QED BY <2>1 DEF Order, CommitOnlyWritten, WritesKept
<1>6. DueNow'
  <2> SUFFICES ASSUME NEW d \in Consumers, NEW q \in Partitions, NEW i \in 1 .. todo'[d][q]
               PROVE  waiting'[d][q][i].wait = 0
    BY DEF DueNow
  <2>1. todo'[d][q] = todo[d][q] /\ waiting'[d][q] = waiting[d][q]
    OBVIOUS
  <2> QED BY <2>1 DEF DueNow
<1>7. Timely'
  <2> SUFFICES ASSUME OnTimeClocks, NEW q \in Partitions, NEW d \in Consumers,
                      NEW i \in 1 .. Len(waiting'[d][q])
               PROVE  waiting'[d][q][i].wait + age[q][waiting'[d][q][i].offset + 1] >= Tier
    BY DEF Timely, OnTimeClocks
  <2>1. waiting'[d][q] = waiting[d][q]
    OBVIOUS
  <2> QED BY <2>1 DEF Timely
<1> QED BY <1>1, <1>3, <1>4, <1>5, <1>6, <1>7 DEF Order, WritesKept

(* Nothing before the head of a partition is left unwritten.                    *)
LEMMA HeadNext ==
  ASSUME IInv, NEW c \in Consumers, NEW p \in Partitions, todo[c][p] > 0
  PROVE  /\ Head(waiting[c][p]) = waiting[c][p][1] /\ 1 \in 1 .. Len(waiting[c][p])
         /\ Head(waiting[c][p]).offset \in Nat /\ Head(waiting[c][p]).offset < End(p)
         /\ Head(waiting[c][p]).wait = 0
         /\ \A k \in Nat : k < Head(waiting[c][p]).offset => Written(p, k)
<1> USE DEF IInv
<1>1. 1 \in 1 .. Len(waiting[c][p]) /\ 1 \in 1 .. todo[c][p] /\ Head(waiting[c][p]) = waiting[c][p][1]
  BY ReadsHeld
<1>2. waiting[c][p][1].offset \in Nat /\ waiting[c][p][1].offset < End(p)
  <2>1. waiting[c][p][1].offset \in Nat
    BY <1>1, ReadsHeld
  <2>2. waiting[c][p][1].offset < End(p)
    BY <1>1 DEF Bounds
  <2> QED BY <2>1, <2>2
<1>3. \A k \in Nat : k < waiting[c][p][1].offset => Ahead(c, p, 1 - 1, k)
  BY <1>1 DEF Order, HeldInOrder
<1>4. \A k \in Nat : Ahead(c, p, 1 - 1, k) => Written(p, k)
  BY DEF Ahead
<1> QED BY <1>1, <1>2, <1>3, <1>4 DEF DueNow

LEMMA HeadWritten ==
  ASSUME IInv, NEW c \in Consumers, NEW p \in Partitions, todo[c][p] > 0, UNCHANGED left,
         Confirmed(p, Head(waiting[c][p]).offset)
  PROVE  WritesKept /\ writes'[p][Head(waiting[c][p]).offset + 1] > 0
<1> USE DEF IInv
<1>1. PICK o \in Nat : /\ o = Head(waiting[c][p]).offset /\ o < End(p)
                       /\ \A k \in Nat : k < o => Written(p, k)
  BY HeadNext
<1>2. writes' = [writes EXCEPT ![p] = [writes[p] EXCEPT ![o + 1] = writes[p][o + 1] + 1]]
  BY <1>1 DEF Confirmed, TypeOK
<1>3. o + 1 \in 1 .. Len(writes[p]) /\ writes[p] \in Seq(Nat) /\ writes[p][o + 1] \in Nat
  <2>1. o + 1 \in 1 .. Len(writes[p]) /\ writes[p] \in Seq(Nat)
    <3>1. Len(writes[p]) = End(p)
      BY DEF Bounds
    <3>2. End(p) \in Nat /\ writes[p] \in Seq(Nat)
      BY Reads
    <3> QED BY <1>1, <3>1, <3>2
  <2> QED BY <2>1, EntryOf
<1>4. /\ writes'[p] \in Seq(Nat) /\ Len(writes'[p]) = Len(writes[p])
      /\ writes'[p][o + 1] = writes[p][o + 1] + 1
      /\ \A i \in 1 .. Len(writes[p]) : i # o + 1 => writes'[p][i] = writes[p][i]
  <2>1. writes'[p] = [writes[p] EXCEPT ![o + 1] = writes[p][o + 1] + 1]
    BY <1>2 DEF TypeOK
  <2> HIDE DEF IInv
  <2> QED BY <1>3, <2>1
<1>5. /\ writes' \in [Partitions -> Seq(Nat)]
      /\ \A q \in Partitions \ {p} : writes'[q] = writes[q]
  BY <1>2, <1>4 DEF TypeOK
<1>6. \A q \in Partitions, k \in Nat : k < End(q) /\ (q # p \/ k # o) => (Written(q, k)' <=> Written(q, k))
  <2> SUFFICES ASSUME NEW q \in Partitions, NEW k \in Nat, k < End(q), q # p \/ k # o
               PROVE  Written(q, k)' <=> Written(q, k)
    OBVIOUS
  <2>1. CASE q # p
    BY <1>5, <2>1 DEF Written
  <2>2. CASE q = p
    <3>1. k + 1 \in 1 .. Len(writes[p]) /\ k + 1 # o + 1
      BY <1>1, <2>2, Reads DEF Bounds
    <3> QED BY <1>4, <2>2, <3>1 DEF Written
  <2> QED BY <2>1, <2>2
<1>10. Written(p, o)'
  BY <1>3, <1>4 DEF Written
<1>8. \A q \in Partitions, k \in Nat : k < End(q) /\ Written(q, k) => Written(q, k)'
  <2> SUFFICES ASSUME NEW q \in Partitions, NEW k \in Nat, k < End(q), Written(q, k)
               PROVE  Written(q, k)'
    OBVIOUS
  <2>1. CASE q = p /\ k = o
    BY <1>3, <1>4, <2>1 DEF Written
  <2>2. CASE q # p \/ k # o
    BY <1>6, <2>2
  <2> QED BY <2>1, <2>2
<1>9. NoOvertaking'
  <2> SUFFICES ASSUME NEW q \in Partitions, NEW x \in 0 .. End(q) - 1, Written(q, x)', NEW k \in 0 .. x
               PROVE  Written(q, k)'
    BY DEF NoOvertaking
  <2>1. x \in Nat /\ k \in Nat /\ x < End(q)
    BY Reads
  <2>2. CASE q = p /\ x = o
    <3>1. k < o \/ k = o
      BY <2>1, <2>2, <1>1
    <3>2. CASE k = o
      BY <1>10, <2>2, <3>2
    <3>3. CASE k < o
      <4>1. Written(p, k) /\ k < End(p)
        BY <1>1, <2>1, <3>3, Reads
      <4> QED BY <1>8, <2>1, <2>2, <4>1
    <3> QED BY <3>1, <3>2, <3>3
  <2>3. CASE q # p \/ x # o
    BY <1>6, <1>8, <2>1, <2>3 DEF Order, NoOvertaking
  <2> QED BY <2>2, <2>3
<1>11. WritesKept
  BY <1>4, <1>5, <1>8, <1>9 DEF WritesKept
<1>12. writes'[p][o + 1] > 0
  BY <1>3, <1>4
<1> QED BY <1>1, <1>11, <1>12

LEMMA WritesSame == ASSUME IInv, UNCHANGED <<left, writes>> PROVE WritesKept
BY DEF IInv, TypeOK, WritesKept, Order, NoOvertaking, Written

(* Who was committing still is, or has given up.                                *)
LEMMA CommittingKept ==
  ASSUME IInv, UNCHANGED left, WritesKept,
         \A d \in Consumers : mode'[d] = "committing" =>
           mode[d] = "committing" /\ at'[d] = at[d] /\ todo'[d] = todo[d] /\ waiting'[d] = waiting[d]
  PROVE  CommitsHead'
<1> USE DEF IInv
<1> SUFFICES ASSUME NEW d \in Consumers, mode'[d] = "committing"
             PROVE  /\ at'[d] \in Partitions /\ todo'[d][at'[d]] > 0
                    /\ writes'[at'[d]][Head(waiting'[d][at'[d]]).offset + 1] > 0
  BY DEF CommitsHead, Written
<1>1. mode[d] = "committing" /\ at'[d] = at[d] /\ todo'[d] = todo[d] /\ waiting'[d] = waiting[d]
  OBVIOUS
<1>2. at[d] \in Partitions /\ todo[d][at[d]] > 0 /\ Written(at[d], Head(waiting[d][at[d]]).offset)
  BY <1>1 DEF Order, CommitsHead
<1>3. Head(waiting[d][at[d]]).offset \in Nat /\ Head(waiting[d][at[d]]).offset < End(at[d])
  BY <1>2, HeadNext
<1>4. PICK q \in Partitions, k \in Nat : q = at[d] /\ k = Head(waiting[d][at[d]]).offset
  BY <1>2, <1>3
<1>5. Written(q, k)'
  BY <1>2, <1>3, <1>4 DEF WritesKept
<1> QED BY <1>1, <1>2, <1>4, <1>5 DEF Written

LEMMA ReinjectInv ==
  ASSUME NEW c \in Consumers, NEW p \in Partitions, IInv, Reinject(c, p)
  PROVE  IInv'
<1> USE DEF IInv
<1>1. todo[c][p] > 0 /\ mode[c] = "releasing"
  BY DEF Reinject, Current
<1>2. WritesKept /\ writes'[p][Head(waiting[c][p]).offset + 1] > 0
  BY <1>1, HeadWritten DEF Reinject
<1>3. TypeOK'
  BY <1>2 DEF Reinject, TypeOK, WritesKept, group
<1>4. CommitsHead'
  <2> SUFFICES ASSUME NEW d \in Consumers, mode'[d] = "committing"
               PROVE  /\ at'[d] \in Partitions /\ todo[d][at'[d]] > 0
                      /\ writes'[at'[d]][Head(waiting[d][at'[d]]).offset + 1] > 0
    BY DEF Reinject, CommitsHead, Written
  <2>1. CASE d = c
    BY <1>1, <1>2, <2>1 DEF Reinject, TypeOK
  <2>2. CASE d # c
    <3>1. mode[d] = "committing" /\ at'[d] = at[d]
      BY <2>2 DEF Reinject, TypeOK
    <3>2. at[d] \in Partitions /\ todo[d][at[d]] > 0 /\ Written(at[d], Head(waiting[d][at[d]]).offset)
      BY <3>1 DEF Order, CommitsHead
    <3>3. Head(waiting[d][at[d]]).offset \in Nat /\ Head(waiting[d][at[d]]).offset < End(at[d])
      BY <3>2, HeadNext
    <3>4. PICK q \in Partitions, k \in Nat : q = at[d] /\ k = Head(waiting[d][at[d]]).offset
      BY <3>2, <3>3
    <3>5. Written(q, k)'
      BY <1>2, <3>2, <3>3, <3>4 DEF WritesKept
    <3> QED BY <3>1, <3>2, <3>4, <3>5 DEF Written
  <2> QED BY <2>1, <2>2
<1>5. /\ UNCHANGED <<left, age, committed>>
      /\ \A d \in Consumers, q \in Partitions : /\ position'[d][q] = position[d][q]
           /\ waiting'[d][q] = waiting[d][q] /\ todo'[d][q] = todo[d][q] /\ owner'[q] = owner[q]
  BY DEF Reinject, group
<1>6. \A d \in Consumers, q \in Partitions : position[d][q] <= End(q)
  BY DEF Bounds
<1> QED BY <1>2, <1>3, <1>4, <1>5, <1>6, Carried

LEMMA IdleTypes ==
  ASSUME TypeOK, NEW c \in Consumers, Idle(c)
  PROVE  /\ mode' \in [Consumers -> {"idle", "releasing", "committing"}] /\ mode'[c] = "idle"
         /\ at' \in [Consumers -> Partitions \cup {None}]
         /\ todo' \in [Consumers -> [Partitions -> Nat]]
         /\ \A q \in Partitions : todo'[c][q] = 0
         /\ \A d \in Consumers \ {c} : mode'[d] = mode[d] /\ at'[d] = at[d] /\ todo'[d] = todo[d]
<1>1. todo' = [todo EXCEPT ![c] = [q \in Partitions |-> 0]] /\ [q \in Partitions |-> 0] \in [Partitions -> Nat]
  BY DEF Idle
<1>2. /\ todo' \in [Consumers -> [Partitions -> Nat]] /\ todo'[c] = [q \in Partitions |-> 0]
      /\ \A d \in Consumers \ {c} : todo'[d] = todo[d]
  BY <1>1 DEF TypeOK
<1> QED BY <1>2 DEF Idle, TypeOK

LEMMA TroubleType == ASSUME TypeOK, Trouble PROVE trouble' \in 0 .. MaxTrouble
BY KafkaRetryAssumption DEF TypeOK, Trouble

LEMMA CommitFailsInv ==
  ASSUME NEW c \in Consumers, IInv, CommitFails(c)
  PROVE  IInv'
<1> USE DEF IInv
<1>1. /\ mode' \in [Consumers -> {"idle", "releasing", "committing"}] /\ mode'[c] = "idle"
      /\ at' \in [Consumers -> Partitions \cup {None}] /\ todo' \in [Consumers -> [Partitions -> Nat]]
      /\ \A q \in Partitions : todo'[c][q] = 0
      /\ \A d \in Consumers \ {c} : mode'[d] = mode[d] /\ at'[d] = at[d] /\ todo'[d] = todo[d]
  BY IdleTypes DEF CommitFails
<1>2. WritesKept
  BY WritesSame DEF CommitFails
<1>3. /\ UNCHANGED <<left, age, committed>>
      /\ \A d \in Consumers, q \in Partitions :
           /\ position'[d][q] = position[d][q] /\ waiting'[d][q] = waiting[d][q]
           /\ waiting'[d] = waiting[d] /\ owner'[q] = owner[q]
  BY DEF CommitFails, group
<1>4. \A d \in Consumers, q \in Partitions : todo'[d][q] = 0 \/ todo'[d][q] = todo[d][q]
  BY <1>1
<1>5. TypeOK'
  <2>1. \A d \in Consumers, q \in Partitions : todo'[d][q] <= Len(waiting'[d][q])
    BY <1>3, <1>4, ReadsHeld
  <2> QED BY <1>1, <2>1, TroubleType DEF CommitFails, TypeOK, group
<1>6. CommitsHead'
  BY <1>1, <1>2, <1>3, CommittingKept DEF CommitFails
<1>7. \A d \in Consumers, q \in Partitions : position[d][q] <= End(q)
  BY DEF Bounds
<1> QED BY <1>2, <1>3, <1>4, <1>5, <1>6, <1>7, Carried

LEMMA ReinjectFailsInv ==
  ASSUME NEW c \in Consumers, NEW p \in Partitions, IInv, ReinjectFails(c, p)
  PROVE  IInv'
<1> USE DEF IInv
<1>1. todo[c][p] > 0 /\ mode[c] = "releasing" /\ UNCHANGED <<left, age, committed, owner>>
  BY DEF ReinjectFails, Current, group
<1>2. WritesKept
  BY <1>1, HeadWritten, WritesSame DEF ReinjectFails
<1>3. Rewound(c, p) \in Nat /\ Rewound(c, p) < End(p) /\ \A k \in Nat : k < Rewound(c, p) => Written(p, k)
  BY <1>1, HeadNext DEF Rewound
<1>4. paused' \in [Consumers -> SUBSET Partitions] /\ trouble' \in 0 .. MaxTrouble
  BY TroubleType DEF ReinjectFails, TypeOK
<1>5. \A d \in Consumers, q \in Partitions : position[d][q] \in Nat /\ position[d][q] <= End(q)
  BY ReadsHeld DEF Bounds
<1>6. CASE /\ position' = [position EXCEPT ![c][p] = Rewound(c, p)]
           /\ waiting' = [waiting EXCEPT ![c][p] = <<>>]
           /\ GoOn(c, p, 0)
  <2>1. /\ position' \in [Consumers -> [Partitions -> Nat]] /\ position'[c][p] = Rewound(c, p)
        /\ \A d \in Consumers, q \in Partitions : d # c \/ q # p => position'[d][q] = position[d][q]
    BY <1>3, <1>6 DEF TypeOK
  <2>2. /\ waiting' \in [Consumers -> [Partitions -> Seq(Held)]] /\ waiting'[c][p] = <<>>
        /\ \A d \in Consumers, q \in Partitions : d # c \/ q # p => waiting'[d][q] = waiting[d][q]
        /\ \A d \in Consumers \ {c} : waiting'[d] = waiting[d]
    BY <1>6 DEF TypeOK
  <2>3. /\ todo' \in [Consumers -> [Partitions -> Nat]] /\ todo'[c][p] = 0
        /\ \A d \in Consumers, q \in Partitions : d # c \/ q # p => todo'[d][q] = todo[d][q]
        /\ \A d \in Consumers \ {c} : todo'[d] = todo[d]
    BY <1>6 DEF TypeOK, GoOn
  <2>4. /\ mode' \in [Consumers -> {"idle", "releasing", "committing"}]
        /\ at' \in [Consumers -> Partitions \cup {None}]
        /\ mode'[c] # "committing"
        /\ \A d \in Consumers \ {c} : mode'[d] = mode[d] /\ at'[d] = at[d]
    BY <1>6 DEF TypeOK, GoOn
  <2>5. TypeOK'
    <3>1. \A d \in Consumers, q \in Partitions : todo'[d][q] <= Len(waiting'[d][q])
      <4> SUFFICES ASSUME NEW d \in Consumers, NEW q \in Partitions
                   PROVE  todo'[d][q] <= Len(waiting'[d][q])
        OBVIOUS
      <4>1. CASE d = c /\ q = p
        BY <2>2, <2>3, <4>1
      <4>2. CASE d # c \/ q # p
        <5>1. todo'[d][q] = todo[d][q] /\ waiting'[d][q] = waiting[d][q]
          BY <2>2, <2>3, <4>2
        <5> QED BY <5>1, ReadsHeld
      <4> QED BY <4>1, <4>2
    <3> QED BY <1>1, <1>2, <1>4, <2>1, <2>2, <2>3, <2>4, <3>1 DEF TypeOK, WritesKept
  <2>6. CommitsHead'
    BY <1>1, <1>2, <2>2, <2>3, <2>4, CommittingKept
  <2>7. \A d \in Consumers, q \in Partitions :
          /\ position'[d][q] <= End(q)
          /\ waiting'[d][q] = waiting[d][q] \/ waiting'[d][q] = <<>>
          /\ todo'[d][q] = 0 \/ (todo'[d][q] = todo[d][q] /\ waiting'[d][q] = waiting[d][q])
          /\ owner'[q] = d =>
               \/ /\ owner[q] = d /\ position'[d][q] = position[d][q] /\ waiting'[d][q] = waiting[d][q]
               \/ \A k \in Nat : k < position'[d][q] => Written(q, k)
    <3> SUFFICES ASSUME NEW d \in Consumers, NEW q \in Partitions
                 PROVE  /\ position'[d][q] <= End(q)
                        /\ waiting'[d][q] = waiting[d][q] \/ waiting'[d][q] = <<>>
                        /\ todo'[d][q] = 0 \/ (todo'[d][q] = todo[d][q] /\ waiting'[d][q] = waiting[d][q])
                        /\ owner'[q] = d =>
                             \/ /\ owner[q] = d /\ position'[d][q] = position[d][q]
                                /\ waiting'[d][q] = waiting[d][q]
                             \/ \A k \in Nat : k < position'[d][q] => Written(q, k)
      OBVIOUS
    <3>1. CASE d = c /\ q = p
      <4>1. position'[c][p] <= End(p)
        BY <1>3, <2>1, Reads
      <4>2. \A k \in Nat : k < position'[c][p] => Written(p, k)
        BY <1>3, <2>1
      <4>3. waiting'[d][q] = <<>> /\ todo'[d][q] = 0
        BY <2>2, <2>3, <3>1
      <4> QED BY <3>1, <4>1, <4>2, <4>3
    <3>2. CASE d # c \/ q # p
      BY <1>1, <1>5, <2>1, <2>2, <2>3, <3>2
    <3> QED BY <3>1, <3>2
  <2> QED BY <1>1, <1>2, <2>5, <2>6, <2>7, Carried
<1>7. CASE UNCHANGED <<position, waiting>> /\ Idle(c)
  <2>1. /\ mode' \in [Consumers -> {"idle", "releasing", "committing"}] /\ mode'[c] = "idle"
        /\ at' \in [Consumers -> Partitions \cup {None}] /\ todo' \in [Consumers -> [Partitions -> Nat]]
        /\ \A q \in Partitions : todo'[c][q] = 0
        /\ \A d \in Consumers \ {c} : mode'[d] = mode[d] /\ at'[d] = at[d] /\ todo'[d] = todo[d]
    BY <1>7, IdleTypes
  <2>2. \A d \in Consumers, q \in Partitions : todo'[d][q] = 0 \/ todo'[d][q] = todo[d][q]
    BY <2>1
  <2>3. TypeOK'
    <3>1. \A d \in Consumers, q \in Partitions : todo'[d][q] <= Len(waiting'[d][q])
      BY <1>7, <2>2, ReadsHeld
    <3> QED BY <1>1, <1>2, <1>4, <1>7, <2>1, <3>1 DEF TypeOK, WritesKept
  <2>4. CommitsHead'
    BY <1>1, <1>2, <1>7, <2>1, CommittingKept
  <2> QED BY <1>1, <1>2, <1>5, <1>7, <2>2, <2>3, <2>4, Carried
<1> QED BY <1>6, <1>7 DEF ReinjectFails

LEMMA RevokeInv ==
  ASSUME NEW p \in Partitions, IInv, Revoke(p)
  PROVE  IInv'
<1> USE DEF IInv
<1>1. WritesKept
  BY WritesSame DEF Revoke
<1>2. TypeOK'
  BY TroubleType DEF Revoke, TypeOK, local
<1>3. /\ UNCHANGED <<left, age, committed>>
      /\ \A d \in Consumers, q \in Partitions :
           /\ position'[d][q] = position[d][q] /\ waiting'[d][q] = waiting[d][q]
           /\ todo'[d][q] = todo[d][q] /\ (owner'[q] = d => owner[q] = d)
  BY KafkaRetryAssumption DEF Revoke, local, TypeOK
<1>4. CommitsHead'
  BY <1>1, <1>3, CommittingKept DEF Revoke, local
<1>5. \A d \in Consumers, q \in Partitions : position[d][q] <= End(q)
  BY DEF Bounds
<1> QED BY <1>1, <1>2, <1>3, <1>4, <1>5, Carried

(* A new owner starts at the committed offset, and all before it is written.    *)
LEMMA AssignInv ==
  ASSUME NEW p \in Partitions, NEW c \in Consumers, IInv, Assign(p, c)
  PROVE  IInv'
<1> USE DEF IInv
<1>1. WritesKept
  BY WritesSame DEF Assign
<1>2. committed[p] \in Nat /\ committed[p] <= End(p) /\ \A k \in Nat : k < committed[p] => Written(p, k)
  BY Reads DEF Bounds, Order, CommitOnlyWritten
<1>3. /\ position' \in [Consumers -> [Partitions -> Nat]] /\ position'[c][p] = committed[p]
      /\ \A d \in Consumers, q \in Partitions : d # c \/ q # p => position'[d][q] = position[d][q]
  BY <1>2 DEF Assign, TypeOK
<1>4. /\ owner' \in [Partitions -> Consumers \cup {None}] /\ owner'[p] = c
      /\ \A q \in Partitions \ {p} : owner'[q] = owner[q]
  BY DEF Assign, TypeOK
<1>5. TypeOK'
  BY <1>3, <1>4 DEF Assign, TypeOK
<1>6. UNCHANGED <<left, age, committed, waiting, todo, mode, at>>
  BY DEF Assign
<1>7. CommitsHead'
  BY <1>1, <1>6, CommittingKept
<1>8. \A d \in Consumers, q \in Partitions : position[d][q] <= End(q)
  BY DEF Bounds
<1>9. \A d \in Consumers, q \in Partitions :
        /\ position'[d][q] <= End(q)
        /\ owner'[q] = d =>
             \/ (owner[q] = d /\ position'[d][q] = position[d][q])
             \/ \A k \in Nat : k < position'[d][q] => Written(q, k)
  <2> SUFFICES ASSUME NEW d \in Consumers, NEW q \in Partitions
               PROVE  /\ position'[d][q] <= End(q)
                      /\ owner'[q] = d =>
                           \/ (owner[q] = d /\ position'[d][q] = position[d][q])
                           \/ \A k \in Nat : k < position'[d][q] => Written(q, k)
    OBVIOUS
  <2>1. CASE d = c /\ q = p
    BY <1>2, <1>3, <2>1
  <2>2. CASE d # c \/ q # p
    BY <1>3, <1>4, <1>8, <2>2
  <2> QED BY <2>1, <2>2
<1> QED BY <1>1, <1>5, <1>6, <1>7, <1>9, Carried

LEMMA CrashInv ==
  ASSUME NEW c \in Consumers, IInv, Crash(c)
  PROVE  IInv'
<1> USE DEF IInv
<1>1. WritesKept /\ UNCHANGED <<left, age, committed, position, writes>>
  BY WritesSame DEF Crash
<1>2. /\ mode' \in [Consumers -> {"idle", "releasing", "committing"}] /\ mode'[c] = "idle"
      /\ at' \in [Consumers -> Partitions \cup {None}] /\ todo' \in [Consumers -> [Partitions -> Nat]]
      /\ \A q \in Partitions : todo'[c][q] = 0
      /\ \A d \in Consumers \ {c} : mode'[d] = mode[d] /\ at'[d] = at[d] /\ todo'[d] = todo[d]
  BY IdleTypes DEF Crash
<1>3. /\ waiting' \in [Consumers -> [Partitions -> Seq(Held)]]
      /\ \A q \in Partitions : waiting'[c][q] = <<>>
      /\ \A d \in Consumers \ {c} : waiting'[d] = waiting[d]
  <2>1. [q \in Partitions |-> <<>>] \in [Partitions -> Seq(Held)]
    OBVIOUS
  <2>2. waiting' = [waiting EXCEPT ![c] = [q \in Partitions |-> <<>>]]
    BY DEF Crash
  <2>3. waiting'[c] = [q \in Partitions |-> <<>>] /\ \A d \in Consumers \ {c} : waiting'[d] = waiting[d]
    BY <2>2 DEF TypeOK
  <2>4. waiting' \in [Consumers -> [Partitions -> Seq(Held)]]
    BY <2>1, <2>2 DEF TypeOK
  <2> QED BY <2>3, <2>4
<1>4. /\ owner' \in [Partitions -> Consumers \cup {None}]
      /\ \A q \in Partitions, d \in Consumers : owner'[q] = d => owner[q] = d /\ d # c
  BY KafkaRetryAssumption DEF Crash, TypeOK
<1>5. TypeOK'
  <2>1. \A d \in Consumers, q \in Partitions : todo'[d][q] <= Len(waiting'[d][q])
    <3> SUFFICES ASSUME NEW d \in Consumers, NEW q \in Partitions
                 PROVE  todo'[d][q] <= Len(waiting'[d][q])
      OBVIOUS
    <3>1. CASE d = c
      BY <1>2, <1>3, <3>1
    <3>2. CASE d # c
      <4>1. todo'[d] = todo[d] /\ waiting'[d] = waiting[d]
        BY <1>2, <1>3, <3>2
      <4> QED BY <4>1, ReadsHeld
    <3> QED BY <3>1, <3>2
  <2>2. paused' \in [Consumers -> SUBSET Partitions] /\ trouble' \in 0 .. MaxTrouble
    BY TroubleType DEF Crash, TypeOK
  <2> QED BY <1>1, <1>2, <1>3, <1>4, <2>1, <2>2 DEF TypeOK
<1>6. CommitsHead'
  BY <1>1, <1>2, <1>3, CommittingKept
<1>7. \A d \in Consumers, q \in Partitions : position[d][q] <= End(q)
  BY DEF Bounds
<1>8. \A d \in Consumers, q \in Partitions :
        /\ waiting'[d][q] = waiting[d][q] \/ waiting'[d][q] = <<>>
        /\ todo'[d][q] = 0 \/ (todo'[d][q] = todo[d][q] /\ waiting'[d][q] = waiting[d][q])
        /\ owner'[q] = d => owner[q] = d /\ waiting'[d][q] = waiting[d][q]
  <2> SUFFICES ASSUME NEW d \in Consumers, NEW q \in Partitions
               PROVE  /\ waiting'[d][q] = waiting[d][q] \/ waiting'[d][q] = <<>>
                      /\ todo'[d][q] = 0 \/ (todo'[d][q] = todo[d][q] /\ waiting'[d][q] = waiting[d][q])
                      /\ owner'[q] = d => owner[q] = d /\ waiting'[d][q] = waiting[d][q]
    OBVIOUS
  <2>1. CASE d = c
    <3>1. waiting'[d][q] = <<>> /\ todo'[d][q] = 0
      BY <1>2, <1>3, <2>1
    <3>2. owner'[q] # c
      BY <1>4
    <3> QED BY <2>1, <3>1, <3>2
  <2>2. CASE d # c
    <3>1. todo'[d] = todo[d] /\ waiting'[d] = waiting[d]
      BY <1>2, <1>3, <2>2
    <3> QED BY <1>4, <3>1
  <2> QED BY <2>1, <2>2
<1> QED BY <1>1, <1>5, <1>6, <1>7, <1>8, Carried

(* The head is written, so the records left behind it may do without it.        *)
LEMMA CommitInv ==
  ASSUME NEW c \in Consumers, IInv, Commit(c)
  PROVE  IInv'
<1> USE DEF IInv
<1>1. PICK p \in Partitions, o \in Nat :
        /\ p = at[c] /\ o = Head(waiting[c][p]).offset /\ todo[c][p] > 0 /\ Written(p, o)
        /\ o < End(p) /\ \A k \in Nat : k < o => Written(p, k)
  <2>1. at[c] \in Partitions /\ todo[c][at[c]] > 0 /\ Written(at[c], Head(waiting[c][at[c]]).offset)
    BY DEF Commit, Order, CommitsHead
  <2> QED BY <2>1, HeadNext
<1>2. /\ committed' = [committed EXCEPT ![p] = o + 1]
      /\ waiting' = [waiting EXCEPT ![c] = [waiting[c] EXCEPT ![p] = Tail(waiting[c][p])]]
      /\ todo' = [todo EXCEPT ![c] = [todo[c] EXCEPT ![p] = todo[c][p] - 1]]
      /\ UNCHANGED <<left, age, owner, position, writes, trouble>>
  BY <1>1 DEF Commit, Committed, Popped, GoOn, TypeOK
<1>3. PICK n \in Nat : n = Len(waiting[c][p]) /\ n >= 1
  BY <1>1, ReadsHeld
<1>4. /\ Tail(waiting[c][p]) \in Seq(Held) /\ Len(Tail(waiting[c][p])) = n - 1
      /\ \A i \in 1 .. n - 1 : Tail(waiting[c][p])[i] = waiting[c][p][i + 1]
  BY <1>3, ReadsHeld
<1>5. /\ waiting' \in [Consumers -> [Partitions -> Seq(Held)]]
      /\ Len(waiting'[c][p]) = n - 1
      /\ \A i \in 1 .. n - 1 : waiting'[c][p][i] = waiting[c][p][i + 1]
      /\ \A d \in Consumers, q \in Partitions : d # c \/ q # p => waiting'[d][q] = waiting[d][q]
      /\ \A d \in Consumers \ {c} : waiting'[d] = waiting[d]
  BY <1>2, <1>4 DEF TypeOK
<1>6. /\ todo' \in [Consumers -> [Partitions -> Nat]] /\ todo'[c][p] = todo[c][p] - 1
      /\ \A d \in Consumers, q \in Partitions : d # c \/ q # p => todo'[d][q] = todo[d][q]
      /\ \A d \in Consumers \ {c} : todo'[d] = todo[d]
  <2>1. todo[c][p] - 1 \in Nat
    BY <1>1, ReadsHeld
  <2> QED BY <1>2, <2>1 DEF TypeOK
<1>7. /\ mode' \in [Consumers -> {"idle", "releasing", "committing"}] /\ mode'[c] # "committing"
      /\ at' \in [Consumers -> Partitions \cup {None}] /\ paused' \in [Consumers -> SUBSET Partitions]
      /\ \A d \in Consumers \ {c} : mode'[d] = mode[d] /\ at'[d] = at[d]
  BY <1>1 DEF Commit, GoOn, Resumed, TypeOK
<1>8. /\ committed' \in [Partitions -> Nat] /\ committed'[p] = o + 1
      /\ \A q \in Partitions \ {p} : committed'[q] = committed[q]
  BY <1>2 DEF TypeOK
<1>9. TypeOK'
  <2>1. \A d \in Consumers, q \in Partitions : todo'[d][q] <= Len(waiting'[d][q])
    <3> SUFFICES ASSUME NEW d \in Consumers, NEW q \in Partitions
                 PROVE  todo'[d][q] <= Len(waiting'[d][q])
      OBVIOUS
    <3>1. CASE d = c /\ q = p
      <4>1. todo[c][p] \in 0 .. n
        BY <1>3, ReadsHeld
      <4> QED BY <1>5, <1>6, <3>1, <4>1
    <3>2. CASE d # c \/ q # p
      <4>1. todo'[d][q] = todo[d][q] /\ waiting'[d][q] = waiting[d][q]
        BY <1>5, <1>6, <3>2
      <4> QED BY <4>1, ReadsHeld
    <3> QED BY <3>1, <3>2
  <2> QED BY <1>2, <1>5, <1>6, <1>7, <1>8, <2>1 DEF TypeOK
<1>10. Bounds'
  <2> SUFFICES ASSUME NEW q \in Partitions, NEW d \in Consumers
               PROVE  /\ committed'[q] <= End(q)
                      /\ \A i \in 1 .. Len(waiting'[d][q]) : waiting'[d][q][i].offset < End(q)
    BY <1>2 DEF Bounds
  <2>1. committed'[q] <= End(q)
    <3>1. CASE q = p
      <4>1. End(p) \in Nat
        BY Reads
      <4> QED BY <1>1, <1>8, <3>1, <4>1
    <3>2. CASE q # p
      BY <1>8, <3>2 DEF Bounds
    <3> QED BY <3>1, <3>2
  <2>2. CASE d = c /\ q = p
    <3>1. \A i \in 1 .. n - 1 : waiting[c][p][i + 1].offset < End(p)
      <4>1. \A i \in 1 .. n - 1 : i + 1 \in 1 .. n
        OBVIOUS
      <4> QED BY <1>3, <4>1 DEF Bounds
    <3> QED BY <1>5, <2>1, <2>2, <3>1
  <2>3. CASE d # c \/ q # p
    BY <1>5, <2>1, <2>3 DEF Bounds
  <2> QED BY <2>2, <2>3
<1>11. \A q \in Partitions, k \in Nat : Written(q, k)' <=> Written(q, k)
  BY <1>2 DEF Written
<1>12. ASSUME NEW m \in 1 .. n, NEW k \in Nat, Ahead(c, p, m, k)
       PROVE  Ahead(c, p, m - 1, k)'
  <2>1. CASE Written(p, k)
    BY <1>11, <2>1 DEF Ahead
  <2>2. CASE ~ Written(p, k)
    <3>1. PICK j \in 1 .. m : waiting[c][p][j].offset = k
      BY <1>12, <2>2 DEF Ahead
    <3>2. j # 1
      BY <1>1, <2>2, <3>1, HeadNext
    <3>3. j - 1 \in 1 .. m - 1 /\ j - 1 \in 1 .. n - 1 /\ (j - 1) + 1 = j
      BY <3>2
    <3>4. waiting'[c][p][j - 1].offset = k
      BY <1>5, <3>1, <3>3
    <3> QED BY <3>3, <3>4 DEF Ahead
  <2> QED BY <2>1, <2>2
<1>13. ASSUME NEW d \in Consumers, NEW q \in Partitions, d # c \/ q # p, NEW m \in Nat, NEW k \in Nat,
              Ahead(d, q, m, k)
       PROVE  Ahead(d, q, m, k)'
  BY <1>5, <1>11, <1>13 DEF Ahead
<1>14. HeldInOrder'
  <2> SUFFICES ASSUME NEW d \in Consumers, NEW q \in Partitions, NEW i \in 1 .. Len(waiting'[d][q]),
                      NEW k \in Nat, k < waiting'[d][q][i].offset
               PROVE  Ahead(d, q, i - 1, k)'
    BY DEF HeldInOrder
  <2>1. CASE d = c /\ q = p
    <3>1. i \in 1 .. n - 1 /\ i + 1 \in 1 .. n /\ i \in 1 .. n /\ i + 1 - 1 = i
      BY <1>5, <2>1
    <3>2. k < waiting[c][p][i + 1].offset
      BY <1>5, <2>1, <3>1
    <3>3. Ahead(c, p, (i + 1) - 1, k)
      BY <1>3, <3>1, <3>2 DEF Order, HeldInOrder
    <3> QED BY <1>12, <2>1, <3>1, <3>3
  <2>2. CASE d # c \/ q # p
    <3>1. waiting'[d][q] = waiting[d][q] /\ i - 1 \in Nat
      BY <1>5, <2>2
    <3>2. Ahead(d, q, i - 1, k)
      BY <3>1 DEF Order, HeldInOrder
    <3> QED BY <1>13, <2>2, <3>1, <3>2
  <2> QED BY <2>1, <2>2
<1>15. PolledInOrder'
  <2> SUFFICES ASSUME NEW d \in Consumers, NEW q \in Partitions, NEW k \in Nat,
                      owner[q] = d, k < position[d][q]
               PROVE  Ahead(d, q, Len(waiting[d][q]), k)'
    BY <1>2 DEF PolledInOrder
  <2>1. Ahead(d, q, Len(waiting[d][q]), k)
    BY DEF Order, PolledInOrder
  <2>2. PICK m \in Nat : m = Len(waiting'[d][q])
    BY <1>5
  <2>3. CASE d = c /\ q = p
    <3>1. Ahead(c, p, n, k) /\ n \in 1 .. n /\ m = n - 1
      BY <1>3, <1>5, <2>1, <2>2, <2>3
    <3>2. Ahead(c, p, n - 1, k)'
      BY <1>12, <3>1
    <3> QED BY <2>2, <2>3, <3>1, <3>2 DEF Ahead
  <2>4. CASE d # c \/ q # p
    <3>1. Ahead(d, q, m, k)
      BY <1>5, <2>1, <2>2, <2>4
    <3>2. Ahead(d, q, m, k)'
      BY <1>13, <2>4, <3>1
    <3> QED BY <2>2, <3>2 DEF Ahead
  <2> QED BY <2>3, <2>4
<1>16. CommitsHead'
  BY <1>2, <1>5, <1>6, <1>7, CommittingKept, WritesSame
<1>17. CommitOnlyWritten'
  <2> SUFFICES ASSUME NEW q \in Partitions, NEW k \in 0 .. committed'[q] - 1
               PROVE  Written(q, k)
    BY <1>11, <1>8 DEF CommitOnlyWritten
  <2>1. CASE q = p
    <3>1. k \in Nat /\ (k < o \/ k = o)
      BY <1>8, <2>1
    <3> QED BY <1>1, <2>1, <3>1
  <2>2. CASE q # p
    BY <1>8, <2>2 DEF Order, CommitOnlyWritten
  <2> QED BY <2>1, <2>2
<1>18. NoOvertaking'
  BY <1>2 DEF Order, NoOvertaking, Written
<1>19. DueNow'
  <2> SUFFICES ASSUME NEW d \in Consumers, NEW q \in Partitions, NEW i \in 1 .. todo'[d][q]
               PROVE  waiting'[d][q][i].wait = 0
    BY DEF DueNow
  <2>1. CASE d = c /\ q = p
    <3>1. todo[c][p] \in 0 .. n
      BY <1>3, ReadsHeld
    <3>2. i \in 1 .. n - 1 /\ i + 1 \in 1 .. todo[c][p]
      BY <1>6, <2>1, <3>1
    <3> QED BY <1>5, <2>1, <3>2 DEF DueNow
  <2>2. CASE d # c \/ q # p
    <3>1. todo'[d][q] = todo[d][q] /\ waiting'[d][q] = waiting[d][q]
      BY <1>5, <1>6, <2>2
    <3> QED BY <3>1 DEF DueNow
  <2> QED BY <2>1, <2>2
<1>20. Timely'
  <2> SUFFICES ASSUME OnTimeClocks, NEW q \in Partitions, NEW d \in Consumers,
                      NEW i \in 1 .. Len(waiting'[d][q])
               PROVE  waiting'[d][q][i].wait + age[q][waiting'[d][q][i].offset + 1] >= Tier
    BY <1>2 DEF Timely, OnTimeClocks
  <2>1. CASE d = c /\ q = p
    <3>1. i \in 1 .. n - 1 /\ i + 1 \in 1 .. n
      BY <1>5, <2>1
    <3> QED BY <1>3, <1>5, <2>1, <3>1 DEF Timely
  <2>2. CASE d # c \/ q # p
    BY <1>5, <2>2 DEF Timely
  <2> QED BY <2>1, <2>2
<1> QED BY <1>9, <1>10, <1>14, <1>15, <1>16, <1>17, <1>18, <1>19, <1>20 DEF Order

LEMMA NextInv ==
  ASSUME IInv, [Next]_vars
  PROVE  IInv'
<1>1. CASE Tick
  BY <1>1, TickInv
<1>2. CASE \E p \in Partitions : Park(p) \/ Revoke(p) \/ \E c \in Consumers : Assign(p, c)
  BY <1>2, ParkInv, RevokeInv, AssignInv
<1>3. CASE \E c \in Consumers : Step(c)
  BY <1>3, AcceptInv, WakeInv, CommitInv, ReinjectInv DEF Step
<1>4. CASE \E c \in Consumers : Fault(c)
  BY <1>4, CommitFailsInv, CrashInv, ReinjectFailsInv DEF Fault
<1>5. CASE UNCHANGED vars
  <2>1. TypeOK'
    BY <1>5 DEF IInv, TypeOK, vars, group, local
  <2>2. Bounds' /\ DueNow' /\ Timely'
    BY <1>5 DEF IInv, Bounds, DueNow, Timely, OnTimeClocks, vars, group, local
  <2>3. Order'
    BY <1>5 DEF IInv, Order, HeldInOrder, PolledInOrder, CommitsHead, CommitOnlyWritten, NoOvertaking,
                Ahead, Written, vars, group, local
  <2> QED BY <2>1, <2>2, <2>3 DEF IInv
<1> QED BY <1>1, <1>2, <1>3, <1>4, <1>5 DEF Next, Work

-----------------------------------------------------------------------------
(* The write budget                                                             *)

(* A place from which c may still write record o of partition p: each time it   *)
(* holds the record, but for the head whose confirmed write it is committing.   *)
Ticket(c, p, o, i) ==
  /\ i \in 1 .. Len(waiting[c][p]) /\ waiting[c][p][i].offset = o
  /\ ~(mode[c] = "committing" /\ at[c] = p /\ i = 1)
Tickets(p, o) == {t \in Consumers \X Nat : Ticket(t[1], p, o, t[2])}

(* The group may still have the record polled: no owner, whatever is committed, *)
(* or an owner that has not come to it.                                         *)
ToPoll(p, o) ==
  IF owner[p] = None THEN 1 ELSE IF position[owner[p]][p] <= o THEN 1 ELSE 0

(* The writes of a record and those still to come are paid for by its parking   *)
(* and by the failures.                                                         *)
PaidFor(p, o) ==
  /\ IsFiniteSet(Tickets(p, o))
  /\ writes[p][o + 1] + Cardinality(Tickets(p, o)) + ToPoll(p, o) <= 1 + trouble
WritesPaid == \A p \in Partitions, o \in Nat : o < End(p) => PaidFor(p, o)

(* How a set of tickets changes.                                                *)
LEMMA TicketCount ==
  ASSUME NEW S, IsFiniteSet(S), NEW x, NEW T, T \subseteq S \cup {x}
  PROVE  /\ IsFiniteSet(T) /\ Cardinality(T) \in Nat /\ Cardinality(S) \in Nat
         /\ Cardinality(T) <= Cardinality(S) + 1
         /\ T \subseteq S => Cardinality(T) <= Cardinality(S)
         /\ x \in S /\ T \subseteq S \ {x} => Cardinality(T) + 1 <= Cardinality(S)
<1>1. /\ IsFiniteSet(S \cup {x}) /\ Cardinality(S) \in Nat
      /\ Cardinality(S \cup {x}) = IF x \in S THEN Cardinality(S) ELSE Cardinality(S) + 1
  BY FS_AddElement, FS_CardinalityType
<1>2. IsFiniteSet(T) /\ Cardinality(T) \in Nat /\ Cardinality(T) <= Cardinality(S \cup {x})
  BY <1>1, FS_Subset, FS_CardinalityType
<1>3. T \subseteq S => Cardinality(T) <= Cardinality(S)
  BY FS_Subset
<1>4. ASSUME x \in S, T \subseteq S \ {x} PROVE Cardinality(T) + 1 <= Cardinality(S)
  <2>1. IsFiniteSet(S \ {x}) /\ Cardinality(S \ {x}) = Cardinality(S) - 1
    BY <1>4, FS_RemoveElement
  <2>2. Cardinality(T) <= Cardinality(S \ {x})
    BY <1>4, <2>1, FS_Subset
  <2> QED BY <1>1, <1>2, <2>1, <2>2
<1> QED BY <1>1, <1>2, <1>3, <1>4

LEMMA PaidTypes ==
  ASSUME TypeOK, Bounds, NEW p \in Partitions, NEW o \in Nat, o < End(p)
  PROVE  writes[p][o + 1] \in Nat /\ ToPoll(p, o) \in 0 .. 1 /\ trouble \in Nat
<1>1. writes[p] \in Seq(Nat) /\ Len(writes[p]) = End(p) /\ End(p) \in Nat
  BY Reads DEF Bounds
<1>2. o + 1 \in 1 .. Len(writes[p])
  BY <1>1
<1>3. writes[p][o + 1] \in Nat
  BY <1>1, <1>2, EntryOf
<1> QED BY <1>3, KafkaRetryAssumption DEF TypeOK, ToPoll

(* A step that gains no ticket and no write keeps the record paid for, and a    *)
(* failure also pays for having it polled again.                                *)
LEMMA PaidStays ==
  ASSUME IInv, IInv', NEW p \in Partitions, NEW o \in Nat, o < End(p), o < End(p)', PaidFor(p, o),
         \A d \in Consumers, i \in Nat : Ticket(d, p, o, i)' => Ticket(d, p, o, i),
         writes'[p][o + 1] = writes[p][o + 1],
         \/ ToPoll(p, o)' <= ToPoll(p, o) /\ trouble' >= trouble
         \/ trouble' = trouble + 1
  PROVE  PaidFor(p, o)'
<1>1. Tickets(p, o)' \subseteq Tickets(p, o)
  BY DEF Tickets
<1>2. /\ IsFiniteSet(Tickets(p, o)') /\ Cardinality(Tickets(p, o)') \in Nat /\ Cardinality(Tickets(p, o)) \in Nat
      /\ Cardinality(Tickets(p, o)') <= Cardinality(Tickets(p, o))
  BY <1>1, TicketCount DEF PaidFor
<1>3. writes[p][o + 1] \in Nat /\ ToPoll(p, o) \in 0 .. 1 /\ trouble \in Nat
  BY PaidTypes DEF IInv
<1>4. ToPoll(p, o)' \in 0 .. 1
  BY DEF ToPoll
<1>5. trouble' \in Nat
  BY KafkaRetryAssumption DEF IInv, TypeOK
<1>6. writes[p][o + 1] + Cardinality(Tickets(p, o)) + ToPoll(p, o) <= 1 + trouble
  BY DEF PaidFor
<1>7. ASSUME NEW w \in Nat, NEW k \in Nat, NEW n \in Nat, NEW a \in 0 .. 1, NEW b \in 0 .. 1,
             NEW t \in Nat, NEW u \in Nat, k <= n, w + n + a <= 1 + t, (b <= a /\ u >= t) \/ u = t + 1
      PROVE  w + k + b <= 1 + u
  BY <1>7
<1>8. writes'[p][o + 1] + Cardinality(Tickets(p, o)') + ToPoll(p, o)' <= 1 + trouble'
  BY <1>2, <1>3, <1>4, <1>5, <1>6, <1>7
<1> QED BY <1>2, <1>8 DEF PaidFor

(* Whatever a step adds is taken from elsewhere or paid for by a failure.       *)
LEMMA PaidSum ==
  ASSUME IInv, IInv', NEW p \in Partitions, NEW o \in Nat, o < End(p), o < End(p)', PaidFor(p, o),
         NEW x, Tickets(p, o)' \subseteq Tickets(p, o) \cup {x},
         NEW w \in 0 .. 1, writes'[p][o + 1] <= writes[p][o + 1] + w,
         \/ w = 0 /\ ToPoll(p, o)' + 1 <= ToPoll(p, o) /\ trouble' >= trouble
         \/ w = 0 /\ ToPoll(p, o)' = ToPoll(p, o) /\ trouble' = trouble + 1
         \/ /\ w = 1 /\ x \in Tickets(p, o) /\ Tickets(p, o)' \subseteq Tickets(p, o) \ {x}
            /\ (ToPoll(p, o)' = ToPoll(p, o) /\ trouble' = trouble) \/ trouble' = trouble + 1
         \/ /\ w = 1 /\ Tickets(p, o)' \subseteq Tickets(p, o)
            /\ ToPoll(p, o)' = ToPoll(p, o) /\ trouble' = trouble + 1
  PROVE  PaidFor(p, o)'
<1>1. /\ IsFiniteSet(Tickets(p, o)') /\ Cardinality(Tickets(p, o)') \in Nat /\ Cardinality(Tickets(p, o)) \in Nat
      /\ Cardinality(Tickets(p, o)') <= Cardinality(Tickets(p, o)) + 1
      /\ Tickets(p, o)' \subseteq Tickets(p, o) => Cardinality(Tickets(p, o)') <= Cardinality(Tickets(p, o))
      /\ x \in Tickets(p, o) /\ Tickets(p, o)' \subseteq Tickets(p, o) \ {x} =>
           Cardinality(Tickets(p, o)') + 1 <= Cardinality(Tickets(p, o))
  BY TicketCount DEF PaidFor
<1>2. writes[p][o + 1] \in Nat /\ ToPoll(p, o) \in 0 .. 1 /\ trouble \in Nat
  BY PaidTypes DEF IInv
<1>3. writes'[p][o + 1] \in Nat /\ ToPoll(p, o)' \in 0 .. 1 /\ trouble' \in Nat
  <2>1. writes'[p] \in Seq(Nat) /\ Len(writes'[p]) = End(p)' /\ End(p)' \in Nat
    BY DEF IInv, TypeOK, Bounds
  <2>2. o + 1 \in 1 .. Len(writes'[p])
    BY <2>1
  <2>3. writes'[p][o + 1] \in Nat
    BY <2>1, <2>2, EntryOf
  <2>4. trouble' \in Nat
    BY KafkaRetryAssumption DEF IInv, TypeOK
  <2>5. ToPoll(p, o)' \in 0 .. 1
    BY DEF ToPoll
  <2> QED BY <2>3, <2>4, <2>5
<1>4. writes[p][o + 1] + Cardinality(Tickets(p, o)) + ToPoll(p, o) <= 1 + trouble
  BY DEF PaidFor
<1> DEFINE a == writes[p][o + 1]
           a1 == writes'[p][o + 1]
           n == Cardinality(Tickets(p, o))
           k == Cardinality(Tickets(p, o)')
           b == ToPoll(p, o)
           b1 == ToPoll(p, o)'
           t == trouble
           u == trouble'
<1>5. /\ a \in Nat /\ a1 \in Nat /\ n \in Nat /\ k \in Nat /\ b \in 0 .. 1 /\ b1 \in 0 .. 1 /\ t \in Nat /\ u \in Nat
      /\ a + n + b <= 1 + t /\ a1 <= a + w
  BY <1>1, <1>2, <1>3, <1>4
<1>6. \/ w = 0 /\ k <= n + 1 /\ b1 + 1 <= b /\ u >= t
      \/ w = 0 /\ k <= n + 1 /\ b1 = b /\ u = t + 1
      \/ w = 1 /\ k + 1 <= n /\ ((b1 = b /\ u = t) \/ u = t + 1)
      \/ w = 1 /\ k <= n /\ b1 = b /\ u = t + 1
  BY <1>1
<1>7. a1 + k + b1 <= 1 + u
  <2> HIDE DEF a, a1, n, k, b, b1, t, u
  <2> QED BY <1>5, <1>6
<1> QED BY <1>1, <1>7 DEF PaidFor

LEMMA ParkPaid ==
  ASSUME IInv, IInv', WritesPaid, NEW q \in Partitions, Park(q)
  PROVE  WritesPaid'
<1> SUFFICES ASSUME NEW p \in Partitions, NEW o \in Nat, o < End(p)' PROVE PaidFor(p, o)'
  BY DEF WritesPaid
<1>1. UNCHANGED <<position, waiting, mode, at, owner, trouble>>
  BY DEF Park, group, local
<1>2. \A d \in Consumers, i \in Nat : Ticket(d, p, o, i)' <=> Ticket(d, p, o, i)
  BY <1>1 DEF Ticket
<1>3. ToPoll(p, o)' = ToPoll(p, o)
  BY <1>1 DEF ToPoll
<1>4. writes' = [writes EXCEPT ![q] = Append(writes[q], 0)] /\ writes[q] \in Seq(Nat)
  BY Reads DEF Park, IInv
<1>5. Len(writes[p]) = End(p) /\ writes[p] \in Seq(Nat) /\ End(p) \in Nat /\ Len(writes'[p]) = End(p)'
  BY Reads DEF IInv, Bounds
<1>6. CASE o < End(p)
  <2>1. o + 1 \in 1 .. Len(writes[p])
    BY <1>5, <1>6
  <2>2. Append(writes[p], 0)[o + 1] = writes[p][o + 1]
    BY <1>5, <2>1, Appended
  <2>3. writes'[p][o + 1] = writes[p][o + 1]
    BY <1>4, <2>2 DEF IInv, TypeOK
  <2>4. ToPoll(p, o)' <= ToPoll(p, o) /\ trouble' >= trouble
    BY <1>1, <1>3, <1>6, PaidTypes DEF IInv
  <2> QED BY <1>2, <1>6, <2>3, <2>4, PaidStays DEF WritesPaid
<1>7. CASE ~(o < End(p))
  <2>1. p = q /\ o = End(p) /\ writes'[p][o + 1] = 0
    <3>1. p = q
      BY <1>4, <1>5, <1>7 DEF IInv, TypeOK
    <3>2. writes'[p] = Append(writes[p], 0)
      BY <1>4, <3>1 DEF IInv, TypeOK
    <3>3. Len(writes'[p]) = End(p) + 1
      BY <1>5, <3>2, Appended
    <3>4. o = End(p)
      BY <1>5, <1>7, <3>3
    <3> QED BY <1>5, <3>1, <3>2, <3>4, Appended
  <2>2. Tickets(p, o)' = {}
    <3> SUFFICES ASSUME NEW d \in Consumers, NEW i \in Nat, Ticket(d, p, o, i) PROVE FALSE
      BY <1>2 DEF Tickets
    <3>1. waiting[d][p][i].offset < End(p) /\ waiting[d][p][i].offset = o
      BY DEF Ticket, IInv, Bounds
    <3> QED BY <1>5, <1>7, <3>1
  <2>3. IsFiniteSet({}) /\ Cardinality({}) = 0
    BY FS_EmptySet
  <2>4. ToPoll(p, o)' \in 0 .. 1 /\ trouble' \in Nat
    BY KafkaRetryAssumption DEF ToPoll, IInv, TypeOK
  <2> QED BY <2>1, <2>2, <2>3, <2>4 DEF PaidFor
<1> QED BY <1>6, <1>7

LEMMA TickPaid ==
  ASSUME IInv, IInv', WritesPaid, Tick
  PROVE  WritesPaid'
<1> SUFFICES ASSUME NEW p \in Partitions, NEW o \in Nat, o < End(p)' PROVE PaidFor(p, o)'
  BY DEF WritesPaid
<1>1. UNCHANGED <<position, mode, at, owner, writes, trouble>>
  BY DEF Tick, group
<1>2. End(p)' = End(p)
  BY <1>1 DEF IInv, Bounds
<1>3. ASSUME NEW d \in Consumers, NEW i \in Nat, Ticket(d, p, o, i)' PROVE Ticket(d, p, o, i)
  <2>1. waiting'[d][p] = [j \in 1 .. Len(waiting[d][p]) |-> [waiting[d][p][j] EXCEPT !.wait = Less(@)]]
    BY DEF Tick
  <2>2. Len(waiting[d][p]) \in Nat /\ Len(waiting'[d][p]) = Len(waiting[d][p])
    BY <2>1, ReadsHeld DEF IInv
  <2>3. i \in 1 .. Len(waiting[d][p]) /\ waiting'[d][p][i].offset = o
    BY <1>3, <2>2 DEF Ticket
  <2>4. waiting[d][p][i] \in Held
    BY <2>3, ReadsHeld DEF IInv
  <2>5. waiting'[d][p][i].offset = waiting[d][p][i].offset
    BY <2>1, <2>3, <2>4 DEF Held
  <2> QED BY <1>1, <1>3, <2>3, <2>5 DEF Ticket
<1>4. ToPoll(p, o)' <= ToPoll(p, o) /\ trouble' >= trouble
  <2>1. ToPoll(p, o)' = ToPoll(p, o)
    BY <1>1 DEF ToPoll
  <2> QED BY <1>1, <1>2, <2>1, PaidTypes DEF IInv
<1> QED BY <1>1, <1>2, <1>3, <1>4, PaidStays DEF WritesPaid

(* The group: a revoked partition is polled again, which the revocation pays.   *)
LEMMA GroupPaid ==
  ASSUME IInv, IInv', WritesPaid, NEW q \in Partitions, Revoke(q) \/ \E c \in Consumers : Assign(q, c)
  PROVE  WritesPaid'
<1> SUFFICES ASSUME NEW p \in Partitions, NEW o \in Nat, o < End(p) PROVE PaidFor(p, o)'
  BY DEF WritesPaid, Revoke, Assign
<1>1. UNCHANGED <<left, waiting, mode, at, writes>>
  BY DEF Revoke, Assign, local
<1>2. \A d \in Consumers, i \in Nat : Ticket(d, p, o, i)' => Ticket(d, p, o, i)
  BY <1>1 DEF Ticket
<1>3. CASE Revoke(q)
  <2>1. trouble' = trouble + 1
    BY <1>3 DEF Revoke, Trouble
  <2> QED BY <1>1, <1>2, <2>1, PaidStays DEF WritesPaid
<1>4. ASSUME NEW c \in Consumers, Assign(q, c) PROVE PaidFor(p, o)'
  <2>1. owner[q] = None /\ trouble' = trouble /\ owner' = [owner EXCEPT ![q] = c]
        /\ position' = [position EXCEPT ![c][q] = committed[q]]
    BY <1>4 DEF Assign
  <2>2. ToPoll(p, o)' <= ToPoll(p, o)
    <3>1. CASE p = q
      BY <2>1, <3>1 DEF ToPoll
    <3>2. CASE p # q
      <4>1. owner'[p] = owner[p] /\ \A d \in Consumers : position'[d][p] = position[d][p]
        BY <2>1, <3>2 DEF IInv, TypeOK
      <4>2. owner[p] \in Consumers \cup {None}
        BY DEF IInv, TypeOK
      <4> QED BY <4>1, <4>2 DEF ToPoll
    <3> QED BY <3>1, <3>2
  <2>3. trouble' >= trouble
    BY <2>1, PaidTypes DEF IInv
  <2> QED BY <1>1, <1>2, <2>2, <2>3, PaidStays DEF WritesPaid
<1> QED BY <1>3, <1>4

(* A re-injector that is not committing after the step has no head left out.    *)
LEMMA WakePaid ==
  ASSUME IInv, IInv', WritesPaid, NEW c \in Consumers, Wake(c)
  PROVE  WritesPaid'
<1> SUFFICES ASSUME NEW p \in Partitions, NEW o \in Nat, o < End(p) PROVE PaidFor(p, o)'
  BY DEF WritesPaid, Wake
<1>1. UNCHANGED <<left, waiting, at, writes, owner, position, trouble>> /\ mode[c] = "idle"
  BY DEF Wake, Release, group
<1>2. \A d \in Consumers \ {c} : mode'[d] = mode[d]
  BY DEF Wake, Release, IInv, TypeOK
<1>3. \A d \in Consumers, i \in Nat : Ticket(d, p, o, i)' => Ticket(d, p, o, i)
  BY <1>1, <1>2 DEF Ticket
<1>4. ToPoll(p, o)' <= ToPoll(p, o) /\ trouble' >= trouble
  <2>1. ToPoll(p, o)' = ToPoll(p, o)
    BY <1>1 DEF ToPoll
  <2> QED BY <1>1, <2>1, PaidTypes DEF IInv
<1> QED BY <1>1, <1>3, <1>4, PaidStays DEF WritesPaid

LEMMA CrashPaid ==
  ASSUME IInv, IInv', WritesPaid, NEW c \in Consumers, Crash(c)
  PROVE  WritesPaid'
<1> SUFFICES ASSUME NEW p \in Partitions, NEW o \in Nat, o < End(p) PROVE PaidFor(p, o)'
  BY DEF WritesPaid, Crash
<1>1. UNCHANGED <<left, writes>> /\ trouble' = trouble + 1
  BY DEF Crash, Trouble
<1>2. /\ waiting'[c] = [q \in Partitions |-> <<>>]
      /\ \A d \in Consumers \ {c} : mode'[d] = mode[d] /\ at'[d] = at[d] /\ waiting'[d] = waiting[d]
  BY IdleTypes DEF Crash, IInv, TypeOK
<1>3. ASSUME NEW d \in Consumers, NEW i \in Nat, Ticket(d, p, o, i)' PROVE Ticket(d, p, o, i)
  <2>1. CASE d = c
    <3>1. Len(waiting'[c][p]) = 0
      BY <1>2
    <3> QED BY <1>3, <2>1, <3>1 DEF Ticket
  <2>2. CASE d # c
    BY <1>2, <1>3, <2>2 DEF Ticket
  <2> QED BY <2>1, <2>2
<1> QED BY <1>1, <1>3, PaidStays DEF WritesPaid

(* A failed commit leaves the head to be written again.                         *)
LEMMA CommitFailsPaid ==
  ASSUME IInv, IInv', WritesPaid, NEW c \in Consumers, CommitFails(c)
  PROVE  WritesPaid'
<1> SUFFICES ASSUME NEW p \in Partitions, NEW o \in Nat, o < End(p) PROVE PaidFor(p, o)'
  BY DEF WritesPaid, CommitFails
<1>1. UNCHANGED <<left, waiting, writes, owner, position>> /\ trouble' = trouble + 1
  BY DEF CommitFails, Trouble, group
<1>2. \A d \in Consumers \ {c} : mode'[d] = mode[d] /\ at'[d] = at[d]
  BY IdleTypes DEF CommitFails, IInv
<1>3. Tickets(p, o)' \subseteq Tickets(p, o) \cup {<<c, 1>>}
  <2> SUFFICES ASSUME NEW d \in Consumers, NEW i \in Nat, Ticket(d, p, o, i)', <<d, i>> # <<c, 1>>
               PROVE  Ticket(d, p, o, i)
    BY DEF Tickets
  <2> QED BY <1>1, <1>2 DEF Ticket
<1>4. ToPoll(p, o)' = ToPoll(p, o)
  BY <1>1 DEF ToPoll
<1>5. writes'[p][o + 1] <= writes[p][o + 1] + 0
  BY <1>1, PaidTypes DEF IInv
<1>6. 0 \in 0 .. 1
  OBVIOUS
<1> QED BY <1>1, <1>3, <1>4, <1>5, <1>6, PaidSum DEF WritesPaid

(* The record written is the head, whose ticket is spent.                       *)
LEMMA HeadTicket ==
  ASSUME IInv, NEW c \in Consumers, NEW q \in Partitions, todo[c][q] > 0, mode[c] = "releasing",
         Confirmed(q, Head(waiting[c][q]).offset), UNCHANGED left,
         NEW p \in Partitions, NEW o \in Nat, o < End(p)
  PROVE  \/ writes'[p][o + 1] = writes[p][o + 1]
         \/ /\ p = q /\ o = waiting[c][q][1].offset /\ 1 \in 1 .. Len(waiting[c][q])
            /\ <<c, 1>> \in Tickets(p, o) /\ writes'[p][o + 1] = writes[p][o + 1] + 1
<1>1. PICK h \in Nat : /\ h = waiting[c][q][1].offset /\ h = Head(waiting[c][q]).offset /\ h < End(q)
                       /\ 1 \in 1 .. Len(waiting[c][q])
  BY HeadNext
<1>2. writes' = [writes EXCEPT ![q] = [writes[q] EXCEPT ![h + 1] = writes[q][h + 1] + 1]]
  BY <1>1 DEF Confirmed, IInv, TypeOK
<1>3. /\ writes[p] \in Seq(Nat) /\ Len(writes[p]) = End(p) /\ End(p) \in Nat
  BY Reads DEF IInv, Bounds
<1>4. o + 1 \in 1 .. Len(writes[p])
  BY <1>3
<1>5. CASE p = q /\ o = h
  <2>1. writes'[p][o + 1] = writes[p][o + 1] + 1
    BY <1>2, <1>3, <1>4, <1>5 DEF IInv, TypeOK
  <2>2. Ticket(c, q, h, 1)
    BY <1>1 DEF Ticket
  <2>3. <<c, 1>> \in Tickets(q, h)
    BY <2>2 DEF Tickets
  <2> QED BY <1>1, <1>5, <2>1, <2>3
<1>6. CASE p # q \/ o # h
  <2>1. CASE p # q
    <3>1. writes'[p] = writes[p]
      BY <1>2, <2>1 DEF IInv, TypeOK
    <3> QED BY <3>1
  <2>2. CASE p = q /\ o # h
    <3>1. writes'[p] = [writes[p] EXCEPT ![h + 1] = writes[p][h + 1] + 1]
      BY <1>2, <2>2 DEF IInv, TypeOK
    <3>2. DOMAIN writes[p] = 1 .. Len(writes[p])
      BY <1>3
    <3>3. o + 1 \in DOMAIN writes[p]
      BY <1>4, <3>2
    <3>4. o + 1 # h + 1
      BY <2>2
    <3> QED BY <3>1, <3>3, <3>4
  <2> QED BY <1>6, <2>1, <2>2
<1> QED BY <1>5, <1>6

LEMMA ReinjectPaid ==
  ASSUME IInv, IInv', WritesPaid, NEW c \in Consumers, NEW q \in Partitions, Reinject(c, q)
  PROVE  WritesPaid'
<1> SUFFICES ASSUME NEW p \in Partitions, NEW o \in Nat, o < End(p) PROVE PaidFor(p, o)'
  BY DEF WritesPaid, Reinject
<1>1. /\ UNCHANGED <<left, waiting, owner, position, trouble>> /\ todo[c][q] > 0 /\ mode[c] = "releasing"
      /\ Confirmed(q, Head(waiting[c][q]).offset)
  BY DEF Reinject, Current, group
<1>2. /\ mode'[c] = "committing" /\ at'[c] = q
      /\ \A d \in Consumers \ {c} : mode'[d] = mode[d] /\ at'[d] = at[d]
  BY DEF Reinject, IInv, TypeOK
<1>3. \A d \in Consumers, i \in Nat : Ticket(d, p, o, i)' => Ticket(d, p, o, i) /\ ~(p = q /\ d = c /\ i = 1)
  BY <1>1, <1>2 DEF Ticket
<1>4. ToPoll(p, o)' = ToPoll(p, o)
  BY <1>1 DEF ToPoll
<1>5. CASE writes'[p][o + 1] = writes[p][o + 1]
  <2>1. ToPoll(p, o)' <= ToPoll(p, o) /\ trouble' >= trouble
    BY <1>1, <1>4, PaidTypes DEF IInv
  <2> QED BY <1>1, <1>3, <1>5, <2>1, PaidStays DEF WritesPaid
<1>6. CASE p = q /\ <<c, 1>> \in Tickets(p, o) /\ writes'[p][o + 1] = writes[p][o + 1] + 1
  <2>1. Tickets(p, o)' \subseteq Tickets(p, o) \ {<<c, 1>>}
    BY <1>3, <1>6 DEF Tickets
  <2>2. writes'[p][o + 1] <= writes[p][o + 1] + 1 /\ 1 \in 0 .. 1
    BY <1>6, PaidTypes DEF IInv
  <2>3. Tickets(p, o)' \subseteq Tickets(p, o) \cup {<<c, 1>>}
    BY <2>1
  <2> QED BY <1>1, <1>4, <1>6, <2>1, <2>2, <2>3, PaidSum DEF WritesPaid
<1> QED BY <1>1, <1>5, <1>6, HeadTicket

LEMMA ReinjectFailsPaid ==
  ASSUME IInv, IInv', WritesPaid, NEW c \in Consumers, NEW q \in Partitions, ReinjectFails(c, q)
  PROVE  WritesPaid'
<1> SUFFICES ASSUME NEW p \in Partitions, NEW o \in Nat, o < End(p) PROVE PaidFor(p, o)'
  BY DEF WritesPaid, ReinjectFails
<1>1. /\ UNCHANGED <<left, owner>> /\ trouble' = trouble + 1 /\ todo[c][q] > 0 /\ mode[c] = "releasing"
      /\ Confirmed(q, Head(waiting[c][q]).offset) \/ UNCHANGED writes
  BY DEF ReinjectFails, Current, Trouble, group
<1>2. \/ writes'[p][o + 1] = writes[p][o + 1]
      \/ /\ p = q /\ o = waiting[c][q][1].offset /\ 1 \in 1 .. Len(waiting[c][q])
         /\ <<c, 1>> \in Tickets(p, o) /\ writes'[p][o + 1] = writes[p][o + 1] + 1
  BY <1>1, HeadTicket
(* The partition is given back,                                                 *)
<1>3. CASE waiting' = [waiting EXCEPT ![c][q] = <<>>] /\ GoOn(c, q, 0)
  <2>1. /\ waiting'[c][q] = <<>>
        /\ \A d \in Consumers, r \in Partitions : d # c \/ r # q => waiting'[d][r] = waiting[d][r]
        /\ \A d \in Consumers \ {c} : mode'[d] = mode[d] /\ at'[d] = at[d]
    BY <1>3 DEF IInv, TypeOK, GoOn
  <2>2. ASSUME NEW d \in Consumers, NEW i \in Nat, Ticket(d, p, o, i)'
        PROVE  Ticket(d, p, o, i) /\ ~(d = c /\ p = q)
    <3>1. CASE d = c /\ p = q
      <4>1. Len(waiting'[d][p]) = 0
        BY <2>1, <3>1
      <4> QED BY <2>2, <4>1 DEF Ticket
    <3>2. CASE ~(d = c /\ p = q)
      BY <1>1, <2>1, <2>2, <3>2 DEF Ticket
    <3> QED BY <3>1, <3>2
  <2>3. CASE writes'[p][o + 1] = writes[p][o + 1]
    BY <1>1, <2>2, <2>3, PaidStays DEF WritesPaid
  <2>4. CASE p = q /\ <<c, 1>> \in Tickets(p, o) /\ writes'[p][o + 1] = writes[p][o + 1] + 1
    <3>1. Tickets(p, o)' \subseteq Tickets(p, o) \ {<<c, 1>>}
      BY <2>2, <2>4 DEF Tickets
    <3>2. Tickets(p, o)' \subseteq Tickets(p, o) \cup {<<c, 1>>}
      BY <3>1
    <3>3. writes'[p][o + 1] <= writes[p][o + 1] + 1 /\ 1 \in 0 .. 1
      BY <2>4, PaidTypes DEF IInv
    <3> QED BY <1>1, <2>4, <3>1, <3>2, <3>3, PaidSum DEF WritesPaid
  <2> QED BY <1>2, <2>3, <2>4
(* or everything stays.                                                         *)
<1>4. CASE UNCHANGED <<position, waiting>> /\ Idle(c)
  <2>1. /\ mode'[c] = "idle"
        /\ \A d \in Consumers \ {c} : mode'[d] = mode[d] /\ at'[d] = at[d]
    BY <1>4, IdleTypes DEF IInv
  <2>2. \A d \in Consumers, i \in Nat : Ticket(d, p, o, i)' => Ticket(d, p, o, i)
    BY <1>1, <1>4, <2>1 DEF Ticket
  <2>3. ToPoll(p, o)' = ToPoll(p, o)
    BY <1>1, <1>4 DEF ToPoll
  <2>4. Tickets(p, o)' \subseteq Tickets(p, o) /\ Tickets(p, o)' \subseteq Tickets(p, o) \cup {c}
    BY <2>2 DEF Tickets
  <2>5. writes'[p][o + 1] <= writes[p][o + 1] + 1 /\ 1 \in 0 .. 1
    BY <1>2, PaidTypes DEF IInv
  <2> QED BY <1>1, <2>3, <2>4, <2>5, PaidSum DEF WritesPaid
<1> QED BY <1>3, <1>4 DEF ReinjectFails

(* A polled record is held once more and polled once less.                      *)
LEMMA AcceptPaid ==
  ASSUME IInv, IInv', WritesPaid, NEW c \in Consumers, Accept(c)
  PROVE  WritesPaid'
<1> SUFFICES ASSUME NEW p \in Partitions, NEW o \in Nat, o < End(p) PROVE PaidFor(p, o)'
  BY DEF WritesPaid, Accept
<1>1. PICK q \in Partitions :
        /\ owner[q] = c
        /\ waiting' = [waiting EXCEPT ![c][q] = Append(@, [offset |-> position[c][q],
                         wait |-> TargetTime(left[q][position[c][q] + 1])])]
        /\ position' = [position EXCEPT ![c][q] = @ + 1]
        /\ trouble' = trouble \/ Trouble
  BY DEF Accept, Hold
<1>2. /\ UNCHANGED <<left, owner, at, writes>> /\ mode[c] = "idle"
      /\ \A d \in Consumers \ {c} : mode'[d] = mode[d]
  BY DEF Accept, Release, group, IInv, TypeOK
<1>3. trouble \in Nat /\ trouble' >= trouble /\ writes[p][o + 1] \in Nat /\ writes'[p][o + 1] <= writes[p][o + 1] + 0
      /\ ToPoll(p, o) \in 0 .. 1
  BY <1>1, <1>2, PaidTypes DEF Trouble, IInv
<1> DEFINE h == [offset |-> position[c][q], wait |-> TargetTime(left[q][position[c][q] + 1])]
           n == Len(waiting[c][q])
<1>10. /\ waiting' = [waiting EXCEPT ![c] = [@ EXCEPT ![q] = Append(waiting[c][q], h)]]
      /\ position' = [position EXCEPT ![c] = [@ EXCEPT ![q] = position[c][q] + 1]]
  BY <1>1
<1>11. h.offset = position[c][q]
  OBVIOUS
<1> HIDE DEF h
<1>4. /\ waiting'[c][q] = Append(waiting[c][q], h) /\ waiting[c][q] \in Seq(Held) /\ n \in Nat
      /\ \A d \in Consumers, r \in Partitions : d # c \/ r # q => waiting'[d][r] = waiting[d][r]
  <2>1. waiting[c][q] \in Seq(Held) /\ n \in Nat
    BY ReadsHeld DEF IInv
  <2>2. waiting'[c] = [waiting[c] EXCEPT ![q] = Append(waiting[c][q], h)]
        /\ \A d \in Consumers \ {c} : waiting'[d] = waiting[d]
    BY <1>10 DEF IInv, TypeOK
  <2>3. waiting[c] \in [Partitions -> Seq(Held)]
    BY DEF IInv, TypeOK
  <2> QED BY <2>1, <2>2, <2>3
<1>5. /\ position[c][q] \in Nat /\ position'[c][q] = position[c][q] + 1
      /\ \A d \in Consumers, r \in Partitions : d # c \/ r # q => position'[d][r] = position[d][r]
  <2>1. position[c][q] \in Nat
    BY ReadsHeld DEF IInv
  <2>2. position'[c] = [position[c] EXCEPT ![q] = position[c][q] + 1]
        /\ \A d \in Consumers \ {c} : position'[d] = position[d]
    BY <1>10 DEF IInv, TypeOK
  <2>3. position[c] \in [Partitions -> Nat]
    BY DEF IInv, TypeOK
  <2> QED BY <2>1, <2>2, <2>3
<1>6. /\ Len(waiting'[c][q]) = n + 1 /\ waiting'[c][q][n + 1].offset = position[c][q]
      /\ \A i \in 1 .. n : waiting'[c][q][i] = waiting[c][q][i]
  BY <1>4, <1>11
<1>7. ASSUME NEW d \in Consumers, NEW i \in Nat, Ticket(d, p, o, i)'
      PROVE  Ticket(d, p, o, i) \/ (d = c /\ p = q /\ i = n + 1 /\ o = position[c][q])
  <2>1. CASE d = c /\ p = q
    <3>1. i \in 1 .. n + 1 /\ waiting'[c][q][i].offset = o
      BY <1>6, <1>7, <2>1 DEF Ticket
    <3>2. CASE i = n + 1
      BY <1>6, <2>1, <3>1, <3>2
    <3>3. CASE i \in 1 .. n
      BY <1>2, <1>6, <2>1, <3>1, <3>3 DEF Ticket
    <3> QED BY <1>4, <3>1, <3>2, <3>3
  <2>2. CASE d # c \/ p # q
    BY <1>2, <1>4, <1>7, <2>2 DEF Ticket
  <2> QED BY <2>1, <2>2
<1>8. CASE p = q /\ o = position[c][q]
  <2>1. ToPoll(p, o)' + 1 <= ToPoll(p, o)
    BY <1>1, <1>2, <1>5, <1>8, KafkaRetryAssumption DEF ToPoll
  <2>2. Tickets(p, o)' \subseteq Tickets(p, o) \cup {<<c, n + 1>>}
    BY <1>7, <1>8 DEF Tickets
  <2>3. 0 \in 0 .. 1
    OBVIOUS
  <2> QED BY <1>2, <1>3, <2>1, <2>2, <2>3, PaidSum DEF WritesPaid
<1>9. CASE p # q \/ o # position[c][q]
  <2>1. ToPoll(p, o)' <= ToPoll(p, o)
    <3>1. CASE p = q
      BY <1>1, <1>2, <1>5, <1>9, <3>1, KafkaRetryAssumption DEF ToPoll
    <3>2. CASE p # q
      <4>1. owner[p] \in Consumers \cup {None} /\ \A d \in Consumers : position'[d][p] = position[d][p]
        BY <1>5, <3>2 DEF IInv, TypeOK
      <4>2. ToPoll(p, o)' = ToPoll(p, o)
        BY <1>2, <4>1 DEF ToPoll
      <4> QED BY <1>3, <4>2
    <3> QED BY <3>1, <3>2
  <2>2. \A d \in Consumers, i \in Nat : Ticket(d, p, o, i)' => Ticket(d, p, o, i)
    BY <1>7, <1>9
  <2> QED BY <1>2, <1>3, <2>1, <2>2, PaidStays DEF WritesPaid
<1> QED BY <1>8, <1>9

(* The committed head, which had no ticket, leaves; the tickets of the records  *)
(* behind it move up.                                                           *)
LEMMA CommitPaid ==
  ASSUME IInv, IInv', WritesPaid, NEW c \in Consumers, Commit(c)
  PROVE  WritesPaid'
<1> SUFFICES ASSUME NEW p \in Partitions, NEW o \in Nat, o < End(p) PROVE PaidFor(p, o)'
  BY DEF WritesPaid, Commit
<1>1. /\ UNCHANGED <<left, owner, position, writes, trouble>> /\ mode[c] = "committing"
      /\ at[c] \in Partitions /\ 1 \in 1 .. Len(waiting[c][at[c]])
  BY HeadNext DEF Commit, IInv, Order, CommitsHead
<1>2. PICK q \in Partitions : q = at[c]
  BY <1>1
<1>3. /\ mode'[c] # "committing"
      /\ \A d \in Consumers \ {c} : mode'[d] = mode[d] /\ at'[d] = at[d]
  BY DEF Commit, GoOn, IInv, TypeOK
<1>4. waiting' = [waiting EXCEPT ![c] = [waiting[c] EXCEPT ![q] = Tail(waiting[c][q])]]
  BY <1>2 DEF Commit, Popped
<1>5. /\ waiting'[c][q] = Tail(waiting[c][q])
      /\ \A d \in Consumers, r \in Partitions : d # c \/ r # q => waiting'[d][r] = waiting[d][r]
  <2>1. waiting'[c] = [waiting[c] EXCEPT ![q] = Tail(waiting[c][q])]
        /\ \A d \in Consumers \ {c} : waiting'[d] = waiting[d]
    BY <1>4 DEF IInv, TypeOK
  <2>2. waiting[c] \in [Partitions -> Seq(Held)]
    BY DEF IInv, TypeOK
  <2> QED BY <2>1, <2>2
<1> DEFINE n == Len(waiting[c][q])
<1>6. /\ waiting[c][q] \in Seq(Held) /\ n \in Nat \ {0} /\ Len(waiting'[c][q]) = n - 1
      /\ \A i \in 1 .. n - 1 : waiting'[c][q][i] = waiting[c][q][i + 1]
  <2>1. waiting[c][q] \in Seq(Held) /\ n \in Nat /\ 1 \in 1 .. n
    BY <1>1, <1>2, ReadsHeld DEF IInv
  <2> QED BY <1>5, <2>1
<1> HIDE DEF n
<1>7. ToPoll(p, o)' = ToPoll(p, o)
  BY <1>1 DEF ToPoll
<1>8. ToPoll(p, o)' <= ToPoll(p, o) /\ trouble' >= trouble
  BY <1>1, <1>7, PaidTypes DEF IInv
<1>9. CASE p # q
  <2>1. \A d \in Consumers, i \in Nat : Ticket(d, p, o, i)' => Ticket(d, p, o, i)
    <3> SUFFICES ASSUME NEW d \in Consumers, NEW i \in Nat, Ticket(d, p, o, i)' PROVE Ticket(d, p, o, i)
      OBVIOUS
    <3>1. waiting'[d][p] = waiting[d][p]
      BY <1>5, <1>9
    <3> QED BY <1>2, <1>3, <1>9, <3>1 DEF Ticket
  <2> QED BY <1>1, <1>8, <2>1, PaidStays DEF WritesPaid
<1>10. CASE p = q
  <2> DEFINE T == Tickets(p, o)
             U == Tickets(p, o)'
             f == [t \in U |-> IF t[1] = c THEN <<c, t[2] + 1>> ELSE t]
  <2>1. ASSUME NEW t \in U PROVE t = <<t[1], t[2]>> /\ t[2] \in Nat /\ f[t] \in T
    <3>1. t \in Consumers \X Nat /\ Ticket(t[1], p, o, t[2])'
      BY <2>1 DEF Tickets
    <3>2. PICK d \in Consumers, i \in Nat : t = <<d, i>> /\ Ticket(d, p, o, i)'
      BY <3>1
    <3>3. CASE d = c
      <4>1. i \in 1 .. n - 1 /\ waiting'[c][q][i].offset = o
        BY <1>6, <1>10, <3>2, <3>3 DEF Ticket
      <4>2. i + 1 \in 1 .. n /\ waiting[c][q][i + 1].offset = o /\ i + 1 # 1 /\ i + 1 \in Nat
        BY <1>6, <4>1
      <4>3. Ticket(c, p, o, i + 1)
        BY <1>10, <4>2 DEF Ticket, n
      <4>4. <<c, i + 1>> \in T
        BY <4>2, <4>3 DEF Tickets
      <4> QED BY <2>1, <3>2, <3>3, <4>4
    <3>4. CASE d # c
      <4>1. Ticket(d, p, o, i)
        BY <1>3, <1>5, <3>2, <3>4 DEF Ticket
      <4> QED BY <2>1, <3>2, <3>4, <4>1 DEF Tickets
    <3> QED BY <3>3, <3>4
  <2>2. ASSUME NEW t \in U, NEW u \in U, f[t] = f[u] PROVE t = u
    <3>1. t = <<t[1], t[2]>> /\ u = <<u[1], u[2]>> /\ t[2] \in Nat /\ u[2] \in Nat
      BY <2>1, <2>2
    <3>2. f[t] = (IF t[1] = c THEN <<c, t[2] + 1>> ELSE t) /\ f[u] = (IF u[1] = c THEN <<c, u[2] + 1>> ELSE u)
      BY <2>2
    <3> QED BY <2>2, <3>1, <3>2
  <2>3. f \in Injection(U, T)
    <3>1. f \in [U -> T]
      BY <2>1
    <3>2. \A t, u \in DOMAIN f : f[t] = f[u] => t = u
      BY <2>2
    <3> HIDE DEF f, U, T
    <3> QED BY <3>1, <3>2 DEF Injection, IsInjective
  <2> HIDE DEF f, U, T
  <2>4. IsFiniteSet(T)
    BY <1>1 DEF WritesPaid, PaidFor, T
  <2>5. IsFiniteSet(U) /\ Cardinality(U) \in Nat /\ Cardinality(T) \in Nat /\ Cardinality(U) <= Cardinality(T)
    BY <2>3, <2>4, FS_Injection, FS_CardinalityType
  <2>6. writes[p][o + 1] + Cardinality(T) + ToPoll(p, o) <= 1 + trouble
    BY DEF WritesPaid, PaidFor, T
  <2>7. writes[p][o + 1] \in Nat /\ ToPoll(p, o) \in 0 .. 1 /\ trouble \in Nat
    BY PaidTypes DEF IInv
  <2>8. writes[p][o + 1] + Cardinality(U) + ToPoll(p, o) <= 1 + trouble
    <3> DEFINE w == writes[p][o + 1]
               a == ToPoll(p, o)
    <3>1. w \in Nat /\ a \in Nat /\ w + Cardinality(T) + a <= 1 + trouble
      BY <2>6, <2>7
    <3> HIDE DEF w, a
    <3>2. w + Cardinality(U) + a <= 1 + trouble
      BY <2>5, <2>7, <3>1
    <3> QED BY <3>2 DEF w, a
  <2> QED BY <1>1, <1>7, <2>5, <2>8 DEF PaidFor, U
<1> QED BY <1>9, <1>10

LEMMA InitPaid == Init => WritesPaid
BY DEF Init, WritesPaid

LEMMA NextPaid ==
  ASSUME IInv, IInv', WritesPaid, [Next]_vars
  PROVE  WritesPaid'
<1>1. CASE Tick
  BY <1>1, TickPaid
<1>2. CASE \E p \in Partitions : Park(p) \/ Revoke(p) \/ \E c \in Consumers : Assign(p, c)
  BY <1>2, ParkPaid, GroupPaid
<1>3. CASE \E c \in Consumers : Step(c)
  BY <1>3, AcceptPaid, WakePaid, CommitPaid, ReinjectPaid DEF Step
<1>4. CASE \E c \in Consumers : Fault(c)
  BY <1>4, CommitFailsPaid, CrashPaid, ReinjectFailsPaid DEF Fault
<1>5. CASE UNCHANGED vars
  <2> SUFFICES ASSUME NEW p \in Partitions, NEW o \in Nat, o < End(p) PROVE PaidFor(p, o)'
    BY <1>5 DEF WritesPaid, vars
  <2>1. UNCHANGED <<left, waiting, mode, at, writes, owner, position, trouble>>
    BY <1>5 DEF vars, group, local
  <2>2. \A d \in Consumers, i \in Nat : Ticket(d, p, o, i)' => Ticket(d, p, o, i)
    BY <2>1 DEF Ticket
  <2>3. ToPoll(p, o)' = ToPoll(p, o)
    BY <2>1 DEF ToPoll
  <2>4. ToPoll(p, o)' <= ToPoll(p, o) /\ trouble' >= trouble
    BY <2>1, <2>3, PaidTypes DEF IInv
  <2> QED BY <2>1, <2>2, <2>4, PaidStays DEF WritesPaid
<1> QED BY <1>1, <1>2, <1>3, <1>4, <1>5 DEF Next, Work

-----------------------------------------------------------------------------
(* The theorems                                                                 *)

(* The inductive invariant holds whatever the re-injectors, the group and the   *)
(* clock do (RetryReinjector.run_once(), kafka_retry.py).                       *)
THEOREM Invariants == Spec => []IInv
<1>1. Init => IInv
  BY InitInv
<1>2. IInv /\ [Next]_vars => IInv'
  BY NextInv
<1> QED BY <1>1, <1>2, PTL DEF Spec

(* The held records, the counts of one _release_due() and the books keep their  *)
(* types, and a call never counts more records than it holds.                   *)
THEOREM TypeCorrect == Spec => []TypeOK
<1>1. IInv => TypeOK
  BY DEF IInv
<1> QED BY <1>1, Invariants, PTL

(* The offset of a tier record is committed only when it and all before it are  *)
(* confirmed on the work topic, for any number of re-injectors and rebalances.  *)
THEOREM CommitsOnlyWritten == Spec => []CommitOnlyWritten
<1>1. IInv => CommitOnlyWritten
  BY DEF IInv, Order
<1> QED BY <1>1, Invariants, PTL

(* No record is on the work topic while one before it in its partition is not,  *)
(* also after a failed write, a rewind, a rebalance or a crash.                 *)
THEOREM NobodyOvertakes == Spec => []NoOvertaking
<1>1. IInv => NoOvertaking
  BY DEF IInv, Order
<1> QED BY <1>1, Invariants, PTL

LEMMA HeadNotEarly ==
  ASSUME IInv, OnTimeClocks, NEW c \in Consumers, NEW p \in Partitions, todo[c][p] > 0,
         Confirmed(p, Head(waiting[c][p]).offset), NEW q \in Partitions, NEW o \in 0 .. End(q) - 1,
         writes'[q][o + 1] # writes[q][o + 1]
  PROVE  age[q][o + 1] >= Tier
<1> USE DEF IInv
<1>1. PICK x \in Nat : x = Head(waiting[c][p]).offset
  BY HeadNext
<1>2. writes' = [writes EXCEPT ![p] = [writes[p] EXCEPT ![x + 1] = writes[p][x + 1] + 1]]
  BY <1>1 DEF Confirmed, TypeOK
<1>3. o + 1 \in 1 .. Len(writes[q]) /\ writes[q] \in Seq(Nat)
  BY Reads DEF Bounds
<1>4. q = p /\ o + 1 = x + 1
  BY <1>2, <1>3 DEF TypeOK
<1>5. waiting[c][p][1].wait = 0 /\ waiting[c][p][1].offset = x /\ 1 \in 1 .. Len(waiting[c][p])
  BY <1>1, HeadNext
<1>6. 0 + age[p][x + 1] >= Tier
  BY <1>5 DEF Timely
<1>7. age[p] \in Seq(0 .. 2 * Tier) /\ Len(age[p]) = Len(writes[p])
  BY Reads DEF Bounds
<1>8. age[q][o + 1] \in 0 .. 2 * Tier
  BY <1>3, <1>4, <1>7, EntryOf
<1> QED BY <1>4, <1>6, <1>8

(* With producers whose clocks are not behind, no record reaches the work topic *)
(* before its tier has elapsed (target_time(), _release_due()).                 *)
THEOREM NobodyIsEarly ==
  ASSUME OnTimeClocks
  PROVE  Spec => NotEarly
<1>1. IInv /\ [Next]_vars =>
        [\A p \in Partitions : \A o \in 0 .. End(p) - 1 :
           writes'[p][o + 1] # writes[p][o + 1] => age[p][o + 1] >= Tier]_vars
  <2> SUFFICES ASSUME IInv, Next, NEW p \in Partitions, NEW o \in 0 .. End(p) - 1,
                      writes'[p][o + 1] # writes[p][o + 1]
               PROVE  age[p][o + 1] >= Tier
    OBVIOUS
  <2>1. CASE Tick
    BY <2>1 DEF Tick
  <2>2. CASE \E q \in Partitions : Park(q) \/ Revoke(q) \/ \E c \in Consumers : Assign(q, c)
    <3>1. PICK q \in Partitions : Park(q)
      BY <2>2 DEF Revoke, Assign
    <3>2. writes' = [writes EXCEPT ![q] = Append(writes[q], 0)]
      BY <3>1 DEF Park, IInv, TypeOK
    <3>3. o + 1 \in 1 .. Len(writes[p]) /\ writes[p] \in Seq(Nat)
      <4>1. Len(writes[p]) = End(p) /\ End(p) \in Nat /\ writes[p] \in Seq(Nat)
        BY Reads DEF IInv, Bounds
      <4> QED BY <4>1
    <3>4. Append(writes[p], 0)[o + 1] = writes[p][o + 1]
      BY <3>3, Appended
    <3>5. writes'[p][o + 1] = writes[p][o + 1]
      BY <3>2, <3>4 DEF IInv, TypeOK
    <3> QED BY <3>5
  <2>3. CASE \E c \in Consumers : Step(c)
    BY <2>3, HeadNotEarly DEF Step, Accept, Wake, Commit, Reinject, Current
  <2>4. CASE \E c \in Consumers : Fault(c)
    BY <2>4, HeadNotEarly DEF Fault, CommitFails, Crash, ReinjectFails, Current
  <2> QED BY <2>1, <2>2, <2>3, <2>4 DEF Next, Work
<1> QED BY <1>1, Invariants, PTL DEF Spec, NotEarly

(* The writes a record has had and those still to come, from every memory that  *)
(* holds it and from the poll, are paid for by its parking and by failures.     *)
THEOREM WritesArePaid == Spec => [](IInv /\ WritesPaid)
<1>1. Init => IInv /\ WritesPaid
  BY InitInv, InitPaid
<1>2. IInv /\ WritesPaid /\ [Next]_vars => (IInv /\ WritesPaid)'
  BY NextInv, NextPaid
<1> QED BY <1>1, <1>2, PTL DEF Spec

(* A parked record is written to the work topic once, and once more for each    *)
(* failed call, rebalance or crash at most (_release_due(), _reinject()).       *)
THEOREM WritesAreBudgeted == Spec => []WriteBudget
<1>1. IInv /\ WritesPaid => WriteBudget
  <2> SUFFICES ASSUME IInv, WritesPaid, NEW p \in Partitions, NEW o \in 0 .. End(p) - 1
               PROVE  writes[p][o + 1] <= 1 + trouble
    BY DEF WriteBudget
  <2>1. End(p) \in Nat
    BY Reads DEF IInv
  <2>2. o \in Nat /\ o < End(p)
    BY <2>1
  <2>3. /\ writes[p][o + 1] + Cardinality(Tickets(p, o)) + ToPoll(p, o) <= 1 + trouble
        /\ IsFiniteSet(Tickets(p, o))
    BY <2>2 DEF WritesPaid, PaidFor
  <2>4. /\ writes[p][o + 1] \in Nat /\ Cardinality(Tickets(p, o)) \in Nat
        /\ ToPoll(p, o) \in 0 .. 1 /\ trouble \in Nat
    BY <2>2, <2>3, PaidTypes, FS_CardinalityType DEF IInv
  <2> QED BY <2>3, <2>4
<1> QED BY <1>1, WritesArePaid, PTL

=============================================================================
