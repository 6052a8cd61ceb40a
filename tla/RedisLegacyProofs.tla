------------------------- MODULE RedisLegacyProofs -------------------------
(***************************************************************************)
(* Proofs about RedisLegacy for every set of workers, tokens and bodies,    *)
(* every retry_after and every batch size.                                  *)
(*                                                                         *)
(* The inductive invariant is the conjunction of the three invariants: a    *)
(* sweep keeps the count of the values only because LREM finds every        *)
(* selected value, which is what ProcessingMatches says; and _SETTLE keeps  *)
(* ProcessingMatches only because its gate compares the value as well.      *)
(***************************************************************************)
EXTENDS RedisLegacy, TLAPS, FiniteSetTheorems, SequenceTheorems

IInv == TypeOK /\ ProcessingMatches /\ Conservation

-----------------------------------------------------------------------------
(* Lemmas about the sets the counts range over.                                 *)

(* The tokens holding a value, and all the reserved ones, are finitely many.    *)
LEMMA HoldingFinite ==
  ASSUME NEW r
  PROVE  /\ IsFiniteSet(Holding(r)) /\ Cardinality(Holding(r)) \in Nat
         /\ IsFiniteSet(Reserved) /\ Cardinality(Reserved) \in Nat
  <1>1. Holding(r) \in SUBSET Tokens /\ Reserved \in SUBSET Tokens
    BY DEF Holding, Reserved
  <1>2. IsFiniteSet(Holding(r)) /\ IsFiniteSet(Reserved)
    BY <1>1, FS_Subset, RedisAssumption
  <1> QED BY <1>2, FS_CardinalityType

(* A new member adds one token to the holders of its value and to no others.    *)
LEMMA MemberAdded ==
  ASSUME TypeOK, NEW t \in Tokens, t \notin Reserved, NEW r \in Raws,
         member' = [member EXCEPT ![t] = r]
  PROVE  /\ Cardinality(Reserved') = Cardinality(Reserved) + 1
         /\ Cardinality(Holding(r)') = Cardinality(Holding(r)) + 1
         /\ \A s \in Raws \ {r} : Holding(s)' = Holding(s)
  <1>1. r # None /\ member[t] = None
    BY RedisAssumption DEF Reserved
  <1>2. Reserved' = Reserved \cup {t}
    BY <1>1 DEF TypeOK, Reserved
  <1>3. Holding(r)' = Holding(r) \cup {t} /\ t \notin Holding(r)
    BY <1>1 DEF TypeOK, Holding
  <1>4. \A s \in Raws \ {r} : Holding(s)' = Holding(s)
    BY <1>1, RedisAssumption DEF TypeOK, Holding
  <1>5. Cardinality(Reserved') = Cardinality(Reserved) + 1
    BY <1>2, HoldingFinite, FS_AddElement
  <1>6. Cardinality(Holding(r)') = Cardinality(Holding(r)) + 1
    BY <1>3, HoldingFinite, FS_AddElement
  <1> QED BY <1>4, <1>5, <1>6

(* A removed member takes one token from the holders of its value.              *)
LEMMA MemberRemoved ==
  ASSUME TypeOK, NEW t \in Tokens, NEW r \in Raws, member[t] = r,
         member' = [member EXCEPT ![t] = None]
  PROVE  /\ Cardinality(Reserved') = Cardinality(Reserved) - 1
         /\ Cardinality(Holding(r)') = Cardinality(Holding(r)) - 1
         /\ \A s \in Raws \ {r} : Holding(s)' = Holding(s)
  <1>1. r # None
    BY RedisAssumption
  <1>2. Reserved' = Reserved \ {t} /\ t \in Reserved
    BY <1>1 DEF TypeOK, Reserved
  <1>3. Holding(r)' = Holding(r) \ {t} /\ t \in Holding(r)
    BY <1>1 DEF TypeOK, Holding
  <1>4. \A s \in Raws \ {r} : Holding(s)' = Holding(s)
    BY <1>1, RedisAssumption DEF TypeOK, Holding
  <1>5. Cardinality(Reserved') = Cardinality(Reserved) - 1
    BY <1>2, HoldingFinite, FS_RemoveElement
  <1>6. Cardinality(Holding(r)') = Cardinality(Holding(r)) - 1
    BY <1>3, HoldingFinite, FS_RemoveElement
  <1> QED BY <1>4, <1>5, <1>6

(* LREM finds the value of every member a sweep selects.                        *)
LEMMA SweepFindsAll ==
  ASSUME TypeOK, ProcessingMatches,
         NEW S \in SUBSET Expired, NEW M \in SUBSET S, FoundIn(S, M)
  PROVE  M = S
  <1> SUFFICES ASSUME NEW t \in S PROVE t \in M
    OBVIOUS
  <1> DEFINE r == member[t]
  <1>1. t \in Tokens /\ r \in Raws
    BY DEF Expired, Reserved, TypeOK
  <1>2. /\ IsFiniteSet(S \cap Holding(r))
        /\ Count(S, r) \in Nat /\ Count(S, r) <= Cardinality(Holding(r))
    <2>1. S \cap Holding(r) \in SUBSET Holding(r)
      OBVIOUS
    <2> QED BY <2>1, HoldingFinite, FS_Subset, FS_CardinalityType DEF Count
  <1>3. Count(M, r) = Count(S, r)
    BY <1>1, <1>2, HoldingFinite DEF FoundIn, Least, ProcessingMatches
  <1>4. M \cap Holding(r) \in SUBSET (S \cap Holding(r))
    OBVIOUS
  <1>5. M \cap Holding(r) = S \cap Holding(r)
    BY <1>2, <1>3, <1>4, FS_Subset DEF Count
  <1> QED BY <1>1, <1>5 DEF Holding

(* The values of the moved members, in the order they are pushed.               *)
LEMMA PushedValues ==
  ASSUME TypeOK, NEW M \in SUBSET Reserved, NEW order \in Bijection(1 .. Cardinality(M), M)
  PROVE  /\ Cardinality(M) \in Nat
         /\ [i \in 1 .. Cardinality(M) |-> member[order[i]]] \in Seq(Raws)
         /\ Len([i \in 1 .. Cardinality(M) |-> member[order[i]]]) = Cardinality(M)
         /\ order \in [1 .. Cardinality(M) -> M]
  <1>1. Cardinality(M) \in Nat
    BY HoldingFinite, FS_Subset, FS_CardinalityType
  <1>2. order \in [1 .. Cardinality(M) -> M]
    BY DEF Bijection, Injection
  <1>3. \A i \in 1 .. Cardinality(M) : member[order[i]] \in Raws
    BY <1>2 DEF Reserved, TypeOK
  <1> QED BY <1>1, <1>2, <1>3

(* What a sweep does when the invariant holds: it ends the selected             *)
(* reservations and pushes exactly their values.                                *)
LEMMA SweepStep ==
  ASSUME TypeOK, ProcessingMatches, NEW w \in Workers, Sweep(w)
  PROVE  \E S \in SUBSET Expired : \E order \in Bijection(1 .. Cardinality(S), S) :
           /\ processing' = [r \in Raws |-> processing[r] - Count(S, r)]
           /\ ready' = ready \o [i \in 1 .. Cardinality(S) |-> member[order[i]]]
           /\ member' = Dropped(S)
  <1>1. PICK S \in Selections : \E M \in SUBSET S :
             \E order \in Bijection(1 .. Cardinality(M), M) :
               /\ FoundIn(S, M)
               /\ processing' = [r \in Raws |-> processing[r] - Count(M, r)]
               /\ ready' = ready \o [i \in 1 .. Cardinality(M) |-> member[order[i]]]
               /\ member' = Dropped(S)
    BY DEF Sweep
  <1>2. S \in SUBSET Expired
    BY DEF Selections
  <1>3. \A M \in SUBSET S : FoundIn(S, M) => M = S
    BY <1>2, SweepFindsAll
  <1> QED BY <1>1, <1>2, <1>3

(* Dropping members leaves the other holders as they are.                       *)
LEMMA MembersDropped ==
  ASSUME TypeOK, NEW S \in SUBSET Reserved, member' = Dropped(S)
  PROVE  /\ Cardinality(Reserved') = Cardinality(Reserved) - Cardinality(S)
         /\ \A r \in Raws : /\ Cardinality(Holding(r)') = Cardinality(Holding(r)) - Count(S, r)
                            /\ Cardinality(Holding(r)') \in Nat
  <1>1. Reserved' = Reserved \ S
    BY DEF Reserved, Dropped, TypeOK
  <1>2. Cardinality(Reserved') = Cardinality(Reserved) - Cardinality(S)
    <2>1. Reserved \cap S = S
      OBVIOUS
    <2> QED BY <1>1, <2>1, HoldingFinite, FS_Difference
  <1>3. ASSUME NEW r \in Raws
        PROVE  /\ Cardinality(Holding(r)') = Cardinality(Holding(r)) - Count(S, r)
               /\ Cardinality(Holding(r)') \in Nat
    <2>1. r # None
      BY RedisAssumption
    <2>2. Holding(r)' = Holding(r) \ S
      BY <2>1 DEF Holding, Dropped, TypeOK, Reserved
    <2>3. Holding(r) \cap S = S \cap Holding(r)
      OBVIOUS
    <2>4. /\ IsFiniteSet(Holding(r) \ S)
          /\ Cardinality(Holding(r) \ S) = Cardinality(Holding(r)) - Cardinality(Holding(r) \cap S)
      BY HoldingFinite, FS_Difference
    <2>5. Cardinality(Holding(r) \ S) \in Nat
      BY <2>4, FS_CardinalityType
    <2> QED BY <2>2, <2>3, <2>4, <2>5 DEF Count
  <1> QED BY <1>2, <1>3

-----------------------------------------------------------------------------
(* The invariant is inductive.                                                  *)

(* The empty queue satisfies the invariant.                                     *)
LEMMA InitInv == Init => IInv
  <1> SUFFICES ASSUME Init PROVE IInv
    OBVIOUS
  <1>1. TypeOK
    BY RedisAssumption DEF Init, TypeOK, Busy
  <1>2. Reserved = {} /\ \A r \in Raws : Holding(r) = {}
    BY RedisAssumption DEF Init, Reserved, Holding
  <1>3. ProcessingMatches
    BY <1>2, FS_EmptySet DEF Init, ProcessingMatches
  <1>4. Conservation
    BY <1>2, FS_EmptySet DEF Init, Conservation
  <1> QED BY <1>1, <1>3, <1>4 DEF IInv

(* A sweep moves each value it selects from :processing to the ready list.      *)
LEMMA SweepInv ==
  ASSUME IInv, NEW w \in Workers, Sweep(w)
  PROVE  IInv'
  <1> USE DEF IInv
  <1>0. PICK S \in SUBSET Expired : \E order \in Bijection(1 .. Cardinality(S), S) :
           /\ processing' = [r \in Raws |-> processing[r] - Count(S, r)]
           /\ ready' = ready \o [i \in 1 .. Cardinality(S) |-> member[order[i]]]
           /\ member' = Dropped(S)
    BY SweepStep
  <1>1. PICK order \in Bijection(1 .. Cardinality(S), S) :
           /\ processing' = [r \in Raws |-> processing[r] - Count(S, r)]
           /\ ready' = ready \o [i \in 1 .. Cardinality(S) |-> member[order[i]]]
           /\ member' = Dropped(S)
    BY <1>0
  <1>2. S \in SUBSET Reserved
    BY DEF Expired
  <1>3. /\ Cardinality(S) \in Nat
        /\ [i \in 1 .. Cardinality(S) |-> member[order[i]]] \in Seq(Raws)
        /\ Len([i \in 1 .. Cardinality(S) |-> member[order[i]]]) = Cardinality(S)
    BY <1>2, PushedValues
  <1>4. ready' \in Seq(Raws) /\ Len(ready') = Len(ready) + Cardinality(S)
    BY <1>1, <1>3, ConcatProperties DEF TypeOK
  <1>5. /\ Cardinality(Reserved') = Cardinality(Reserved) - Cardinality(S)
        /\ \A r \in Raws : /\ Cardinality(Holding(r)') = Cardinality(Holding(r)) - Count(S, r)
                           /\ Cardinality(Holding(r)') \in Nat
    BY <1>1, <1>2, MembersDropped
  <1>6. ProcessingMatches'
    BY <1>1, <1>5 DEF ProcessingMatches, Holding
  <1>7. Conservation'
    <2>1. UNCHANGED <<acked, dlq, published>>
      BY DEF Sweep
    <2>2. Len(ready) \in Nat /\ Len(dlq) \in Nat /\ acked \in Nat
      BY LenProperties DEF TypeOK
    <2> QED BY <1>3, <1>4, <1>5, <2>1, <2>2, HoldingFinite DEF Conservation
  <1>8. TypeOK'
    <2>1. processing' \in [Raws -> Nat]
      BY <1>1, <1>5 DEF ProcessingMatches
    <2>2. member' \in [Tokens -> Raws \cup {None}]
      BY <1>1 DEF Dropped, TypeOK
    <2> QED BY <1>4, <2>1, <2>2 DEF Sweep, TypeOK, Busy
  <1> QED BY <1>6, <1>7, <1>8

(* A reservation adds one :processing entry and one member of its value.        *)
LEMMA ReserveInv ==
  ASSUME IInv, NEW w \in Workers, Reserve(w)
  PROVE  IInv'
  <1> USE DEF IInv
  <1>1. CASE ready = <<>>
    <2>1. UNCHANGED <<ready, processing, member, left, dlq, acked, published, handle, body>>
      BY <1>1 DEF Reserve
    <2>2. TypeOK'
      BY <2>1 DEF Reserve, TypeOK, Busy
    <2>3. ProcessingMatches' /\ Conservation'
      BY <2>1 DEF ProcessingMatches, Conservation, Holding, Reserved
    <2> QED BY <2>2, <2>3
  <1>2. CASE ready # <<>>
    <2>0. PICK r \in Raws : r = Head(ready)
      BY <1>2, HeadTailProperties DEF TypeOK
    <2>1. PICK t \in Tokens :
            /\ Fresh(t)
            /\ Move(t)
            /\ member' = [member EXCEPT ![t] = r]
            /\ left' = [left EXCEPT ![t] = RetryAfter[w]]
            /\ handle' = [handle EXCEPT ![w] = t]
      BY <1>2, <2>0 DEF Reserve
    <2>2. /\ body' = [body EXCEPT ![w] = r]
          /\ ready' = Tail(ready)
          /\ swept' = [swept EXCEPT ![w] = FALSE]
          /\ UNCHANGED <<dlq, acked, published>>
      BY <1>2, <2>0 DEF Reserve
    <2>3. ready' \in Seq(Raws) /\ Len(ready') = Len(ready) - 1
      BY <1>2, <2>2, HeadTailProperties DEF TypeOK
    <2>4. /\ Cardinality(Reserved') = Cardinality(Reserved) + 1
          /\ Cardinality(Holding(r)') = Cardinality(Holding(r)) + 1
          /\ \A s \in Raws \ {r} : Holding(s)' = Holding(s)
      BY <2>1, MemberAdded DEF Fresh
    <2>5. processing' = [processing EXCEPT ![r] = @ + 1]
      BY <2>0, <2>1 DEF Move
    <2>6. TypeOK'
      <3>1. processing' \in [Raws -> Nat] /\ member' \in [Tokens -> Raws \cup {None}]
        BY <2>1, <2>3, <2>5 DEF TypeOK
      <3>2. left' \in [Tokens -> Nat \cup {Never}]
        BY <2>1, RedisAssumption DEF TypeOK
      <3>3. \A v \in Workers : Busy(v)' <=> body'[v] # None
        BY <2>1, <2>2, <2>3, RedisAssumption DEF TypeOK, Busy
      <3> QED BY <2>1, <2>2, <2>3, <3>1, <3>2, <3>3 DEF TypeOK
    <2>7. ProcessingMatches'
      <3>1. \A s \in Raws : processing'[s] = Cardinality(Holding(s)')
        BY <2>4, <2>5, HoldingFinite DEF ProcessingMatches, TypeOK
      <3> QED BY <3>1 DEF ProcessingMatches
    <2>8. Conservation'
      <3>1. Len(ready) \in Nat /\ Len(dlq) \in Nat /\ acked \in Nat
        BY LenProperties DEF TypeOK
      <3> QED BY <2>2, <2>3, <2>4, <3>1, HoldingFinite DEF Conservation
    <2> QED BY <2>6, <2>7, <2>8
  <1> QED BY <1>1, <1>2

(* What every settlement has in common: a standing reservation is removed from  *)
(* both structures, one that no longer stands leaves them alone.                *)
LEMMA RemovalStep ==
  ASSUME IInv, NEW w \in Workers, Busy(w), Stands(w), Removal(w)
  PROVE  /\ handle[w] \in Tokens /\ body[w] \in Raws
         /\ ProcessingMatches'
         /\ processing' \in [Raws -> Nat]
         /\ member' \in [Tokens -> Raws \cup {None}]
         /\ Cardinality(Reserved') = Cardinality(Reserved) - 1
  <1> USE DEF IInv
  <1>1. handle[w] \in Tokens /\ body[w] \in Raws
    BY DEF TypeOK, Busy
  <1>a. PICK t \in Tokens : t = handle[w]
    BY <1>1
  <1>b. PICK r \in Raws : r = body[w]
    BY <1>1
  <1>2. /\ Cardinality(Reserved') = Cardinality(Reserved) - 1
        /\ Cardinality(Holding(r)') = Cardinality(Holding(r)) - 1
        /\ \A s \in Raws \ {r} : Holding(s)' = Holding(s)
    BY <1>a, <1>b, MemberRemoved DEF Stands, Removal
  <1>3. t \in Holding(r)
    BY <1>a, <1>b DEF Stands, Holding
  <1>4. Cardinality(Holding(r)) > 0
    BY <1>3, HoldingFinite, FS_EmptySet
  <1>5. processing[r] - 1 \in Nat
    BY <1>4, HoldingFinite DEF ProcessingMatches
  <1>6. processing' \in [Raws -> Nat]
    BY <1>b, <1>5 DEF Removal, TypeOK
  <1>7. member' \in [Tokens -> Raws \cup {None}]
    BY <1>1 DEF Removal, TypeOK
  <1>8. ProcessingMatches'
    <2>1. \A s \in Raws : processing'[s] = Cardinality(Holding(s)')
      BY <1>b, <1>2, HoldingFinite DEF ProcessingMatches, Removal, TypeOK
    <2> QED BY <2>1 DEF ProcessingMatches
  <1> QED BY <1>1, <1>2, <1>6, <1>7, <1>8

(* Whether or not the answer is lost, a worker has a token and a body or none.  *)
LEMMA AnsweredType ==
  ASSUME TypeOK, NEW w \in Workers, Answered(w)
  PROVE  /\ handle' \in [Workers -> Tokens \cup {None}]
         /\ body' \in [Workers -> Raws \cup {None}]
         /\ \A v \in Workers : Busy(v)' <=> body'[v] # None
  BY RedisAssumption DEF Answered, TypeOK, Busy

(* Every settlement removes the member and the entry together, or neither.      *)
LEMMA SettleInv ==
  ASSUME IInv, NEW w \in Workers, Settle(w)
  PROVE  IInv'
  <1> USE DEF IInv
  <1>0. Len(ready) \in Nat /\ Len(dlq) \in Nat /\ acked \in Nat
    BY LenProperties DEF TypeOK
  <1>1. /\ Busy(w) /\ Answered(w)
        /\ UNCHANGED <<left, published, swept>>
    BY DEF Settle, Ack, Redeliver, DeadLetter
  <1>2. CASE ~Stands(w)
    <2>1. UNCHANGED <<ready, processing, member, left, dlq, acked, published, swept>>
      BY <1>1, <1>2 DEF Settle, Ack, Redeliver, DeadLetter
    <2>2. TypeOK'
      BY <1>1, <2>1, AnsweredType DEF TypeOK
    <2>3. ProcessingMatches' /\ Conservation'
      BY <2>1 DEF ProcessingMatches, Conservation, Holding, Reserved
    <2> QED BY <2>2, <2>3
  <1>3. CASE Stands(w)
    <2>1. Removal(w)
      BY <1>3 DEF Settle, Ack, Redeliver, DeadLetter
    <2>2. /\ handle[w] \in Tokens /\ body[w] \in Raws
          /\ ProcessingMatches'
          /\ processing' \in [Raws -> Nat]
          /\ member' \in [Tokens -> Raws \cup {None}]
          /\ Cardinality(Reserved') = Cardinality(Reserved) - 1
      BY <1>1, <1>3, <2>1, RemovalStep
    <2>3. \/ acked' = acked + 1 /\ UNCHANGED <<ready, dlq>>
          \/ /\ \E r \in Again(body[w]) : ready' = Append(ready, r)
             /\ UNCHANGED <<acked, dlq>>
          \/ dlq' = Append(dlq, body[w]) /\ UNCHANGED <<acked, ready>>
      BY <1>3 DEF Settle, Ack, Redeliver, DeadLetter
    <2>4. Again(body[w]) \subseteq Raws
      BY <2>2 DEF Again
    <2>5. /\ ready' \in Seq(Raws) /\ dlq' \in Seq(Raws) /\ acked' \in Nat
          /\ Len(ready') + Len(dlq') + acked' = Len(ready) + Len(dlq) + acked + 1
      <3>1. CASE acked' = acked + 1 /\ UNCHANGED <<ready, dlq>>
        BY <1>0, <3>1 DEF TypeOK
      <3>2. CASE \E r \in Again(body[w]) : ready' = Append(ready, r) /\ UNCHANGED <<acked, dlq>>
        BY <1>0, <2>4, <3>2 DEF TypeOK
      <3>3. CASE dlq' = Append(dlq, body[w]) /\ UNCHANGED <<acked, ready>>
        BY <1>0, <2>2, <3>3 DEF TypeOK
      <3> QED BY <2>3, <3>1, <3>2, <3>3
    <2>6. TypeOK'
      BY <1>1, <2>2, <2>5, AnsweredType DEF TypeOK
    <2>7. Conservation'
      <3>1. Len(ready') \in Nat /\ Len(dlq') \in Nat
        BY <2>5, LenProperties
      <3>2. /\ Cardinality(Reserved) \in Nat /\ published' = published
            /\ Cardinality(Reserved') = Cardinality(Reserved) - 1
        BY <1>1, <2>2, HoldingFinite
      <3>3. acked' \in Nat /\ Len(ready') + Len(dlq') + acked' = Len(ready) + Len(dlq) + acked + 1
        BY <2>5
      <3>4. Len(ready) + Cardinality(Reserved) + acked + Len(dlq) = published
        BY DEF Conservation
      <3>5. PICK a \in Nat, d \in Nat, c \in Nat : a = Len(ready) /\ d = Len(dlq) /\ c = acked
        BY <1>0
      <3>6. PICK b \in Nat : b = Cardinality(Reserved)
        BY <3>2
      <3>7. PICK a1 \in Nat, d1 \in Nat, c1 \in Nat : a1 = Len(ready') /\ d1 = Len(dlq') /\ c1 = acked'
        BY <3>1, <3>3
      <3>8. a1 + d1 + c1 = a + d + c + 1
        BY <3>5, <3>7, <3>3
      <3>9. a + b + c + d = published
        BY <3>5, <3>6, <3>4
      <3>10. Cardinality(Reserved') = b - 1
        BY <3>6, <3>2
      <3>11. a1 + (b - 1) + c1 + d1 = a + b + c + d
        BY <3>8
      <3>12. Len(ready') + Cardinality(Reserved') + acked' + Len(dlq') = published
        BY <3>7, <3>9, <3>10, <3>11
      <3> QED BY <3>2, <3>12 DEF Conservation
    <2> QED BY <2>2, <2>6, <2>7
  <1> QED BY <1>2, <1>3

(* Every step preserves the invariant.                                          *)
LEMMA NextInv == IInv /\ [Next]_vars => IInv'
  <1> SUFFICES ASSUME IInv, [Next]_vars PROVE IInv'
    OBVIOUS
  <1> USE DEF IInv
  <1>1. CASE \E b \in Bodies : Publish(b)
    <2>1. PICK b \in Bodies : Publish(b)
      BY <1>1
    <2>2. <<b, 0>> \in Raws
      BY RedisAssumption DEF Raws
    <2>3. ready' \in Seq(Raws) /\ Len(ready') = Len(ready) + 1 /\ Len(ready) \in Nat
      BY <2>1, <2>2, LenProperties DEF Publish, TypeOK
    <2>4. TypeOK'
      BY <2>1, <2>3, RedisAssumption DEF Publish, TypeOK, Busy, worker
    <2>5. ProcessingMatches'
      BY <2>1 DEF Publish, ProcessingMatches, Holding
    <2>6. Conservation'
      <3>1. /\ Len(dlq) \in Nat /\ acked \in Nat /\ Cardinality(Reserved) \in Nat
            /\ dlq' = dlq /\ acked' = acked /\ published' = published + 1
        BY <2>1, LenProperties, HoldingFinite DEF Publish, TypeOK
      <3>2. Reserved' = Reserved
        BY <2>1 DEF Publish, Reserved
      <3>3. Cardinality(Reserved') = Cardinality(Reserved)
        BY <3>2
      <3> QED BY <2>3, <3>1, <3>3 DEF Conservation
    <2> QED BY <2>4, <2>5, <2>6
  <1>2. CASE Tick
    <2>1. TypeOK'
      BY <1>2 DEF Tick, TypeOK, Busy, worker, Never
    <2>2. ProcessingMatches' /\ Conservation'
      BY <1>2 DEF Tick, ProcessingMatches, Conservation, Holding, Reserved
    <2> QED BY <2>1, <2>2
  <1>3. CASE \E w \in Workers : LetGo(w)
    <2>1. TypeOK'
      BY <1>3, RedisAssumption DEF LetGo, TypeOK, Busy
    <2>2. ProcessingMatches' /\ Conservation'
      BY <1>3 DEF LetGo, ProcessingMatches, Conservation, Holding, Reserved
    <2> QED BY <2>1, <2>2
  <1>4. CASE UNCHANGED vars
    <2>1. TypeOK'
      BY <1>4 DEF vars, worker, TypeOK, Busy
    <2>2. ProcessingMatches' /\ Conservation'
      BY <1>4 DEF vars, ProcessingMatches, Conservation, Holding, Reserved
    <2> QED BY <2>1, <2>2
  <1> QED BY <1>1, <1>2, <1>3, <1>4, SweepInv, ReserveInv, SettleInv DEF Next

(* The three invariants hold in every reachable state: the keys have their      *)
(* types, :processing and the deadline zset agree, and no message is lost or    *)
(* copied (_SETTLE, _SWEEP and _RESERVE_LEGACY together).                        *)
THEOREM Invariants == Spec => []IInv
  BY InitInv, NextInv, PTL DEF Spec

(* Type correctness of the transport's keys and of the workers' handles.        *)
THEOREM TypeCorrect == Spec => []TypeOK
  BY Invariants, PTL DEF IInv

(* The agreement of :processing with the deadline zset that recovery relies on. *)
THEOREM ProcessingAgrees == Spec => []ProcessingMatches
  BY Invariants, PTL DEF IInv

(* Every stored value is ready, reserved, acked or dead-lettered, once.         *)
THEOREM Conserved == Spec => []Conservation
  BY Invariants, PTL DEF IInv

-----------------------------------------------------------------------------
(* Action properties and the refinement.                                        *)

(* Nobody ends another worker's reservation before its deadline (the gate of    *)
(* _SETTLE on the token, the score range of _SWEEP).                            *)
THEOREM NobodySteals == Spec => NoTheft
  <1> DEFINE Safe == \A t \in Reserved :
        t \notin Reserved' => left[t] = 0 \/ \E w \in Workers : handle[w] = t
  <1>1. ASSUME IInv, [Next]_vars PROVE [Safe]_vars
    <2> SUFFICES ASSUME Next, NEW t \in Reserved, t \notin Reserved'
                 PROVE  left[t] = 0 \/ \E w \in Workers : handle[w] = t
      BY <1>1
    <2>0. t \in Tokens /\ member[t] # None /\ member'[t] = None /\ TypeOK
      BY <1>1 DEF Reserved, IInv
    <2>1. ~ \E b \in Bodies : Publish(b)
      BY <2>0 DEF Publish
    <2>2. ~ Tick
      BY <2>0 DEF Tick
    <2>3. ASSUME NEW w \in Workers, Sweep(w) PROVE left[t] = 0
      <3>1. PICK S \in Selections : member' = Dropped(S)
        BY <2>3 DEF Sweep
      <3>2. t \in S /\ S \subseteq Expired
        BY <2>0, <3>1 DEF Dropped, Selections
      <3> QED BY <3>2 DEF Expired
    <2>4. ASSUME NEW w \in Workers, Reserve(w) PROVE FALSE
      <3>1. ready # <<>>
        BY <2>0, <2>4 DEF Reserve
      <3>2. Head(ready) # None
        BY <2>0, <3>1, HeadTailProperties, RedisAssumption DEF TypeOK
      <3>3. PICK u \in Tokens : member' = [member EXCEPT ![u] = Head(ready)]
        BY <2>4, <3>1 DEF Reserve
      <3> QED BY <2>0, <3>2, <3>3 DEF TypeOK
    <2>5. ASSUME NEW w \in Workers, Settle(w) PROVE handle[w] = t
      BY <2>0, <2>5 DEF Settle, Ack, Redeliver, DeadLetter, Removal, TypeOK
    <2>6. ASSUME NEW w \in Workers, LetGo(w) PROVE FALSE
      BY <2>0, <2>6 DEF LetGo
    <2> QED BY <2>1, <2>2, <2>3, <2>4, <2>5, <2>6 DEF Next
  <1> QED BY <1>1, Invariants, PTL DEF Spec, NoTheft

(* The steps of the leased queue a step of the transport maps to.               *)
LEMMA SweepLapses ==
  ASSUME IInv, NEW w \in Workers, Sweep(w)
  PROVE  Abs!Next
  <1>1. PICK S \in SUBSET Expired : \E order \in Bijection(1 .. Cardinality(S), S) :
           /\ processing' = [r \in Raws |-> processing[r] - Count(S, r)]
           /\ ready' = ready \o [i \in 1 .. Cardinality(S) |-> member[order[i]]]
           /\ member' = Dropped(S)
    BY SweepStep DEF IInv
  <1>2. PICK order \in Bijection(1 .. Cardinality(S), S) :
           /\ ready' = ready \o [i \in 1 .. Cardinality(S) |-> member[order[i]]]
           /\ member' = Dropped(S)
    BY <1>1
  <1>3. S \in SUBSET Reserved /\ S \in SUBSET Tokens
    BY DEF Expired, Reserved
  <1>4. /\ Cardinality(S) \in Nat /\ Cardinality(Tokens) \in Nat
        /\ Cardinality(S) <= Cardinality(Tokens)
    BY <1>3, FS_Subset, FS_CardinalityType, RedisAssumption
  <1>5. /\ order \in [1 .. Cardinality(S) -> S]
        /\ \A i, j \in 1 .. Cardinality(S) : order[i] = order[j] => i = j
        /\ \A t \in S : \E i \in 1 .. Cardinality(S) : order[i] = t
    BY DEF Bijection, Injection, Surjection, IsInjective
  <1>6. order \in [1 .. Cardinality(S) -> Tokens]
    BY <1>3, <1>5
  <1>7. order \in Abs!Orders
    <2>1. Cardinality(S) \in 0 .. Cardinality(Tokens)
      BY <1>4
    <2> QED BY <1>6, <2>1 DEF Abs!Orders
  <1>8. DOMAIN order = 1 .. Cardinality(S)
    BY <1>5
  <1>9. \A i \in DOMAIN order : Abs!Standing(order[i])
    BY <1>3, <1>5, <1>8 DEF Abs!Standing, Reserved
  <1>10. member' = [l \in Tokens |->
                     IF \E i \in DOMAIN order : order[i] = l THEN None ELSE member[l]]
    BY <1>2, <1>5, <1>8 DEF Dropped
  <1>11. Abs!Lapse(order)
    BY <1>2, <1>5, <1>8, <1>9, <1>10 DEF Abs!Lapse, Sweep
  <1> QED BY <1>7, <1>11 DEF Abs!Next

(* A reservation is a lease of the abstract queue, an empty pop a stutter.      *)
LEMMA ReserveLeases ==
  ASSUME IInv, NEW w \in Workers, Reserve(w)
  PROVE  [Abs!Next]_(Abs!vars)
  <1>1. CASE ready = <<>>
    BY <1>1 DEF Reserve, Abs!vars
  <1>2. CASE ready # <<>>
    <2>1. PICK t \in Tokens : Fresh(t) /\ member' = [member EXCEPT ![t] = Head(ready)]
      BY <1>2 DEF Reserve
    <2>2. ready' = Tail(ready) /\ UNCHANGED <<dlq, acked>>
      BY <1>2 DEF Reserve
    <2>3. ~Abs!Standing(t)
      BY <2>1 DEF Fresh, Reserved, Abs!Standing
    <2>4. Abs!Lease(t)
      BY <1>2, <2>1, <2>2, <2>3 DEF Abs!Lease
    <2> QED BY <2>4 DEF Abs!Next
  <1> QED BY <1>1, <1>2

(* An effective settlement ends the lease, a stale one is a stutter.            *)
LEMMA SettleEnds ==
  ASSUME IInv, NEW w \in Workers, Settle(w)
  PROVE  [Abs!Next]_(Abs!vars)
  <1>0. handle[w] \in Tokens /\ body[w] \in Raws
    BY DEF IInv, TypeOK, Settle, Ack, Redeliver, DeadLetter, Busy
  <1>1. CASE ~Stands(w)
    BY <1>1 DEF Settle, Ack, Redeliver, DeadLetter, Abs!vars
  <1>2. CASE Stands(w)
    <2>1. Abs!End(handle[w])
      <3>1. member[handle[w]] # None
        BY <1>0, <1>2, RedisAssumption DEF Stands
      <3> QED BY <1>2, <3>1 DEF Settle, Ack, Redeliver, DeadLetter, Removal,
                                Abs!End, Abs!Standing
    <2>2. CASE Ack(w)
      <3>1. Abs!Complete(handle[w])
        BY <1>2, <2>1, <2>2 DEF Ack, Abs!Complete
      <3> QED BY <1>0, <3>1 DEF Abs!Next
    <2>3. CASE Redeliver(w)
      <3>1. PICK r \in Raws : ready' = Append(ready, r)
        BY <1>0, <1>2, <2>3 DEF Redeliver, Again
      <3>2. Abs!Return(handle[w], r)
        BY <2>1, <2>3, <3>1 DEF Redeliver, Abs!Return
      <3> QED BY <1>0, <3>2 DEF Abs!Next
    <2>4. CASE DeadLetter(w)
      <3>1. Abs!Bury(handle[w], body[w])
        BY <1>2, <2>1, <2>4 DEF DeadLetter, Abs!Bury
      <3> QED BY <1>0, <3>1 DEF Abs!Next
    <2> QED BY <2>2, <2>3, <2>4 DEF Settle
  <1> QED BY <1>1, <1>2

(* The legacy layout implements the leased queue promised by transport.py:      *)
(* every script is one step of it or changes nothing it can see.                *)
THEOREM Refinement == Spec => IsLeasedQueue
  <1>1. Init => Abs!Init
    BY DEF Init, Abs!Init
  <1>2. ASSUME IInv, [Next]_vars PROVE [Abs!Next]_(Abs!vars)
    <2>1. CASE \E b \in Bodies : Publish(b)
      <3>1. PICK b \in Bodies : Publish(b)
        BY <2>1
      <3>2. <<b, 0>> \in Raws
        BY RedisAssumption DEF Raws
      <3>3. Abs!Put(<<b, 0>>)
        BY <3>1 DEF Publish, Abs!Put
      <3> QED BY <3>2, <3>3 DEF Abs!Next
    <2>2. CASE Tick \/ \E w \in Workers : LetGo(w)
      BY <2>2 DEF Tick, LetGo, Abs!vars
    <2>3. CASE UNCHANGED vars
      BY <2>3 DEF vars, Abs!vars
    <2> QED BY <1>2, <2>1, <2>2, <2>3, SweepLapses, ReserveLeases, SettleEnds DEF Next
  <1> QED BY <1>1, <1>2, Invariants, PTL DEF Spec, IsLeasedQueue, Abs!Spec

=============================================================================
