------------------------------- MODULE Outbox -------------------------------
(***************************************************************************)
(* The transactional outbox (outbox.py): rows committed together with the  *)
(* business data, and relays that publish pending rows and mark them.      *)
(* Between a publish and the mark of its row the relay may die, the store  *)
(* may fail, and another relay may have fetched the same row.              *)
(*                                                                         *)
(* A row is its sequence number.  The caller's transactions (external) may *)
(* commit in another order than their rows were numbered.  The store is    *)
(* the reference store: it returns pending rows oldest first and claims    *)
(* nothing.                                                                *)
(***************************************************************************)
EXTENDS Naturals, FiniteSets

CONSTANTS
  Rows,         (* numbers of the rows written                                  *)
  Poison,       (* rows the transport always rejects                            *)
  Relays,
  BatchSize,    (* batch_size                                                   *)
  MaxPasses,    (* max_passes of drain()                                        *)
  MaxTrouble    (* bound: rejected publishes of other rows, store failures and  *)
                (* crashes                                                      *)

ASSUME OutboxAssumption ==
  /\ Rows \subseteq Nat /\ IsFiniteSet(Rows) /\ Poison \subseteq Rows
  /\ IsFiniteSet(Relays)
  /\ {BatchSize, MaxPasses} \subseteq Nat \ {0} /\ MaxTrouble \in Nat

VARIABLES
  pending,      (* rows of the store that are committed and not published       *)
  published,    (* rows marked published                                        *)
  pc,           (* Relays -> "idle", "pass" (at the head of drain's loop) or    *)
                (* "flush" (inside it)                                          *)
  batch,        (* Relays -> the fetched rows still to publish (flush)          *)
  accepted,     (* Relays -> published_ids of the pass (flush)                  *)
  passes,       (* Relays -> passes of the drain so far                         *)
  trouble

local == <<pc, batch, accepted, passes>>
vars == <<pending, published, local, trouble>>

Init ==
  /\ pending = {} /\ published = {}
  /\ pc = [r \in Relays |-> "idle"]
  /\ batch = [r \in Relays |-> {}]
  /\ accepted = [r \in Relays |-> {}]
  /\ passes = [r \in Relays |-> 0]
  /\ trouble = 0

Trouble == trouble < MaxTrouble /\ trouble' = trouble + 1

(* Outbox.write() in a transaction that commits.                                *)
Write(n) ==
  /\ n \notin pending \cup published
  /\ pending' = pending \cup {n}
  /\ UNCHANGED <<published, local, trouble>>

-----------------------------------------------------------------------------
(* Definitions named Mut... are the mutants of the definition that follows them: *)
(* bugs the properties must find.  No specification uses them.                  *)

(* fetch_unpublished(): the oldest rows, at most BatchSize of them.             *)
FetchUnpublished == {n \in pending : Cardinality({k \in pending : k < n}) < BatchSize}

(* Where drain() goes on: flush(), the first step of the next pass, or its end. *)
Leave(r, place) ==
  /\ pc' = [pc EXCEPT ![r] = place]
  /\ batch' = [batch EXCEPT ![r] = {}]
  /\ accepted' = [accepted EXCEPT ![r] = {}]

StartDrain(r) ==
  /\ pc[r] = "idle"
  /\ pc' = [pc EXCEPT ![r] = "pass"]
  /\ passes' = [passes EXCEPT ![r] = 0]
  /\ UNCHANGED <<pending, published, batch, accepted, trouble>>

Fetch(r) ==
  /\ pc[r] = "pass"
  /\ passes' = [passes EXCEPT ![r] = @ + 1]
  /\ pc' = [pc EXCEPT ![r] = "flush"]
  /\ batch' = [batch EXCEPT ![r] = FetchUnpublished]
  /\ UNCHANGED <<pending, published, accepted, trouble>>

(* The rows of a batch are published oldest first.                              *)
Current(r) == CHOOSE n \in batch[r] : \A k \in batch[r] : n <= k

Accept(r) ==
  /\ pc[r] = "flush" /\ batch[r] # {}
  /\ Current(r) \notin Poison
  /\ accepted' = [accepted EXCEPT ![r] = @ \cup {Current(r)}]
  /\ batch' = [batch EXCEPT ![r] = @ \ {Current(r)}]
  /\ UNCHANGED <<pending, published, pc, passes, trouble>>

(* The transport raises: the row is marked failed, stays pending, and the rest  *)
(* of the batch goes on.                                                        *)
MutAfterReject(r) == {}
AfterReject(r) == batch[r] \ {Current(r)}

Reject(r) ==
  /\ pc[r] = "flush" /\ batch[r] # {}
  /\ IF Current(r) \in Poison THEN UNCHANGED trouble ELSE Trouble
  /\ batch' = [batch EXCEPT ![r] = AfterReject(r)]
  /\ UNCHANGED <<pending, published, pc, accepted, passes>>

(* The store fails in mark_failed() or mark_published(), or the process dies:   *)
(* what was accepted in this pass stays pending.                                *)
Abort(r) ==
  /\ pc[r] = "flush"
  /\ Trouble
  /\ Leave(r, "idle")
  /\ UNCHANGED <<pending, published, passes>>

(* The end of flush(), and drain()'s decision to go on.                         *)
MutMarked(r) == accepted[r] \cup FetchUnpublished
Marked(r) == accepted[r]

MarkPublished(r) ==
  /\ pc[r] = "flush" /\ batch[r] = {}
  /\ published' = published \cup Marked(r)
  /\ pending' = pending \ Marked(r)
  /\ Leave(r, IF accepted[r] # {} /\ passes[r] < MaxPasses THEN "pass" ELSE "idle")
  /\ UNCHANGED <<passes, trouble>>

-----------------------------------------------------------------------------
Flush(r) == Fetch(r) \/ Accept(r) \/ Reject(r) \/ MarkPublished(r)

Next ==
  \/ \E n \in Rows : Write(n)
  \/ \E r \in Relays : StartDrain(r) \/ Flush(r) \/ Abort(r)

Spec == Init /\ [][Next]_vars

=============================================================================
