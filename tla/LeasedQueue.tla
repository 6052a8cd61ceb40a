---------------------------- MODULE LeasedQueue ----------------------------
(***************************************************************************)
(* What a transport with reservations promises the runtime (transport.py,  *)
(* Transport, Redeliverer, DeadLetterWriter): a queue of bodies of which    *)
(* some are leased.  A lease ends once: completed, returned with a new      *)
(* body, buried in the dead-letter queue, or lapsed.  A body is never in    *)
(* two places and never in none.  How leases are stored is not its concern. *)
(***************************************************************************)
EXTENDS Naturals, Sequences

CONSTANTS
  Raws,     (* stored bodies                                                   *)
  Leases,   (* identities of leases                                            *)
  None,
  MaxLapse  (* how many leases may lapse in one step                               *)

VARIABLES
  avail,    (* the bodies that can be leased, oldest first                     *)
  leased,   (* Leases -> Raws \cup {None}: the body each standing lease holds  *)
  buried,   (* the dead-letter queue                                           *)
  finished  (* how many bodies were completed                                  *)

vars == <<avail, leased, buried, finished>>

Standing(l) == leased[l] # None

Init ==
  /\ avail = <<>> /\ buried = <<>> /\ finished = 0
  /\ leased = [l \in Leases |-> None]

Put(r) ==
  /\ avail' = Append(avail, r)
  /\ UNCHANGED <<leased, buried, finished>>

Lease(l) ==
  /\ avail # <<>> /\ ~Standing(l)
  /\ leased' = [leased EXCEPT ![l] = Head(avail)]
  /\ avail' = Tail(avail)
  /\ UNCHANGED <<buried, finished>>

End(l) == Standing(l) /\ leased' = [leased EXCEPT ![l] = None]

Complete(l) == End(l) /\ finished' = finished + 1 /\ UNCHANGED <<avail, buried>>

Return(l, r) == End(l) /\ avail' = Append(avail, r) /\ UNCHANGED <<buried, finished>>

Bury(l, r) == End(l) /\ buried' = Append(buried, r) /\ UNCHANGED <<avail, finished>>

(* Several leases lapse at once; their bodies queue up again in some order.     *)
Lapse(order) ==
  /\ \A i \in DOMAIN order : Standing(order[i])
  /\ \A i, j \in DOMAIN order : order[i] = order[j] => i = j
  /\ leased' = [l \in Leases |->
                  IF \E i \in DOMAIN order : order[i] = l THEN None ELSE leased[l]]
  /\ avail' = avail \o [i \in DOMAIN order |-> leased[order[i]]]
  /\ UNCHANGED <<buried, finished>>

Orders == UNION {[1 .. n -> Leases] : n \in 0 .. MaxLapse}

Next ==
  \/ \E r \in Raws : Put(r)
  \/ \E l \in Leases :
       \/ Lease(l) \/ Complete(l)
       \/ \E r \in Raws : Return(l, r) \/ Bury(l, r)
  \/ \E order \in Orders : Lapse(order)

Spec == Init /\ [][Next]_vars

=============================================================================
