--------------------------- MODULE FieldProtection ---------------------------
(***************************************************************************)
(* Field encryption around the codec (gdpr.py) and what it meets in the     *)
(* runtime (app.py): a producer seals the marked leaves of its data in      *)
(* place and publishes it; a handler opens them in place, in the data       *)
(* dispatch() hands it; a failed handler makes the runtime encode the       *)
(* envelope it holds once more.                                            *)
(*                                                                         *)
(* A JSON document is a function from the addresses of its values to what  *)
(* stands there.  An address is the sequence of steps from the root:        *)
(* <<name, 0>> to a member of an object, <<"[]", i>> to an element of an     *)
(* array.  There stands <<"object">>, <<"array">>, <<"string", s>>,          *)
(* <<"number", n>> or a sealed leaf <<"cipher", sub>>, a string too, where   *)
(* sub is the document that was at this address and below it.  A path is    *)
(* an address without the indices.  Names are not empty and hold neither    *)
(* "." nor "[]".                                                            *)
(***************************************************************************)
EXTENDS Naturals, SequencesExt

CONSTANTS
  Cases,        (* pairs of what a producer may publish: the paths its schema     *)
                (* marks and the data                                            *)
  MaxAttempts,
  MaxFaults     (* bound: cipher failures, raising handlers and lost deliveries  *)

Is(kind, value) == value[1] = kind
IsString(value) == Is("string", value) \/ Is("cipher", value)

IsDocument(doc) ==
  /\ doc \in [DOMAIN doc -> Range(doc)]
  /\ <<>> \in DOMAIN doc /\ DOMAIN doc \subseteq Seq(STRING \X Nat)
  /\ \A at \in DOMAIN doc \ {<<>>} :
       /\ Front(at) \in DOMAIN doc
       /\ IF Last(at)[1] = "[]" THEN Is("array", doc[Front(at)])
          ELSE Last(at)[2] = 0 /\ Is("object", doc[Front(at)])

ASSUME ProtectionAssumption ==
  /\ MaxAttempts \in Nat \ {0} /\ MaxFaults \in Nat
  /\ \A c \in DOMAIN Cases :
       /\ Cases[c].paths \subseteq Seq(STRING)
       /\ IsDocument(Cases[c].data)
       /\ \A at \in DOMAIN Cases[c].data : ~Is("cipher", Cases[c].data[at])

VARIABLES
  case,      (* the published case; never changes                                *)
  takes,     (* what the handler opens: its "data" or the "envelope"'s           *)
  stage,
  todo,      (* sensitive paths the walk has not reached                         *)
  path,      (* the path it is at                                                *)
  rest,      (* what is left of it on the way down                               *)
  places,    (* the values it has led to; then its leaves not yet transformed    *)
  owned,     (* the producer's data; then the data of the runtime's envelope     *)
  view,      (* what the handler finds in the data it opens                      *)
  private,   (* top-level entries of the handler's own dict that it has replaced *)
  wire,      (* data of the body at the broker, or NoBody                        *)
  attempts,  (* of that body                                                     *)
  faults

descent == <<path, rest, places>>
walk == <<todo, descent>>
handled == <<view, private>>
fieldVars == <<case, takes, stage, walk, owned, handled, wire, attempts, faults>>

NoBody    == <<>>      (* no document: it has no root                            *)
Paths     == Cases[case].paths
Cleartext == Cases[case].data
Fault     == faults < MaxFaults /\ faults' = faults + 1

-----------------------------------------------------------------------------
(* Documents                                                                    *)

Under(doc, at) == Restrict(doc, {a \in DOMAIN doc : IsPrefix(at, a)})
Replaced(doc, at, sub) ==
  [a \in {b \in DOMAIN doc : ~IsPrefix(at, b)} \cup DOMAIN sub |->
     IF a \in DOMAIN sub THEN sub[a] ELSE doc[a]]
Encrypted(doc, at) == [a \in {at} |-> <<"cipher", Under(doc, at)>>]

(* The path of an address.                                                       *)
Spelt(at) == [i \in DOMAIN at |-> at[i][1]]

-----------------------------------------------------------------------------
(* The walk over the sensitive paths, in protect() and in unprotect()            *)

FieldInit ==
  /\ case \in DOMAIN Cases /\ takes \in {"data", "envelope"}
  /\ stage = "protect" /\ todo = Paths /\ path = <<>> /\ rest = <<>> /\ places = {}
  /\ owned = Cleartext /\ view = NoBody /\ private = {} /\ wire = NoBody
  /\ attempts = 0 /\ faults = 0

Data == IF stage = "protect" THEN owned ELSE view

(* The paths come sorted: a path before those it is a prefix of.  Paths beside    *)
(* each other lead to different leaves, and their order is left open.            *)
MutFirst(next) == \A p \in todo : ~IsStrictPrefix(next, p)
First(next) == \A p \in todo : ~IsStrictPrefix(p, next)

(* _walk() goes to the next path; a mark on the root has no segments.            *)
NextPath ==
  /\ stage \in {"protect", "unprotect"} /\ rest = <<>> /\ places = {}
  /\ \E next \in todo :
       /\ First(next) /\ todo' = todo \ {next}
       /\ path' = next /\ rest' = next
       /\ places' = IF next = <<>> THEN {} ELSE {<<>>}
  /\ UNCHANGED <<case, takes, stage, owned, handled, wire, attempts, faults>>

(* The segment at the head of the rest: a key, and "[]" if an array is expected   *)
(* there.  _parse_path() takes one "[]" off a part; what is left of them stays in *)
(* the key, which then is in no data, and so is the key of a part of "[]" alone.  *)
IsArray == Len(rest) > 1 /\ rest[2] = "[]"
KeyIsName == Head(rest) # "[]" /\ ~(IsArray /\ Len(rest) > 2 /\ rest[3] = "[]")

Children(doc, node) ==
  {at \in {Append(node, <<Head(rest), 0>>)} : Is("object", doc[node]) /\ at \in DOMAIN doc}
Elements(doc, child) ==
  {at \in DOMAIN doc : Is("array", doc[child]) /\ Len(at) = Len(child) + 1 /\ IsPrefix(child, at)}

(* _apply_at_path() takes one segment into the data as it is now; where there is  *)
(* something else than the path expects, it ends.  All values on one level go     *)
(* together: they are beside each other.                                         *)
Descend ==
  /\ stage \in {"protect", "unprotect"} /\ rest # <<>>
  /\ LET children == UNION {Children(Data, node) : node \in places}
     IN  \/ ~KeyIsName /\ places' = {} /\ rest' = <<>>
         \/ KeyIsName /\ ~IsArray /\ places' = children /\ rest' = Tail(rest)
         \/ /\ KeyIsName /\ IsArray
            /\ places' = UNION {Elements(Data, child) : child \in children}
            /\ rest' = Tail(Tail(rest))
  /\ UNCHANGED <<case, takes, stage, todo, path, owned, handled, wire, attempts, faults>>

AtLeaves  == rest = <<>>
WalkedAll == todo = {} /\ AtLeaves /\ places = {}

-----------------------------------------------------------------------------
(* The producer                                                                 *)

EncryptLeaf ==
  /\ stage = "protect" /\ AtLeaves
  /\ \E at \in places :
       owned' = Replaced(owned, at, Encrypted(owned, at)) /\ places' = places \ {at}
  /\ UNCHANGED <<case, takes, stage, todo, path, rest, handled, wire, attempts, faults>>

(* The error of encrypt() leaves the data half sealed: it is not published.      *)
EncryptFails ==
  /\ stage = "protect" /\ AtLeaves /\ places # {} /\ Fault
  /\ stage' = "abandoned" /\ places' = {}
  /\ UNCHANGED <<case, takes, todo, path, rest, owned, handled, wire, attempts>>

Publish ==
  /\ stage = "protect" /\ WalkedAll
  /\ stage' = "queued" /\ wire' = owned
  /\ UNCHANGED <<case, takes, walk, owned, handled, attempts, faults>>

-----------------------------------------------------------------------------
(* The worker: dispatch() and a handler that opens its data first               *)

Deliver ==
  /\ stage = "queued"
  /\ stage' = "unprotect" /\ owned' = wire /\ view' = wire /\ private' = {}
  /\ todo' = Paths /\ path' = <<>> /\ rest' = <<>> /\ places' = {}
  /\ UNCHANGED <<case, takes, wire, attempts, faults>>

(* dict(envelope["data"]) copies the top level only; dict(envelope) not even that.*)
MutOwnTopLevel(at) == FALSE
OwnTopLevel(at) == takes = "data" /\ Len(at) = 1

Store(at, sub) ==
  /\ view' = Replaced(view, at, sub)
  /\ \/ OwnTopLevel(at) /\ private' = private \cup {at[1]} /\ UNCHANGED owned
     \/ ~OwnTopLevel(at) /\ at[1] \in private /\ UNCHANGED <<owned, private>>
     \/ /\ ~OwnTopLevel(at) /\ at[1] \notin private
        /\ owned' = Replaced(owned, at, sub) /\ UNCHANGED private

(* A leaf that is not a string is left as it is.                                 *)
DecryptLeaf ==
  /\ stage = "unprotect" /\ AtLeaves
  /\ \E at \in places :
       /\ ~Is("string", view[at])
       /\ IF Is("cipher", view[at]) THEN Store(at, view[at][2]) ELSE UNCHANGED <<owned, handled>>
       /\ places' = places \ {at}
  /\ UNCHANGED <<case, takes, stage, todo, path, rest, wire, attempts, faults>>

(* DecryptError: a string that is no ciphertext.                                 *)
NotACiphertext ==
  /\ stage = "unprotect" /\ AtLeaves /\ \E at \in places : Is("string", view[at])
  /\ stage' = "failed"
  /\ UNCHANGED <<case, takes, walk, owned, handled, wire, attempts, faults>>

(* DecryptError: the cipher is not available.                                    *)
MutAfterDecryptFails == IF todo = {} THEN "work" ELSE "failed"
AfterDecryptFails == "failed"
DecryptFails ==
  /\ stage = "unprotect" /\ AtLeaves /\ (\E at \in places : IsString(view[at])) /\ Fault
  /\ stage' = AfterDecryptFails
  /\ UNCHANGED <<case, takes, walk, owned, handled, wire, attempts>>

Opened ==
  /\ stage = "unprotect" /\ WalkedAll
  /\ stage' = "work"
  /\ UNCHANGED <<case, takes, walk, owned, handled, wire, attempts, faults>>

HandlerDone ==
  /\ stage = "work"
  /\ stage' = "acked" /\ wire' = NoBody
  /\ UNCHANGED <<case, takes, walk, owned, handled, attempts, faults>>

HandlerFails ==
  /\ stage = "work" /\ Fault
  /\ stage' = "failed"
  /\ UNCHANGED <<case, takes, walk, owned, handled, wire, attempts>>

(* The retry, or the dead letter, encodes the envelope dispatch() still holds.   *)
Rewritten(to) ==
  /\ stage' = to /\ wire' = owned /\ attempts' = attempts + 1
  /\ UNCHANGED <<case, takes, walk, owned, handled, faults>>
WriteRetry      == stage = "failed" /\ attempts + 1 < MaxAttempts /\ Rewritten("queued")
WriteDeadLetter == stage = "failed" /\ attempts + 1 >= MaxAttempts /\ Rewritten("dead")

(* The worker dies or its reservation lapses: the broker's body is delivered.    *)
Redelivered ==
  /\ stage \in {"unprotect", "work", "failed"} /\ Fault
  /\ stage' = "queued"
  /\ UNCHANGED <<case, takes, walk, owned, handled, wire, attempts>>

FieldStep == \/ NextPath \/ Descend \/ EncryptLeaf \/ Publish
             \/ Deliver \/ DecryptLeaf \/ NotACiphertext \/ Opened
             \/ HandlerDone \/ WriteRetry \/ WriteDeadLetter
Stopped == stage \in {"abandoned", "acked", "dead"} /\ UNCHANGED fieldVars

FieldNext == FieldStep \/ EncryptFails \/ DecryptFails \/ HandlerFails \/ Redelivered \/ Stopped

(* The process goes on; ciphers and handlers need not fail.                      *)
FieldSpec == FieldInit /\ [][FieldNext]_fieldVars /\ WF_fieldVars(FieldStep)

-----------------------------------------------------------------------------
(* The leaves a path means: the values that are spelt like it, unless it leads    *)
(* through an array of arrays, or is the root's.                                 *)
Resolvable(p) == \A i \in DOMAIN p : p[i] = "[]" => i > 1 /\ p[i - 1] # "[]"
Leaves(doc, p) == {at \in DOMAIN doc : p # <<>> /\ Resolvable(p) /\ Spelt(at) = p}

(* What sealing means, by the marks alone: an outermost value among those at S   *)
(* is one ciphertext, and everything else is as it was.                         *)
Sealed(doc, S) ==
  [at \in {a \in DOMAIN doc : \A s \in S : ~IsStrictPrefix(s, a)} |->
     IF at \in S THEN <<"cipher", Under(doc, at)>> ELSE doc[at]]

(* A mark on the root has no leaf in the data.                                   *)
Marked == {at \in DOMAIN Cleartext : at # <<>> /\ Spelt(at) \in Paths}

(* No array of arrays on the way to a mark.                                      *)
Reachable == \A p \in Paths : Resolvable(p)

(* Handlers that open only entries of their own copy.                            *)
Private == takes = "data" /\ \A p \in Paths : Len(p) <= 1

(* gdpr.py _walk(): "the operation touches exactly the declared leaves": in every *)
(* document, half sealed or half opened, the way down a path ends at the values   *)
(* that are spelt like it, and at no other.                                      *)
TouchesDeclared ==
  [][rest # <<>> /\ rest' = <<>> /\ stage \in {"protect", "unprotect"}
       => places' = Leaves(Data, path)]_fieldVars

(* gdpr.py: a handler never works on "unreadable PII": whatever ciphers failed,  *)
(* deliveries were lost and retries wrote, a handler that got past unprotect()   *)
(* reads exactly the data the producer had.                                     *)
HandlerReadsOriginal == stage = "work" => view = Cleartext

(* gdpr.py protect(): "every value in data at a path the schema marked" is       *)
(* sealed in a published body and nothing else is changed; and it stays so over  *)
(* every retry and in the dead-letter queue for handlers that opened their own   *)
(* copy only.  Elements of an array of arrays are never reached (_parse_path).   *)
WireSealed ==
  wire # NoBody /\ Reachable /\ (attempts = 0 \/ Private) => wire = Sealed(Cleartext, Marked)

(* With fewer failures than attempts, a published message is handled in the end, *)
(* whatever was half opened before: each attempt opens what protect() sealed.    *)
Recovers == Private => <>(stage \in {"acked", "abandoned"})

=============================================================================
