------------------------------ MODULE MCWorker ------------------------------
(* TLC instances of Worker.                                                     *)
EXTENDS Worker

Config(by, zero, max) == [releaseBy |-> by, zeroTimeout |-> zero, maxMessages |-> max]

(* Each way to release, each kind of timeout, with and without max_messages.    *)
Varied == {Config("copy", FALSE, 0), Config("rewind", FALSE, 2), Config("redeliver", TRUE, 0)}
=============================================================================
