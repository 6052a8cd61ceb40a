---------------------------- MODULE MCKafkaRetry ----------------------------
(* TLC instances of KafkaRetry.                                                 *)
EXTENDS KafkaRetry

OnTime == {0, NoStamp}
=============================================================================
