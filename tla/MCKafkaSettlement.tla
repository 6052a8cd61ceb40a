------------------------- MODULE MCKafkaSettlement -------------------------
(* Two tiers.  m1 is a record of this library (0 and 0), of a producer without *)
(* the header or with one ahead of the body, a gated record, poison without     *)
(* attempts or poison whose body claims more than its header; m2 is the short-  *)
(* lived record before or behind it in the partition.                           *)
EXTENDS KafkaSettlement

MCTierMs == <<1, 3>>
MCDelays == {0, 2, 4}
Content(class, header, body) == [class |-> class, header |-> header, body |-> body]
CONSTANTS m1, m2
MCAny == {Content("ok", 0, 0), Content("ok", NoHeader, 1), Content("ok", 2, 0),
            Content("gated", 0, 0), Content("poison", NoHeader, 0), Content("poison", 0, 1)}
MCFresh == [m \in Messages |-> IF m = m1 THEN MCAny ELSE {Content("gated", 0, 0)}]
MCConfigs == {[deadLetter |-> TRUE, delete |-> FALSE], [deadLetter |-> FALSE, delete |-> FALSE],
              [deadLetter |-> TRUE, delete |-> TRUE]}

=============================================================================
