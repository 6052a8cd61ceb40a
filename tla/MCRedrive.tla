----------------------------- MODULE MCRedrive -----------------------------
(* TLC instances of Redrive: one message of any class beside a plain one.        *)
EXTENDS Redrive

CONSTANTS m1, m2

(* Where the class makes a difference: only Pulsar reads the job property, and   *)
(* RabbitMQ has no gate.                                                         *)
Differs(c) == /\ c.class[m1] \in {"foreign", "routed"} => c.kind = "pulsar"
              /\ c.class[m1] \in {"gated", "newer"} => c.kind # "amqp"
OneOfEach == {c \in Config : c.class[m2] = "plain" /\ Differs(c)}
ArtemisConfigs == {c \in OneOfEach : c.kind = "artemis" /\ c.dlqOn}
=============================================================================
