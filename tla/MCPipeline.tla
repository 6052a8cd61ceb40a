----------------------------- MODULE MCPipeline -----------------------------
(* TLC instances of Pipeline: relays and consumers are interchangeable.         *)
EXTENDS Pipeline, TLC

Interchangeable == Permutations(Relays) \cup Permutations(Consumers)
=============================================================================
