---- MODULE MCClientQueue ----
(* TLC instances of ClientQueue: the names are interchangeable. *)
EXTENDS ClientQueue, TLC

Symmetry == Permutations(Thread) \cup Permutations(Client)
====
