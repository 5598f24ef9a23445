----------------------------- MODULE MCKnowledge -----------------------------
(* Requests are interchangeable, and so are services.                     *)
EXTENDS KnowledgeBase, TLC

Interchangeable == Permutations(Requests) \union Permutations(Services)
=============================================================================
