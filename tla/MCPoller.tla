------------------------------ MODULE MCPoller ------------------------------
(* One provider of either budget and one that no registry admits, and two  *)
(* threads for them.                                                       *)
EXTENDS Poller

MCCatalogue ==
    <<[cost |-> "Lightweight", requires_tier |-> "Basic"],
      [cost |-> "Heavy", requires_tier |-> "Both"],
      [cost |-> "Lightweight", requires_tier |-> "Full"]>>
=============================================================================
