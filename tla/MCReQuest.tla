----------------------------- MODULE MCReQuest -----------------------------
(***************************************************************************)
(* A small instance of ReQuest: one request to one queue, whose founder    *)
(* makes it too, and a colleague who has to be appointed to answer it.     *)
(***************************************************************************)
EXTENDS ReQuest, TLC

CONSTANTS alice, bob, support

MCUser == {alice, bob}

MCQueueRecipient == {[type |-> "queue", id |-> support]}

MCSymmetry == Permutations(Editor)
=============================================================================
