----------------------------- MODULE MCNodeApp -----------------------------
(***************************************************************************)
(* Small instances of NodeApp: two users of one channel, two HTTP requests *)
(* served at a time.                                                       *)
(***************************************************************************)
EXTENDS NodeApp, TLC

CONSTANTS alice, bob, h1, h2

MCUsers == {alice, bob}

MCSlots == {h1, h2}

\* Users are interchangeable, and so are the slots that serve them.  Ids are
\* not: the next one is chosen in a fixed order.
MCSymmetry == Permutations(MCUsers) \cup Permutations(MCSlots)
=============================================================================
