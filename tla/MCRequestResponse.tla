------------------------- MODULE MCRequestResponse -------------------------
(***************************************************************************)
(* Small instances of RequestResponse: three users, one of whom creates,   *)
(* so that two can compete; one request.                                   *)
(***************************************************************************)
EXTENDS RequestResponse, TLC

CONSTANTS alice, bob, carol, general, support

MCUser == {alice, bob, carol}

ToUser(u) == [type |-> "user", id |-> u]
ToChannel(c) == [type |-> "channel", id |-> c]
ToQueue(q) == [type |-> "queue", id |-> q]

\* A channel, where any two of the others compete.
MCChannelRecipients == {ToChannel(general)}

\* The recipients that some and not all users answer for: a user, the creator
\* himself, and a queue.
MCClosedRecipients == {ToUser(alice), ToUser(bob), ToQueue(support)}

\* A queue by its creator, with any further admins and at most one member.  In
\* which order they are listed does not matter to who may respond.
MCStaffRows ==
  LET lists(most) == {SetToSeq(staff) : staff \in {s \in SUBSET MCUser : Cardinality(s) <= most}}
      rows == [createdBy : MCUser, channel : {Empty}, admins : lists(3), members : lists(1)]
  IN  {row \in rows : WellStaffed(row)}

\* Goroutines are interchangeable, and so are those who did not create.
MCSymmetry == Permutations(Worker) \cup Permutations({bob, carol})
=============================================================================
