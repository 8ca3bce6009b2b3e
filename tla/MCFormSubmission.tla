-------------------------- MODULE MCFormSubmission --------------------------
(***************************************************************************)
(* Small instances of FormSubmission: one request modal and one queue      *)
(* modal, two goroutines, ids enough for every submission.                 *)
(***************************************************************************)
EXTENDS FormSubmission

CONSTANTS alice, bob, general, q1

MCUser == {alice, bob}

MCRecipients == {[type |-> "user", id |-> bob],
                 [type |-> "channel", id |-> general],
                 [type |-> "queue", id |-> q1]}

\* Nobody, the creator himself, a colleague chosen twice.
MCAdminChoices == {<<>>, <<alice>>, <<bob, alice, bob>>}
=============================================================================
