---------------------------- MODULE SlackInbound ----------------------------
(***************************************************************************)
(* The edge of the Node application (app.ts): what happens to an HTTP      *)
(* request before a controller sees it.  A request is an envelope (does    *)
(* its body parse, is it stamped, how is it signed), a path and a body.    *)
(* Each operator gives the status the edge answers with, or 0 when the     *)
(* request goes on.                                                        *)
(***************************************************************************)
EXTENDS Naturals

Envelope == [parses    : BOOLEAN,
             stamped   : BOOLEAN,
             signature : {"none", "short", "wrong", "right"}]

\* The body-parser runs before the signature is looked at.
ParseInboundRequest(envelope) == IF envelope.parses THEN 0 ELSE 400

\* A signature of another length makes timingSafeEqual throw, which is caught
\* and answered like any other mismatch.  The age of the stamp is not looked at.
VerifySlackMessage(envelope) ==
  IF envelope.stamped /\ envelope.signature = "right" THEN 0 ELSE 401

Path == {"/commands", "/interactions", "/other"}

Edge(envelope, path) ==
  IF ParseInboundRequest(envelope) # 0 THEN ParseInboundRequest(envelope)
  ELSE IF VerifySlackMessage(envelope) # 0 THEN VerifySlackMessage(envelope)
  ELSE IF path = "/other" THEN 404
  ELSE 0

-----------------------------------------------------------------------------
(* Bodies *)

\* The text after the slash command: its first word, "" when the text is empty
\* or starts with a blank; split, when what follows the separator runs over
\* more than one line.
CommandText == [word : {"create-queue", "list", "help", ""}, split : BOOLEAN]

\* The regular expression of getCommandArgs: no match leaves no action.
CommandAction(text) == IF text.split THEN "" ELSE text.word

\* A body the controllers' constructors do not take: one that fails the schema
\* of a slash command, one whose payload is missing, is not JSON or lacks the
\* user, the container or the actions.
BadBody(path) == IF path = "/commands" THEN 400 ELSE 500
=============================================================================
