------------------------------- MODULE MCMailbox -------------------------------
(* One window of a user who has a message of welcome and gets or sends another. *)
EXTENDS Mailbox
CONSTANTS ann, bob
MCJoined == <<ann>>
MCUses   == [w \in MailWindow |-> {"outbox", "read", "delete", "reply", "send"}]
MCOwner  == {[w \in MailWindow |-> ann]}
=============================================================================
