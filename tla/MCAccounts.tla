------------------------------ MODULE MCAccounts ------------------------------
(* What the Backend keeps of users.  Accounts: an admin and two users, one of   *)
(* whom owns data; the RootAdmin is at one window, the admin or the owner at    *)
(* another.  Mailboxes: a message that two windows, of one user or of two, work *)
(* on.  A commit's message to an owner is all they have in common, and is sent  *)
(* at any time in the one and left out of the other; so one at a time is        *)
(* checked.                                                                     *)
EXTENDS Accounts, Mailbox

CONSTANTS ann, bob, cat, n1

VARIABLE part

Active(admin) == [status |-> "ACTIVE", admin |-> admin]
MCAccount == {[u \in User |-> IF u = cat /\ new THEN None ELSE Active(u = ann)] : new \in BOOLEAN}
MCAll     == {[u \in User |-> Active(u = ann)]}
MCOwner   == [n \in Node |-> bob]
MCCatOwns == [n \in Node |-> cat]
MCUsers   == [w \in Window |-> IF w = 1 THEN {Root} ELSE {ann, bob}]
MCWriters == [w \in Window |-> IF w = 1 THEN {Root} ELSE {bob}]

MCUses    == [w \in MailWindow |-> {"outbox", "read", "delete"}]
MCOwners  == {[w \in MailWindow |-> IF w = 1 THEN ann ELSE u] : u \in {ann, bob}}
MCJoined  == <<>>

UsersInit ==
  /\ part \in {"accounts", "mail"} /\ AccountsInit /\ MailboxInit
  /\ part = "accounts" => \A w \in MailWindow : user[w] = ann
  /\ part = "mail" => \A u \in User : account[u] # None
UsersNext ==
  /\ UNCHANGED part
  /\ \/ part = "accounts" /\ AccountsNext /\ UNCHANGED mailVars
     \/ part = "mail" /\ MailboxNext /\ UNCHANGED vars
UsersSpec == UsersInit /\ [][UsersNext]_<<part, vars, mailVars>>

=============================================================================
