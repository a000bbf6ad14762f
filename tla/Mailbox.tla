-------------------------------- MODULE Mailbox --------------------------------
(***************************************************************************)
(* Messages between users: what the Backend keeps of them (messages.go,    *)
(* commit.go for change notifications, admin.go for purge and closing),    *)
(* the Message Center (MessageCenterTool.tsx) and the badge of the main    *)
(* window (BrandingPanel.tsx).                                             *)
(*                                                                         *)
(* A window shows copies: of the inbox and of the outbox, of the message   *)
(* opened, of the unread count.  A copy is fetched again when a success    *)
(* makes it stale, or at any other time (the window gets the focus).       *)
(* Subjects, bodies, the order of the rows and the limit of a list (100)   *)
(* are left out, and so is the unread count stored with each mailbox: the  *)
(* Backend writes it and reads it nowhere, the badge counts the messages.  *)
(* Messages are numbered in the order they are sent.                       *)
(***************************************************************************)
EXTENDS Naturals, Sequences, FiniteSets

CONSTANTS
  MailUser, Leaving,  \* the users; those whose account may be closed
  Admin, Purging,     \* who purges, and the messages the instance lets be purged
  Joined,             \* those whose welcome is still unread, in the order they joined
  System,             \* the sender of the welcome messages: it has no mailbox
  MaxMessage,         \* bound: messages
  MailWindow, Owners, \* the windows, and who their users may be
  Uses,               \* bound: what each window is used for
  Badged,             \* bound: the windows whose badge is followed
  NoMessage

VARIABLES
  message,        \* the database: the messages
  user,           \* whose window it is
  box, copy,      \* the list shown, and the copy of that list
  opened, detail, \* the message shown, and the copy of it
  marked,         \* ... and whether the window asked to mark it read
  badge,
  stale,          \* the copies to fetch again
  out,            \* the requests of a window
  loaded          \* history: who was shown the content of which message

view     == <<box, copy, opened, detail, marked, badge, stale>>
mailVars == <<message, user, view, out, loaded>>

Id      == 1..MaxMessage
Message == [from : MailUser \cup {System}, to : MailUser, read : BOOLEAN, gone : BOOLEAN,
            hidden : SUBSET MailUser]
Sent    == {m \in Id : message[m] # NoMessage}
Boxes   == {"inbox", "outbox"}
Copies  == {"list", "detail", "badge"}
\* A request is on its way, is done, or is refused.
MailRequest == [op : {"read", "delete", "reply", "send"}, of : Id \cup MailUser,
            step : {"sent", "done", "refused"}]
Row     == Id \X BOOLEAN

ASSUME MailboxAssumption ==
  /\ MaxMessage \in Nat /\ NoMessage \notin Message /\ NoMessage \notin Id
  /\ System \notin MailUser /\ Badged \subseteq MailWindow
  /\ Owners \subseteq [MailWindow -> MailUser]
  /\ Joined \in Seq(MailUser) /\ Len(Joined) <= MaxMessage
  /\ \A i, j \in 1..Len(Joined) : Joined[i] = Joined[j] => i = j

Plain(from, to) == [from |-> from, to |-> to, read |-> FALSE, gone |-> FALSE, hidden |-> {}]

\* A user who joins has a message of welcome; the others have deleted theirs.
MailboxInit ==
  /\ message = [m \in Id |-> IF m <= Len(Joined) THEN Plain(System, Joined[m]) ELSE NoMessage]
  /\ user \in Owners
  /\ box = [w \in MailWindow |-> "inbox"] /\ copy = [w \in MailWindow |-> {}]
  /\ opened = [w \in MailWindow |-> NoMessage] /\ detail = [w \in MailWindow |-> NoMessage]
  /\ marked = [w \in MailWindow |-> FALSE]
  /\ badge = [w \in MailWindow |-> 0] /\ stale = [w \in MailWindow |-> {"list", "badge"}]
  /\ out = [w \in MailWindow |-> {}] /\ loaded = {}

-----------------------------------------------------------------------------
\* What the Backend answers.

ListedIn(u, b) ==
  {m \in Sent : /\ IF b = "inbox" THEN message[m].to = u ELSE message[m].from = u
                /\ ~message[m].gone /\ u \notin message[m].hidden}
UnreadCountOfAll(u) == Cardinality({m \in Sent : message[m].to = u /\ ~message[m].read})
UnreadCount(u) ==
  Cardinality({m \in Sent : /\ message[m].to = u /\ ~message[m].read
                            /\ ~message[m].gone /\ u \notin message[m].hidden})
RowOf(m) == <<m, message[m].read>>

-----------------------------------------------------------------------------
\* The windows.

Fetch(w, c) ==
  /\ CASE c = "list"   -> /\ copy' = [copy EXCEPT ![w] =
                                {RowOf(m) : m \in ListedIn(user[w], box[w])}]
                          /\ UNCHANGED <<detail, badge, loaded>>
       [] c = "detail" -> /\ opened[w] # NoMessage
                          /\ detail' = [detail EXCEPT ![w] = RowOf(opened[w])]
                          /\ loaded' = loaded \cup {<<user[w], opened[w]>>}
                          /\ UNCHANGED <<copy, badge>>
       [] c = "badge"  -> /\ w \in Badged
                          /\ badge' = [badge EXCEPT ![w] = UnreadCount(user[w])]
                          /\ UNCHANGED <<copy, detail, loaded>>
  /\ stale' = [stale EXCEPT ![w] = @ \ {c}]
  /\ UNCHANGED <<message, user, box, opened, marked, out>>

\* A list shown again is fetched again; its copy of before is left out.
ShowBox(w, b) ==
  /\ opened[w] = NoMessage /\ box[w] # b /\ b \in Uses[w] \cup {"inbox"}
  /\ box' = [box EXCEPT ![w] = b] /\ copy' = [copy EXCEPT ![w] = {}]
  /\ stale' = [stale EXCEPT ![w] = @ \cup {"list"}]
  /\ UNCHANGED <<message, user, opened, detail, marked, badge, out, loaded>>

Open(w, m) ==
  /\ opened[w] = NoMessage /\ \E r \in copy[w] : r[1] = m
  /\ opened' = [opened EXCEPT ![w] = m] /\ detail' = [detail EXCEPT ![w] = NoMessage]
  /\ marked' = [marked EXCEPT ![w] = FALSE]
  /\ stale' = [stale EXCEPT ![w] = @ \cup {"detail"}]
  /\ UNCHANGED <<message, user, box, copy, badge, out, loaded>>

Dismissed(w) ==
  /\ opened' = [opened EXCEPT ![w] = NoMessage] /\ detail' = [detail EXCEPT ![w] = NoMessage]
  /\ marked' = [marked EXCEPT ![w] = FALSE]
  /\ stale' = [stale EXCEPT ![w] = (@ \cup {"list", "badge"}) \ {"detail"}]
CloseDetail(w) ==
  /\ opened[w] # NoMessage /\ Dismissed(w)
  /\ UNCHANGED <<message, user, box, copy, badge, out, loaded>>

Post(w, op, x) ==
  /\ op \in Uses[w] /\ out[w] = {}
  /\ out' = [out EXCEPT ![w] = @ \cup {[op |-> op, of |-> x, step |-> "sent"]}]
\* Once the content is there, a message of the inbox is marked read; it is
\* asked once, whatever comes of it.
ShouldMarkReadOfRow(w) ==
  box[w] = "inbox" /\ detail[w] # NoMessage /\ <<opened[w], FALSE>> \in copy[w]
ShouldMarkReadAtOnce(w) == box[w] = "inbox" /\ <<opened[w], FALSE>> \in copy[w]
ShouldMarkRead(w) == box[w] = "inbox" /\ detail[w] # NoMessage /\ ~detail[w][2]
Marking(w) == ShouldMarkRead(w) /\ ~marked[w]
MarkOpened(w) ==
  /\ Marking(w) /\ Post(w, "read", opened[w])
  /\ marked' = [marked EXCEPT ![w] = TRUE]
  /\ UNCHANGED <<message, user, box, copy, opened, detail, badge, stale, loaded>>
\* ... before the user can do anything.
Ask(w, op, x) == ~Marking(w) /\ Post(w, op, x) /\ UNCHANGED <<message, user, view, loaded>>
Delete(w) == detail[w] # NoMessage /\ Ask(w, "delete", opened[w])
Reply(w)  == detail[w] # NoMessage /\ box[w] = "inbox" /\ Ask(w, "reply", opened[w])
Compose(w) == opened[w] = NoMessage /\ \E u \in MailUser : Ask(w, "send", u)

\* A success makes copies stale; that of the delete and the reply closes the
\* detail that is open by then.
Become(w, r, s) == out' = [out EXCEPT ![w] = (@ \ {r}) \cup {[r EXCEPT !.step = s]}]
Stale(w, r) == IF r.op = "read" /\ opened[w] = r.of THEN {"detail"} ELSE {}
Answered(w, r) ==
  /\ r.step = "done"
  /\ IF r.op \in {"delete", "reply"} THEN Dismissed(w)
     ELSE /\ stale' = [stale EXCEPT ![w] = @ \cup {"list", "badge"} \cup Stale(w, r)]
          /\ UNCHANGED <<opened, detail, marked>>
  /\ out' = [out EXCEPT ![w] = @ \ {r}]
  /\ UNCHANGED <<message, user, box, copy, badge, loaded>>
\* A refusal, and a failure of the network, are shown and nothing else.
Refused(w, r) ==
  /\ r.step = "refused" /\ out' = [out EXCEPT ![w] = @ \ {r}]
  /\ UNCHANGED <<message, user, view, loaded>>
Failed(w, r) ==
  /\ r.step \in {"sent", "done"}
  /\ out' = [out EXCEPT ![w] = @ \ {r}]
  /\ UNCHANGED <<message, user, view, loaded>>

-----------------------------------------------------------------------------
\* The Backend.

\* A message more than MaxMessage is refused.
NextId == {m \in Id : message[m] = NoMessage /\ \A k \in 1..(m - 1) : message[k] # NoMessage}
Delivered(from, to) == \E m \in NextId : message' = [message EXCEPT ![m] = Plain(from, to)]
DeliveredOrRefused(w, r, to) ==
  /\ r.step = "sent"
  /\ IF to = System \/ NextId = {}
     THEN Become(w, r, "refused") /\ UNCHANGED message
     ELSE Delivered(user[w], to) /\ Become(w, r, "done")
  /\ UNCHANGED <<user, view, loaded>>

\* A reply goes to the sender's mailbox; the System has none.
ServeSend(w, r)  == r.op = "send" /\ DeliveredOrRefused(w, r, r.of)
ServeReply(w, r) == r.op = "reply" /\ DeliveredOrRefused(w, r, message[r.of].from)

\* A message of the user's own mailbox is marked, if it is unread.
MarkRead(w, r) ==
  /\ r.op = "read" /\ r.step = "sent"
  /\ message' = IF message[r.of].to = user[w] /\ ~message[r.of].read
                THEN [message EXCEPT ![r.of].read = TRUE] ELSE message
  /\ Become(w, r, "done")
  /\ UNCHANGED <<user, view, loaded>>

\* Of a message, the sender and the recipient each delete what they see.
Hide(w, r) ==
  /\ r.op = "delete" /\ r.step = "sent"
  /\ IF user[w] \in {message[r.of].from, message[r.of].to}
     THEN /\ message' = [message EXCEPT ![r.of].hidden = @ \cup {user[w]}]
          /\ Become(w, r, "done")
     ELSE UNCHANGED message /\ Become(w, r, "refused")
  /\ UNCHANGED <<user, view, loaded>>

\* An admin purges a message listed in the Admin Tool's view of all mailboxes.
Purge(m) ==
  /\ m \in Sent \cap Purging /\ ~message[m].gone /\ Admin \notin message[m].hidden
  /\ message' = [message EXCEPT ![m].gone = TRUE]
  /\ UNCHANGED <<user, view, out, loaded>>
\* A commit tells the owner of what it changed, and closing an account purges
\* the messages of its mailbox.
Notify(from, to) ==
  /\ from # to /\ Delivered(from, to)
  /\ UNCHANGED <<user, view, out, loaded>>
PurgeMailbox(u) ==
  /\ \E m \in Sent : message[m].to = u /\ ~message[m].gone
  /\ message' = [m \in Id |-> IF m \in Sent /\ message[m].to = u
                              THEN [message[m] EXCEPT !.gone = TRUE] ELSE message[m]]
  /\ UNCHANGED <<user, view, out, loaded>>

ServeMail(w, r) ==
  ServeSend(w, r) \/ ServeReply(w, r) \/ MarkRead(w, r) \/ Hide(w, r)
Serves(w)     == \E r \in out[w] : ServeMail(w, r)
Answers(w)    == \E r \in out[w] : Answered(w, r) \/ Refused(w, r)
Refresh(w, c) == c \in stale[w] /\ Fetch(w, c)
MailboxNext ==
  \/ \E w \in MailWindow :
       \/ \E c \in Copies : Fetch(w, c)
       \/ \E b \in Boxes : ShowBox(w, b)
       \/ \E m \in Id : Open(w, m)
       \/ CloseDetail(w) \/ MarkOpened(w) \/ Delete(w) \/ Reply(w) \/ Compose(w)
       \/ Serves(w) \/ Answers(w) \/ \E r \in out[w] : Failed(w, r)
  \/ \E m \in Id : Purge(m)
  \/ \E u, v \in MailUser : Notify(u, v)
  \/ \E u \in Leaving : PurgeMailbox(u)
\* A handler that runs goes on, a stale copy is fetched, and the badge is
\* fetched every 15 seconds.
MailboxSpec ==
  /\ MailboxInit /\ [][MailboxNext]_mailVars
  /\ \A w \in MailWindow :
       /\ WF_mailVars(Serves(w)) /\ WF_mailVars(Answers(w)) /\ WF_mailVars(MarkOpened(w))
       /\ WF_mailVars(Fetch(w, "badge"))
       /\ \A c \in Copies : WF_mailVars(Refresh(w, c))

-----------------------------------------------------------------------------
\* Nothing is taken from a user unseen: what is marked read was shown to its
\* recipient, and what is deleted was shown to who deleted it, whatever was
\* closed, opened or lost meanwhile (MessageDetail; SRS 6.5.14.12).
ActedOnWasShown ==
  \A m \in Sent :
    /\ message[m].read => <<message[m].to, m>> \in loaded
    /\ \A u \in message[m].hidden : <<u, m>> \in loaded

\* The badge comes to show how many rows of the inbox are unread
\* (BrandingPanel, handleUnreadCount).
BadgeCatchesUp ==
  \A w \in Badged :
    []<>(badge[w] = Cardinality({m \in ListedIn(user[w], "inbox") : ~message[m].read}))

\* A message opened from the inbox is read at last, or was closed before, or
\* the request to mark it failed (MessageDetail, handleMarkRead).
OpenedIsRead ==
  \A w \in MailWindow, m \in Id :
    (opened[w] = m /\ box[w] = "inbox")
    ~> (opened[w] # m \/ message[m].read \/ (marked[w] /\ out[w] = {}))
=============================================================================
