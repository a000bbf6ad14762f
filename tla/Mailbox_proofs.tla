----------------------------- MODULE Mailbox_proofs -----------------------------
(* Mailboxes, for every set of users, windows and messages: no message is marked  *)
(* read for its recipient, or deleted for a user, who was not shown its content.  *)
EXTENDS Mailbox, TLAPS

MailTyped ==
  /\ message \in [Id -> Message \cup {NoMessage}]
  /\ user \in [MailWindow -> MailUser]

\* A window shows messages there are, and the content of the one it has opened,
\* which its user has then been shown.
Viewed ==
  /\ copy \in [MailWindow -> SUBSET (Sent \X BOOLEAN)]
  /\ opened \in [MailWindow -> Sent \cup {NoMessage}]
  /\ detail \in [MailWindow -> (Sent \X BOOLEAN) \cup {NoMessage}]
  /\ \A w \in MailWindow :
       /\ opened[w] = NoMessage => detail[w] = NoMessage
       /\ detail[w] # NoMessage => <<user[w], opened[w]>> \in loaded

\* A request names a message there is.  One to mark it read or to delete it names
\* a message its user was shown.
WellAsked(w, r) ==
  /\ r \in MailRequest
  /\ IF r.op = "send" THEN r.of \in MailUser ELSE r.of \in Sent
  /\ r.op \in {"read", "delete"} => <<user[w], r.of>> \in loaded
AllAsked ==
  /\ DOMAIN out = MailWindow
  /\ \A w \in MailWindow : \A r \in out[w] : WellAsked(w, r)

MailInv == MailTyped /\ Viewed /\ AllAsked /\ ActedOnWasShown

-----------------------------------------------------------------------------
LEMMA SentTyped ==
  ASSUME MailTyped
  PROVE  /\ Sent \subseteq Id
         /\ \A m \in Sent : message[m] \in Message
         /\ \A m \in Id : message[m] \in Message => m \in Sent
  BY MailboxAssumption DEF Sent, MailTyped

LEMMA MailInitInv == MailboxInit => MailInv
  <1>. SUFFICES ASSUME MailboxInit PROVE MailInv
    OBVIOUS
  <1>. USE DEF MailboxInit
  <1>1. Len(Joined) \in Nat /\ Len(Joined) <= MaxMessage /\ MaxMessage \in Nat
    BY MailboxAssumption
  <1>2. \A m \in 1..Len(Joined) : m \in Id /\ Joined[m] \in MailUser
    BY <1>1, MailboxAssumption DEF Id
  <1>3. \A m \in 1..Len(Joined) : Plain(System, Joined[m]) \in Message
    BY <1>2 DEF Plain, Message
  <1>4. message \in [Id -> Message \cup {NoMessage}]
    BY <1>1, <1>3 DEF Id
  <1>5. \A m \in Sent : m \in 1..Len(Joined) /\ message[m] = Plain(System, Joined[m])
    BY <1>1 DEF Sent, Id
  <1>6. \A m \in 1..Len(Joined) : m \in Sent
    BY <1>1, <1>2, <1>3, MailboxAssumption DEF Sent, Id
  <1>7. \A j : ~Plain(System, j).read /\ Plain(System, j).hidden = {}
    BY DEF Plain
  <1>8. ActedOnWasShown
    <2>1. \A m \in Sent : ~message[m].read /\ message[m].hidden = {}
      BY <1>5, <1>7, Zenon
    <2>. QED
      BY <2>1 DEF ActedOnWasShown
  <1>9. MailTyped
    BY <1>4, MailboxAssumption DEF MailTyped
  <1>10. Viewed /\ AllAsked
    BY DEF Viewed, AllAsked
  <1>. QED
    BY <1>8, <1>9, <1>10 DEF MailInv

-----------------------------------------------------------------------------
\* No message leaves the database or changes its mailbox, and what was shown was.
Keeps ==
  /\ Sent \subseteq Sent' /\ user' = user /\ loaded \subseteq loaded'
  /\ \A m \in Sent : message'[m].to = message[m].to

LEMMA ViewKept ==
  ASSUME Viewed, Keeps, UNCHANGED <<copy, opened, detail>>
  PROVE  Viewed'
  BY DEF Viewed, Keeps

LEMMA RequestKept ==
  ASSUME Keeps, NEW w \in MailWindow, NEW r, WellAsked(w, r)
  PROVE  WellAsked(w, r)'
  BY DEF WellAsked, Keeps

\* A step of the Backend that keeps what was shown of the messages.
LEMMA ServedStep ==
  ASSUME MailInv, Keeps, UNCHANGED <<copy, opened, detail>>,
         message' \in [Id -> Message \cup {NoMessage}], ActedOnWasShown',
         DOMAIN out' = MailWindow,
         \A w \in MailWindow : \A r \in out'[w] : r \in out[w] \/ WellAsked(w, r)
  PROVE  MailInv'
  <1>1. MailTyped' /\ Viewed'
    BY ViewKept DEF MailInv, MailTyped, Keeps
  <1>2. ASSUME NEW w \in MailWindow, NEW r \in out'[w] PROVE WellAsked(w, r)'
    <2>1. WellAsked(w, r)
      BY DEF MailInv, AllAsked
    <2>. QED
      BY <2>1, RequestKept
  <1>. QED
    BY <1>1, <1>2 DEF MailInv, AllAsked

\* A step that changes nothing of the mailboxes.
LEMMA QuietStep ==
  ASSUME MailInv, UNCHANGED <<message, user>>, loaded \subseteq loaded', Viewed',
         DOMAIN out' = MailWindow,
         \A w \in MailWindow : \A r \in out'[w] : r \in out[w] \/ WellAsked(w, r)
  PROVE  MailInv'
  <1>1. Sent' = Sent /\ Keeps
    BY DEF Sent, Keeps
  <1>2. MailTyped' /\ ActedOnWasShown'
    BY <1>1 DEF MailInv, MailTyped, ActedOnWasShown
  <1>3. ASSUME NEW w \in MailWindow, NEW r \in out'[w] PROVE WellAsked(w, r)'
    <2>1. WellAsked(w, r)
      BY DEF MailInv, AllAsked
    <2>. QED
      BY <1>1, <2>1, RequestKept
  <1>. QED
    BY <1>2, <1>3 DEF MailInv, AllAsked

LEMMA FetchInv ==
  ASSUME MailInv, NEW w \in MailWindow, NEW c \in Copies, Fetch(w, c)
  PROVE  MailInv'
  <1>. USE DEF MailInv
  <1>1. UNCHANGED <<message, user, out>> /\ Sent' = Sent /\ loaded \subseteq loaded'
    BY DEF Fetch, Sent, Copies
  <1>2. \A m \in Sent : RowOf(m) \in Sent \X BOOLEAN
    BY SentTyped DEF RowOf, Message
  <1>3. \A u, b : ListedIn(u, b) \subseteq Sent
    BY DEF ListedIn
  <1>4. opened' = opened
    BY DEF Fetch
  <1>5. CASE c = "list"
    <2>1. {RowOf(m) : m \in ListedIn(user[w], box[w])} \subseteq Sent \X BOOLEAN
      BY <1>2, <1>3
    <2>2. detail' = detail
          /\ copy' = [copy EXCEPT ![w] = {RowOf(m) : m \in ListedIn(user[w], box[w])}]
      BY <1>5 DEF Fetch
    <2>3. Viewed'
      BY <1>1, <1>4, <2>1, <2>2 DEF Viewed
    <2>. QED
      BY <1>1, <2>3, QuietStep DEF AllAsked
  <1>6. CASE c = "detail"
    <2>1. opened[w] \in Sent /\ opened[w] # NoMessage /\ copy' = copy
          /\ detail' = [detail EXCEPT ![w] = RowOf(opened[w])]
          /\ <<user[w], opened[w]>> \in loaded'
      BY <1>6 DEF Fetch, Viewed
    <2>2. Viewed'
      BY <1>1, <1>2, <1>4, <2>1 DEF Viewed
    <2>. QED
      BY <1>1, <2>2, QuietStep DEF AllAsked
  <1>7. CASE c = "badge"
    <2>1. UNCHANGED <<copy, detail>>
      BY <1>7 DEF Fetch
    <2>2. Viewed'
      BY <1>1, <1>4, <2>1 DEF Viewed
    <2>. QED
      BY <1>1, <2>2, QuietStep DEF AllAsked
  <1>. QED
    BY <1>5, <1>6, <1>7 DEF Copies

LEMMA ShownInv ==
  ASSUME MailInv, NEW w \in MailWindow,
         \/ \E b \in Boxes : ShowBox(w, b)
         \/ \E m \in Id : Open(w, m)
         \/ CloseDetail(w)
  PROVE  MailInv'
  <1>. USE DEF MailInv
  <1>1. UNCHANGED <<message, user, loaded, out>> /\ Sent' = Sent
    BY DEF ShowBox, Open, CloseDetail, Sent
  <1>2. Viewed'
    <2>1. CASE \E b \in Boxes : ShowBox(w, b)
      BY <1>1, <2>1 DEF Viewed, ShowBox
    <2>2. CASE \E m \in Id : Open(w, m)
      <3>1. PICK m \in Id : Open(w, m)
        BY <2>2
      <3>2. m \in Sent
        BY <3>1 DEF Open, Viewed
      <3>. QED
        BY <1>1, <3>1, <3>2 DEF Open, Viewed
    <2>3. CASE CloseDetail(w)
      BY <1>1, <2>3 DEF CloseDetail, Dismissed, Viewed
    <2>. QED
      BY <2>1, <2>2, <2>3
  <1>. QED
    BY <1>1, <1>2, QuietStep DEF AllAsked

\* What a window posts is well asked.
LEMMA PostInv ==
  ASSUME MailInv, NEW w \in MailWindow,
         MarkOpened(w) \/ Delete(w) \/ Reply(w) \/ Compose(w)
  PROVE  MailInv'
  <1>. USE DEF MailInv
  <1>1. UNCHANGED <<message, user, loaded, copy, opened, detail>>
    BY DEF MarkOpened, Delete, Reply, Compose, Ask, view
  <1>2. PICK op \in {"read", "delete", "reply", "send"}, x \in Id \cup MailUser :
          /\ Post(w, op, x) /\ (IF op = "send" THEN x \in MailUser ELSE x \in Sent)
          /\ op \in {"read", "delete"} => <<user[w], x>> \in loaded
    BY DEF MarkOpened, Marking, ShouldMarkRead, Delete, Reply, Compose, Ask, Viewed, Sent
  <1>3. [op |-> op, of |-> x, step |-> "sent"] \in MailRequest
    BY <1>2 DEF MailRequest, Sent
  <1>4. WellAsked(w, [op |-> op, of |-> x, step |-> "sent"])
    BY <1>2, <1>3 DEF WellAsked
  <1>5. out' = [out EXCEPT ![w] = @ \cup {[op |-> op, of |-> x, step |-> "sent"]}]
    BY <1>2 DEF Post
  <1>6. /\ DOMAIN out' = MailWindow
        /\ \A v \in MailWindow : \A r \in out'[v] : r \in out[v] \/ WellAsked(v, r)
    BY <1>4, <1>5 DEF AllAsked
  <1>7. Keeps
    BY <1>1 DEF Keeps, Sent
  <1>8. Viewed'
    BY <1>1, <1>7, ViewKept
  <1>. QED
    BY <1>1, <1>6, <1>8, QuietStep

\* An answer ends its request, whatever it says.
LEMMA AnswerInv ==
  ASSUME MailInv, NEW w \in MailWindow, NEW r \in out[w],
         Answered(w, r) \/ Refused(w, r) \/ Failed(w, r)
  PROVE  MailInv'
  <1>. USE DEF MailInv
  <1>1. UNCHANGED <<message, user, loaded, copy>> /\ out' = [out EXCEPT ![w] = @ \ {r}]
    BY DEF Answered, Refused, Failed, view
  <1>2. Sent' = Sent
    BY <1>1 DEF Sent
  <1>3. \/ UNCHANGED <<opened, detail>>
        \/ Dismissed(w)
    BY DEF Answered, Refused, Failed, view
  <1>4. Viewed'
    BY <1>1, <1>2, <1>3 DEF Viewed, Dismissed
  <1>. QED
    BY <1>1, <1>4, QuietStep DEF AllAsked

-----------------------------------------------------------------------------
\* The Backend.

\* A request that ends.
LEMMA Stepped ==
  ASSUME AllAsked, NEW w \in MailWindow, NEW r \in out[w],
         NEW s \in {"done", "refused"}, Become(w, r, s)
  PROVE  /\ DOMAIN out' = MailWindow
         /\ \A v \in MailWindow : \A q \in out'[v] : q \in out[v] \/ WellAsked(v, q)
  <1>1. WellAsked(w, [r EXCEPT !.step = s])
    BY DEF AllAsked, WellAsked, MailRequest
  <1>. QED
    BY <1>1 DEF Become, AllAsked

\* A message that is delivered was neither read nor deleted by anyone.
LEMMA DeliveredInv ==
  ASSUME MailInv, NEW from \in MailUser \cup {System}, NEW to \in MailUser, Delivered(from, to),
         UNCHANGED <<copy, opened, detail, user, loaded>>, DOMAIN out' = MailWindow,
         \A w \in MailWindow : \A r \in out'[w] : r \in out[w] \/ WellAsked(w, r)
  PROVE  MailInv'
  <1>. USE DEF MailInv
  <1>1. PICK m \in NextId : message' = [message EXCEPT ![m] = Plain(from, to)]
    BY DEF Delivered
  <1>2. m \in Id /\ m \notin Sent
    BY <1>1 DEF NextId, Sent
  <1>3. Plain(from, to) \in Message /\ ~Plain(from, to).read /\ Plain(from, to).hidden = {}
    BY DEF Plain, Message
  <1>4. message' \in [Id -> Message \cup {NoMessage}] /\ message'[m] = Plain(from, to)
    BY <1>1, <1>2, <1>3 DEF MailTyped
  <1>5. Sent' = Sent \cup {m}
    BY <1>1, <1>2, <1>3, MailboxAssumption DEF Sent, MailTyped
  <1>6. \A k \in Sent : message'[k] = message[k]
    BY <1>1, <1>2, SentTyped DEF MailTyped
  <1>7. Keeps
    BY <1>5, <1>6 DEF Keeps
  <1>8. ActedOnWasShown'
    BY <1>3, <1>4, <1>5, <1>6 DEF ActedOnWasShown
  <1>. QED
    BY <1>4, <1>7, <1>8, ServedStep

LEMMA ServeSendInv ==
  ASSUME MailInv, NEW w \in MailWindow, NEW r \in out[w], ServeSend(w, r) \/ ServeReply(w, r)
  PROVE  MailInv'
  <1>. USE DEF MailInv
  <1>1. WellAsked(w, r)
    BY DEF AllAsked
  <1>2. PICK to \in MailUser \cup {System} : DeliveredOrRefused(w, r, to)
    <2>1. CASE ServeSend(w, r)
      BY <1>1, <2>1 DEF ServeSend, WellAsked
    <2>2. CASE ServeReply(w, r)
      <3>1. message[r.of] \in Message
        BY <1>1, <2>2, SentTyped DEF ServeReply, WellAsked
      <3>. QED
        BY <2>2, <3>1 DEF ServeReply, Message
    <2>. QED
      BY <2>1, <2>2
  <1>3. UNCHANGED <<copy, opened, detail, user, loaded>>
    BY <1>2 DEF DeliveredOrRefused, view
  <1>4. CASE to = System \/ NextId = {}
    <2>1. Become(w, r, "refused") /\ UNCHANGED message
      BY <1>2, <1>4 DEF DeliveredOrRefused
    <2>2. Viewed'
      BY <1>3, <2>1, ViewKept DEF Keeps, Sent
    <2>. QED
      BY <1>3, <2>1, <2>2, Stepped, QuietStep
  <1>5. CASE ~(to = System \/ NextId = {})
    <2>1. Delivered(user[w], to) /\ Become(w, r, "done")
      BY <1>2, <1>5 DEF DeliveredOrRefused
    <2>2. user[w] \in MailUser /\ to \in MailUser
      BY <1>5 DEF MailTyped
    <2>. QED
      BY <1>3, <2>1, <2>2, Stepped, DeliveredInv
  <1>. QED
    BY <1>4, <1>5

\* A change of one message, to which a request gives the right.
LEMMA ChangedStep ==
  ASSUME MailInv, UNCHANGED <<copy, opened, detail, user, loaded>>,
         NEW m \in Sent, NEW k \in Message, message' = [message EXCEPT ![m] = k],
         k.to = message[m].to,
         k.read => message[m].read \/ <<k.to, m>> \in loaded,
         \A u \in k.hidden : u \in message[m].hidden \/ <<u, m>> \in loaded,
         DOMAIN out' = MailWindow,
         \A w \in MailWindow : \A r \in out'[w] : r \in out[w] \/ WellAsked(w, r)
  PROVE  MailInv'
  <1>. USE DEF MailInv
  <1>1. /\ m \in Id /\ message' \in [Id -> Message \cup {NoMessage}] /\ message'[m] = k
        /\ \A x \in Id : x # m => message'[x] = message[x]
    BY DEF MailTyped, Sent
  <1>2. Sent' = Sent
    BY <1>1, MailboxAssumption DEF Sent
  <1>3. Keeps
    BY <1>1, <1>2 DEF Keeps, Sent
  <1>4. \A x \in Sent : x # m => message'[x] = message[x]
    BY <1>1 DEF Sent
  <1>5. ActedOnWasShown'
    BY <1>1, <1>2, <1>4 DEF ActedOnWasShown
  <1>. QED
    BY <1>1, <1>3, <1>5, ServedStep

\* A message is marked read by its recipient, who was shown it.
LEMMA MarkReadInv ==
  ASSUME MailInv, NEW w \in MailWindow, NEW r \in out[w], MarkRead(w, r)
  PROVE  MailInv'
  <1>. USE DEF MailInv
  <1>1. /\ UNCHANGED <<copy, opened, detail, user, loaded>> /\ Become(w, r, "done")
        /\ r.op = "read"
    BY DEF MarkRead, view
  <1>2. r.of \in Sent /\ message[r.of] \in Message /\ <<user[w], r.of>> \in loaded
    BY <1>1, SentTyped DEF AllAsked, WellAsked
  <1>3. CASE message[r.of].to = user[w] /\ ~message[r.of].read
    <2>1. PICK k : k = [message[r.of] EXCEPT !.read = TRUE]
      OBVIOUS
    <2>2. k \in Message /\ k.to = message[r.of].to /\ k.hidden = message[r.of].hidden
      BY <1>2, <2>1 DEF Message
    <2>3. message' = [message EXCEPT ![r.of] = k]
      BY <1>2, <1>3, <2>1 DEF MarkRead, MailTyped
    <2>. QED
      BY <1>1, <1>2, <1>3, <2>2, <2>3, Stepped, ChangedStep
  <1>4. CASE ~(message[r.of].to = user[w] /\ ~message[r.of].read)
    <2>1. message' = message
      BY <1>4 DEF MarkRead
    <2>2. Viewed'
      BY <1>1, <2>1, ViewKept DEF Keeps, Sent
    <2>. QED
      BY <1>1, <2>1, <2>2, Stepped, QuietStep
  <1>. QED
    BY <1>3, <1>4

\* A message is deleted for a user who was shown it.
LEMMA HideInv ==
  ASSUME MailInv, NEW w \in MailWindow, NEW r \in out[w], Hide(w, r)
  PROVE  MailInv'
  <1>. USE DEF MailInv
  <1>1. UNCHANGED <<copy, opened, detail, user, loaded>> /\ r.op = "delete"
    BY DEF Hide, view
  <1>2. /\ r.of \in Sent /\ message[r.of] \in Message /\ user[w] \in MailUser
        /\ <<user[w], r.of>> \in loaded
    BY <1>1, SentTyped DEF AllAsked, WellAsked, MailTyped
  <1>3. CASE user[w] \in {message[r.of].from, message[r.of].to}
    <2>1. PICK k : k = [message[r.of] EXCEPT !.hidden = @ \cup {user[w]}]
      OBVIOUS
    <2>2. /\ k \in Message /\ k.to = message[r.of].to /\ k.read = message[r.of].read
          /\ k.hidden = message[r.of].hidden \cup {user[w]}
      BY <1>2, <2>1 DEF Message
    <2>3. message' = [message EXCEPT ![r.of] = k] /\ Become(w, r, "done")
      BY <1>2, <1>3, <2>1 DEF Hide, MailTyped
    <2>. QED
      BY <1>1, <1>2, <2>2, <2>3, Stepped, ChangedStep
  <1>4. CASE user[w] \notin {message[r.of].from, message[r.of].to}
    <2>1. message' = message /\ Become(w, r, "refused")
      BY <1>4 DEF Hide
    <2>2. Viewed'
      BY <1>1, <2>1, ViewKept DEF Keeps, Sent
    <2>. QED
      BY <1>1, <2>1, <2>2, Stepped, QuietStep
  <1>. QED
    BY <1>3, <1>4

\* Purging leaves who read and who deleted a message.
LEMMA PurgeInv ==
  ASSUME MailInv, (\E m \in Id : Purge(m)) \/ \E u \in Leaving : PurgeMailbox(u)
  PROVE  MailInv'
  <1>. USE DEF MailInv
  <1>. DEFINE Goner(m) == [message[m] EXCEPT !.gone = TRUE]
  <1>1. \A m \in Sent : /\ Goner(m) \in Message /\ Goner(m).to = message[m].to
                        /\ Goner(m).read = message[m].read
                        /\ Goner(m).hidden = message[m].hidden
    BY SentTyped DEF Message
  <1>2. UNCHANGED <<copy, opened, detail, user, loaded, out>>
    BY DEF Purge, PurgeMailbox, view
  <1>3. \E G \in SUBSET Sent :
          message' = [m \in Id |-> IF m \in G THEN Goner(m) ELSE message[m]]
    <2>1. ASSUME NEW m \in Id, Purge(m)
          PROVE  message' = [k \in Id |-> IF k \in {m} THEN Goner(k) ELSE message[k]]
                 /\ {m} \in SUBSET Sent
      BY <2>1 DEF Purge, MailTyped
    <2>2. ASSUME NEW u \in Leaving, PurgeMailbox(u)
          PROVE  message' = [k \in Id |-> IF k \in {m \in Sent : message[m].to = u}
                                          THEN Goner(k) ELSE message[k]]
      BY <2>2 DEF PurgeMailbox
    <2>. QED
      BY <2>1, <2>2
  <1>. HIDE DEF Goner
  <1>4. /\ message' \in [Id -> Message \cup {NoMessage}]
        /\ \A m \in Id : m \in Sent' <=> m \in Sent
        /\ \A m \in Sent : /\ message'[m].to = message[m].to
                           /\ message'[m].read = message[m].read
                           /\ message'[m].hidden = message[m].hidden
    BY <1>1, <1>3, MailboxAssumption DEF MailTyped, Sent
  <1>5. Sent' = Sent
    BY <1>4 DEF Sent
  <1>6. Keeps /\ ActedOnWasShown'
    BY <1>2, <1>4, <1>5 DEF Keeps, ActedOnWasShown
  <1>. QED
    BY <1>2, <1>4, <1>6, ServedStep DEF AllAsked

LEMMA NotifyInv ==
  ASSUME MailInv, NEW from \in MailUser, NEW to \in MailUser, Notify(from, to)
  PROVE  MailInv'
  BY DeliveredInv DEF Notify, view, MailInv, AllAsked

LEMMA MailStepInv == MailInv /\ [MailboxNext]_mailVars => MailInv'
  <1>. SUFFICES ASSUME MailInv, [MailboxNext]_mailVars PROVE MailInv'
    OBVIOUS
  <1>1. CASE UNCHANGED mailVars
    <2>1. UNCHANGED <<message, user, loaded, copy, opened, detail, out>>
      BY <1>1 DEF mailVars, view
    <2>2. Viewed'
      BY <2>1, ViewKept DEF MailInv, Keeps, Sent
    <2>. QED
      BY <2>1, <2>2, QuietStep DEF MailInv, AllAsked
  <1>2. ASSUME NEW w \in MailWindow, NEW r \in out[w], ServeMail(w, r) PROVE MailInv'
    BY <1>2, ServeSendInv, MarkReadInv, HideInv DEF ServeMail
  <1>. QED
    BY <1>1, <1>2, FetchInv, ShownInv, PostInv, AnswerInv, PurgeInv, NotifyInv
    DEF MailboxNext, Serves, Answers

THEOREM MailboxSafe == MailboxSpec => []MailInv
  BY MailInitInv, MailStepInv, PTL DEF MailboxSpec

\* No message is marked read or deleted for a user who was not shown its content,
\* whatever is opened, closed, sent, purged or lost meanwhile (ActedOnWasShown).
THEOREM ReadWasShown == MailboxSpec => []ActedOnWasShown
  BY MailboxSafe, PTL DEF MailInv

=============================================================================
