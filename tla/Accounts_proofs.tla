---------------------------- MODULE Accounts_proofs ----------------------------
(* Accounts for every set of users, windows and nodes: what a closed account  *)
(* keeps, and which requests of an enabled button may be refused.             *)
EXTENDS Accounts, TLAPS

\* One window's part of the invariant.
WindowInv(w) == Shaped(w) /\ Desk(w) /\ AsOffered(w) /\ InOrder(w) /\ AllMoved(w)

\* A job that was crossed by the closing of an account, and is otherwise the same.
Marked(j) == [j EXCEPT !.crossed = TRUE]

LEMMA RequestFields ==
  ASSUME NEW op \in Operation \cup {"login", "create", "commit"}, NEW x \in Name \cup Node
  PROVE  /\ Request(op, x) \in Job
         /\ Request(op, x).op = op /\ Request(op, x).of = x /\ Request(op, x).to = None
         /\ Request(op, x).step = "sent" /\ Request(op, x).on = {}
  BY DEF Request, Job, Name

LEMMA MarkedJob ==
  ASSUME NEW j \in Job
  PROVE  /\ Marked(j) \in Job /\ Marked(j).crossed /\ Marked(j).op = j.op /\ Marked(j).of = j.of
         /\ Marked(j).to = j.to /\ Marked(j).on = j.on /\ Marked(j).step = j.step
         /\ Marked(j).by = j.by /\ Marked(j).moving = j.moving
  BY DEF Marked, Job

\* A window that takes no step, whose session may end, whose request may be
\* crossed, and to which no node is given unmarked.
LEMMA Elsewhere ==
  ASSUME AccountsTypeOK, NEW v \in Window, WindowInv(v),
         signed'[v] = signed[v], roster'[v] = roster[v], wizard'[v] = wizard[v],
         session'[v] = session[v] \/ session'[v] = None,
         job'[v] = job[v] \/ (job[v] # None /\ job'[v] = Marked(job[v])),
         \A u \in User : account[u] # None => account'[u] # None,
         \A u \in User : account[u] # None /\ account[u].status = "ACTIVE" =>
           \/ account'[u].status = "ACTIVE"
           \/ job[v] # None /\ u \in {job[v].by, job[v].to} => job'[v] = Marked(job[v]),
         Step(v, "found") \/ Step(v, "moved") => \A n \in Node : owner'[n] = job[v].of =>
           \/ n \in strays'
           \/ owner[n] = job[v].of /\ n \notin strays
  PROVE  WindowInv(v)'
  <1>1. job[v] # None => job[v] \in Job
    BY DEF AccountsTypeOK
  <1>2. CASE job[v] = None
    <2>1. job'[v] = None
      BY <1>2
    <2>. QED
      BY <1>2, <2>1 DEF WindowInv, Shaped, Desk, AsOffered, Offered, InOrder, AllMoved, Step
  <1>3. CASE job[v] # None
    <2>. DEFINE j == job[v]
                k == job'[v]
    <2>1. /\ k # None /\ k.op = j.op /\ k.of = j.of /\ k.to = j.to /\ k.on = j.on
          /\ k.step = j.step /\ k.by = j.by /\ k.moving = j.moving /\ (j.crossed => k.crossed)
          /\ k = Marked(j) => k.crossed
      BY <1>1, <1>3, MarkedJob, AccountsAssumption
    <2>2. Shaped(v)'
      BY <1>3, <2>1 DEF WindowInv, Shaped
    <2>3. Desk(v)'
      BY <1>3, <2>1 DEF WindowInv, Desk
    <2>4. AsOffered(v)'
      BY <1>3, <2>1 DEF WindowInv, AsOffered, Offered
    <2>5. InOrder(v)'
      <3>1. Relied(k) = Relied(j) /\ Relied(j) \subseteq {j.by, j.to}
        BY <2>1 DEF Relied
      <3>. HIDE DEF j, k
      <3>2. \A u \in Relied(j) \cap User :
              account'[u] # None /\ (account'[u].status = "ACTIVE" \/ k.crossed)
        BY <1>3, <2>1, <3>1 DEF WindowInv, InOrder, j, k
      <3>. QED
        BY <3>1, <3>2 DEF InOrder, k
    <2>6. AllMoved(v)'
      BY <1>3, <2>1 DEF WindowInv, AllMoved, Step
    <2>. QED
      BY <2>2, <2>3, <2>4, <2>5, <2>6 DEF WindowInv
  <1>. QED
    BY <1>2, <1>3

\* Sessions of closed accounts: none appear, and none are excused any longer than
\* the closing lasts.
LEMMA SessionsKept ==
  ASSUME AccountsTypeOK, AccountsTypeOK', SessionsOfActive,
         \A w \in Window : session[w] # None /\ session[w].user \in User => account[session[w].user] # None,
         \A w \in Window : session'[w] = session[w] \/ session'[w] = None,
         \A w \in late : session'[w] # None => w \in late',
         \A u \in User : account[u] # None => account'[u] # None,
         \A u \in User : account[u] # None /\ account[u].status = "ACTIVE" =>
           account'[u].status = "ACTIVE" \/ Revoking(u)',
         \A u \in User : Revoking(u) =>
           Revoking(u)' \/ \A w \in Window : session'[w] # None => session'[w].user # u
  PROVE  SessionsOfActive'
  BY DEF SessionsOfActive

\* A step of one window that changes no account and no owner.
LEMMA OneWindow ==
  ASSUME AccountsInv, AccountsTypeOK', NEW w \in Window,
         UNCHANGED <<account, owner, strays>>,
         \A v \in Window \ {w} : /\ signed'[v] = signed[v] /\ roster'[v] = roster[v]
                                /\ wizard'[v] = wizard[v] /\ session'[v] = session[v]
                                /\ job'[v] = job[v],
         session'[w] = session[w] \/ session'[w] = None,
         \A v \in late : session'[v] # None => v \in late',
         Step(w, "revoke") => job'[w] = job[w], WindowInv(w)'
  PROVE  AccountsInv'
  <1>1. \A v \in Window : WindowInv(v) /\ AccountsTypeOK
    BY DEF AccountsInv, WindowInv
  <1>2. \A v \in Window \ {w} : WindowInv(v)'
    BY <1>1, Elsewhere DEF WindowInv, AllMoved
  <1>3. \A u \in User : Revoking(u) => Revoking(u)'
    BY DEF Revoking, Step
  <1>4. SessionsOfActive'
    BY <1>3, SessionsKept DEF AccountsInv, Desk
  <1>5. ClosedOwnNothing'
    BY DEF AccountsInv, ClosedOwnNothing
  <1>. QED
    BY <1>2, <1>4, <1>5 DEF AccountsInv, WindowInv

-----------------------------------------------------------------------------
\* The windows.  A request is sent by a window that waits for none.
LEMMA Sent ==
  ASSUME AccountsInv, NEW w \in Window, NEW r \in Job, Send(w, r), r.step = "sent",
         UNCHANGED <<account, owner, session, signed, roster, wizard, history>>, changes' \in Nat,
         signed[w] = None <=> r.op = "login",
         r.op = "login" => r.of \in Name, r.op = "create" => r.of \in User,
         r.op = "commit" => r.of \in Node,
         r.op \in Operation => /\ r.of \in User /\ roster[w] # None
                               /\ Offered(w, r.op, r.of, r.to, r.on),
         IF r.op = "disenroll" THEN r.to \in User \ {r.of} ELSE r.to = None
  PROVE  AccountsInv'
  <1>. AccountsTypeOK /\ WindowInv(w)
    BY DEF AccountsInv, WindowInv
  <1>1. /\ job[w] = None /\ job' = [job EXCEPT ![w] = r] /\ job'[w] = r /\ r # None
        /\ account' = account /\ owner' = owner /\ session' = session /\ signed' = signed
        /\ roster' = roster /\ wizard' = wizard /\ late' = late /\ strays' = strays
    BY AccountsAssumption DEF Send, AccountsTypeOK, history
  <1>2. AccountsTypeOK'
    BY <1>1 DEF AccountsTypeOK
  <1>3. Shaped(w)'
    BY <1>1 DEF Shaped
  <1>4. Desk(w)'
    BY <1>1 DEF WindowInv, Desk
  <1>5. AsOffered(w)'
    BY <1>1 DEF WindowInv, AsOffered, Offered
  <1>6. InOrder(w)' /\ AllMoved(w)'
    BY <1>1 DEF InOrder, Relied, AllMoved, Step
  <1>7. WindowInv(w)'
    BY <1>3, <1>4, <1>5, <1>6 DEF WindowInv
  <1>8. ~Step(w, "revoke") /\ \A v \in Window \ {w} : job'[v] = job[v]
    BY <1>1 DEF Step, AccountsTypeOK
  <1>. QED
    BY <1>1, <1>2, <1>7, <1>8, OneWindow

\* What a roster shows of a listed account.
LEMMA ShownAccount ==
  ASSUME AccountsTypeOK, NEW w \in Window, roster[w] # None, NEW u \in User, roster[w][u] # None
  PROVE  roster[w][u] \in Account
  BY DEF AccountsTypeOK, Listing

LEMMA SignInInv ==
  ASSUME AccountsInv, NEW w \in Window, SignIn(w)
  PROVE  AccountsInv'
  <1>1. PICK u \in Users[w] : Send(w, Request("login", u))
    BY DEF SignIn
  <1>2. u \in Name
    BY AccountsAssumption
  <1>. QED
    BY <1>1, <1>2, RequestFields, Sent DEF SignIn, Operation, gui, AccountsInv, AccountsTypeOK

LEMMA CommitEditInv ==
  ASSUME AccountsInv, NEW w \in Window, NEW n \in Node, CommitEdit(w, n)
  PROVE  AccountsInv'
  BY RequestFields, Sent DEF CommitEdit, Operation, gui, AccountsInv, AccountsTypeOK

LEMMA EnrollInv ==
  ASSUME AccountsInv, NEW w \in Window, NEW u \in User, NEW admin \in BOOLEAN, Enroll(w, u, admin)
  PROVE  AccountsInv'
  <1>. DEFINE r == [Request("create", u) EXCEPT !.admin = admin]
  <1>1. r \in Job /\ r.step = "sent" /\ r.op = "create" /\ r.of = u /\ r.to = None
    <2>1. Request("create", u) \in Job
      BY RequestFields DEF Name
    <2>. QED
      BY <2>1, RequestFields DEF Job, Name
  <1>2. /\ Send(w, r) /\ roster[w] # None /\ changes' = changes + 1
        /\ UNCHANGED <<account, owner, session, signed, roster, wizard, history>>
    BY DEF Enroll, gui
  <1>3. changes' \in Nat /\ signed[w] # None
    BY <1>2 DEF AccountsInv, AccountsTypeOK, Desk
  <1>. HIDE DEF r
  <1>. QED
    BY <1>1, <1>2, <1>3, Sent DEF Operation

LEMMA ActInv ==
  ASSUME AccountsInv, NEW w \in Window, NEW op \in Operation, NEW u \in User, Act(w, op, u)
  PROVE  AccountsInv'
  <1>. AccountsTypeOK
    BY DEF AccountsInv
  <1>. DEFINE r == [Request(op, u) EXCEPT !.on = AsShown(w, {u})]
  <1>1. /\ Send(w, r) /\ roster[w] # None /\ roster[w][u] # None /\ changes' = changes + 1
        /\ op # "disenroll" /\ Enabled(w, op, u)
        /\ UNCHANGED <<account, owner, session, signed, roster, wizard, history>>
    BY DEF Act, gui, Listed
  <1>2. roster[w][u] \in Account /\ AsShown(w, {u}) = {<<u, roster[w][u]>>}
    BY <1>1, ShownAccount DEF AsShown
  <1>3. /\ r \in Job /\ r.step = "sent" /\ r.op = op /\ r.of = u /\ r.to = None
        /\ r.on = {<<u, roster[w][u]>>}
    <2>1. Request(op, u) \in Job
      BY RequestFields DEF Name
    <2>2. AsShown(w, {u}) = {<<u, roster[w][u]>>} /\ {<<u, roster[w][u]>>} \in SUBSET (User \X Account)
      BY <1>2
    <2>3. r = [Request(op, u) EXCEPT !.on = {<<u, roster[w][u]>>}]
      BY <2>2
    <2>. HIDE DEF r
    <2>. QED
      BY <2>1, <2>2, <2>3, RequestFields DEF Job, Name
  <1>4. Offered(w, op, u, None, {<<u, roster[w][u]>>})
    BY <1>1, <1>2 DEF Offered, Enabled, NotSelf, MayTouch
  <1>5. changes' \in Nat /\ signed[w] # None
    BY <1>1 DEF AccountsInv, AccountsTypeOK, Desk
  <1>. HIDE DEF r
  <1>. QED
    BY <1>1, <1>3, <1>4, <1>5, Sent DEF Operation

LEMMA ConfirmInv ==
  ASSUME AccountsInv, NEW w \in Window, ConfirmDisenroll(w)
  PROVE  AccountsInv'
  <1>. AccountsTypeOK
    BY DEF AccountsInv
  <1>. DEFINE z == wizard[w]
              r == [Request("disenroll", z.of) EXCEPT !.to = z.to, !.on = z.on]
  <1>1. /\ Send(w, r) /\ z # None /\ z.to # None /\ changes' = changes + 1
        /\ UNCHANGED <<account, owner, session, signed, roster, wizard, history>>
    BY DEF ConfirmDisenroll, gui
  <1>2. z \in Wizard
    BY <1>1 DEF AccountsTypeOK
  <1>3. /\ r \in Job /\ r.step = "sent" /\ r.op = "disenroll" /\ r.of = z.of /\ r.to = z.to
        /\ r.on = z.on
    <2>1. Request("disenroll", z.of) \in Job
      BY <1>2, RequestFields DEF Name, Operation, Wizard
    <2>. QED
      BY <1>2, <2>1, RequestFields DEF Job, Name, Wizard, Operation
  <1>4. Offered(w, "disenroll", z.of, z.to, z.on) /\ z.to \in User \ {z.of} /\ z.of \in User
    BY <1>1, <1>2 DEF AccountsInv, AsOffered, Offered, Wizard
  <1>5. changes' \in Nat /\ roster[w] # None /\ signed[w] # None
    BY <1>1 DEF AccountsInv, AccountsTypeOK, Desk
  <1>. HIDE DEF r
  <1>. QED
    BY <1>1, <1>3, <1>4, <1>5, Sent DEF Operation

\* The roster and the disenrollment being prepared.
LEMMA Prepared ==
  ASSUME AccountsInv, NEW w \in Window, NEW r \in Listing, NEW z \in Wizard \cup {None},
         UNCHANGED <<account, owner, session, signed, job, changes, history>>,
         roster' = [roster EXCEPT ![w] = r] \/ (roster' = roster /\ roster[w] # None),
         wizard' = [wizard EXCEPT ![w] = z] \/ wizard' = wizard,
         session[w] # None => session[w].admin,
         signed[w] # None,
         wizard' # wizard /\ z # None => Offered(w, "disenroll", z.of, z.to, z.on)
  PROVE  AccountsInv'
  <1>. AccountsTypeOK /\ WindowInv(w)
    BY DEF AccountsInv, WindowInv
  <1>1. /\ r # None /\ roster'[w] # None
        /\ roster'[w] \in Listing
        /\ wizard'[w] \in {z, wizard[w]} /\ (wizard' = wizard => wizard'[w] = wizard[w])
        /\ \A v \in Window \ {w} : roster'[v] = roster[v] /\ wizard'[v] = wizard[v]
    BY AccountsAssumption DEF AccountsTypeOK
  <1>2. AccountsTypeOK'
    BY DEF AccountsTypeOK, history
  <1>3. Shaped(w)' /\ InOrder(w)' /\ AllMoved(w)'
    BY DEF WindowInv, Shaped, InOrder, AllMoved, Step, history
  <1>4. Desk(w)'
    BY <1>1 DEF WindowInv, Desk
  <1>5. AsOffered(w)'
    <2>1. CASE wizard' = wizard
      BY <2>1 DEF WindowInv, AsOffered, Offered
    <2>2. CASE wizard' # wizard
      <3>1. wizard'[w] = z
        BY <2>2 DEF AccountsTypeOK
      <3>. QED
        BY <2>2, <3>1 DEF WindowInv, AsOffered, Offered
    <2>. QED
      BY <2>1, <2>2
  <1>. QED
    BY <1>1, <1>2, <1>3, <1>4, <1>5, OneWindow DEF WindowInv, history

LEMMA FetchRosterInv ==
  ASSUME AccountsInv, NEW w \in Window, FetchRoster(w)
  PROVE  AccountsInv'
  <1>1. account \in Listing /\ signed[w] # None
    BY DEF AccountsInv, AccountsTypeOK, Desk, FetchRoster
  <1>. QED
    BY <1>1, Prepared DEF FetchRoster

\* An admin's window that shows a roster.
LEMMA RosterDesk ==
  ASSUME AccountsInv, NEW w \in Window, roster[w] # None
  PROVE  roster[w] \in Listing /\ signed[w] # None /\ (session[w] # None => session[w].admin)
  BY DEF AccountsInv, AccountsTypeOK, Desk

LEMMA StartInv ==
  ASSUME AccountsInv, NEW w \in Window, NEW u \in User, StartDisenroll(w, u)
  PROVE  AccountsInv'
  <1>. AccountsTypeOK
    BY DEF AccountsInv
  <1>1. /\ roster[w] # None /\ roster[w][u] # None /\ Enabled(w, "disenroll", u)
        /\ UNCHANGED <<account, owner, session, signed, roster, job, changes, history>>
    BY DEF StartDisenroll, Listed
  <1>2. PICK d \in IF Candidates(w, u) = {} THEN {None} ELSE Candidates(w, u) :
          wizard' = [wizard EXCEPT ![w] = [of |-> u, to |-> d, on |-> AsShown(w, {u, d} \ {None})]]
    BY DEF StartDisenroll
  <1>. DEFINE z == [of |-> u, to |-> d, on |-> AsShown(w, {u, d} \ {None})]
  <1>3. roster[w][u] \in Account /\ u # None
    BY <1>1, ShownAccount, AccountsAssumption DEF Name
  <1>4. d # None => /\ d \in User \ {u} /\ roster[w][d] \in Account
                    /\ ~roster[w][d].admin /\ roster[w][d].status = "ACTIVE"
    BY <1>1, <1>2, ShownAccount DEF Candidates
  <1>5. /\ AsShown(w, {u, d} \ {None}) \subseteq User \X Account
        /\ <<u, roster[w][u]>> \in AsShown(w, {u, d} \ {None})
        /\ d # None => <<d, roster[w][d]>> \in AsShown(w, {u, d} \ {None})
    BY <1>3, <1>4 DEF AsShown
  <1>6. z \in Wizard
    BY <1>4, <1>5 DEF Wizard
  <1>7. Offered(w, "disenroll", u, d, z.on)
    BY <1>1, <1>3, <1>4, <1>5 DEF Offered, Enabled, NotSelf, MayTouch
  <1>8. wizard' = [wizard EXCEPT ![w] = z] /\ z.of = u /\ z.to = d
    BY <1>2
  <1>. HIDE DEF z
  <1>. QED
    BY <1>1, <1>6, <1>7, <1>8, RosterDesk, Prepared

LEMMA ChooseInv ==
  ASSUME AccountsInv, NEW w \in Window, ChooseDestination(w)
  PROVE  AccountsInv'
  <1>. AccountsTypeOK
    BY DEF AccountsInv
  <1>1. /\ wizard[w] # None /\ wizard[w] \in Wizard /\ roster[w] # None
        /\ UNCHANGED <<account, owner, session, signed, roster, job, changes, history>>
    BY DEF ChooseDestination, AccountsTypeOK, AccountsInv, Desk
  <1>. DEFINE y == wizard[w]
              kept == {p \in y.on : p[1] = y.of}
  <1>2. PICK d \in Candidates(w, y.of) :
          wizard' = [wizard EXCEPT ![w] =
            [of |-> y.of, to |-> d, on |-> {p \in y.on : p[1] = y.of} \cup AsShown(w, {d})]]
    BY DEF ChooseDestination
  <1>. DEFINE z == [of |-> y.of, to |-> d, on |-> kept \cup AsShown(w, {d})]
  <1>3. /\ d \in User \ {y.of} /\ roster[w][d] \in Account
        /\ ~roster[w][d].admin /\ roster[w][d].status = "ACTIVE"
    BY <1>1, ShownAccount DEF Candidates
  <1>4. AsShown(w, {d}) = {<<d, roster[w][d]>>}
    BY DEF AsShown
  <1>5. wizard' = [wizard EXCEPT ![w] = z]
    BY <1>2
  <1>6. y.of \in User /\ y.on \subseteq User \X Account
    BY <1>1 DEF Wizard
  <1>7. z \in Wizard /\ z.of = y.of /\ z.to = d /\ z.on = kept \cup AsShown(w, {d})
    <2>1. kept \cup AsShown(w, {d}) \in SUBSET (User \X Account)
      BY <1>3, <1>4, <1>6
    <2>. HIDE DEF kept
    <2>. QED
      BY <1>1, <1>3, <2>1 DEF Wizard
  <1>8. Offered(w, "disenroll", y.of, y.to, y.on)
    BY <1>1 DEF AccountsInv, AsOffered
  <1>9. Offered(w, "disenroll", y.of, d, kept \cup AsShown(w, {d}))
    <2>1. PICK a \in Account : /\ <<y.of, a>> \in y.on
                               /\ y.of # signed[w] /\ (a.admin => signed[w] = Root)
      BY <1>8 DEF Offered
    <2>2. <<y.of, a>> \in kept
      BY <2>1
    <2>. QED
      BY <1>3, <1>4, <2>1, <2>2 DEF Offered
  <1>. HIDE DEF z, kept, y
  <1>. QED
    BY <1>1, <1>5, <1>7, <1>9, RosterDesk, Prepared

LEMMA LeaveInv ==
  ASSUME AccountsInv, NEW w \in Window, LeaveWizard(w)
  PROVE  AccountsInv'
  <1>1. roster[w] # None
    BY DEF AccountsInv, Desk, LeaveWizard
  <1>. QED
    BY <1>1, RosterDesk, Prepared DEF LeaveWizard

LEMMA CloseWindowInv ==
  ASSUME AccountsInv, NEW w \in Window, CloseWindow(w)
  PROVE  AccountsInv'
  <1>. AccountsTypeOK
    BY DEF AccountsInv
  <1>1. /\ job[w] = None /\ session'[w] = None /\ signed'[w] = None
        /\ roster'[w] = None /\ wizard'[w] = None /\ late' = late \ {w} /\ job' = job
        /\ UNCHANGED <<account, owner, changes, strays>>
        /\ \A v \in Window \ {w} : /\ signed'[v] = signed[v] /\ roster'[v] = roster[v]
                                  /\ wizard'[v] = wizard[v] /\ session'[v] = session[v]
    BY DEF CloseWindow, AccountsTypeOK
  <1>2. AccountsTypeOK'
    BY <1>1 DEF AccountsTypeOK, CloseWindow
  <1>3. WindowInv(w)'
    BY <1>1 DEF WindowInv, Shaped, Desk, AsOffered, InOrder, AllMoved, Step
  <1>. QED
    BY <1>1, <1>2, <1>3, OneWindow

LEMMA ExpireInv ==
  ASSUME AccountsInv, NEW w \in Window, Expire(w)
  PROVE  AccountsInv'
  <1>. AccountsTypeOK /\ WindowInv(w)
    BY DEF AccountsInv, WindowInv
  <1>1. /\ job[w] = None /\ session'[w] = None /\ late' = late \ {w}
        /\ UNCHANGED <<account, owner, changes, strays, job, signed, roster, wizard>>
        /\ \A v \in Window \ {w} : session'[v] = session[v]
    BY DEF Expire, AccountsTypeOK, gui
  <1>2. AccountsTypeOK'
    BY <1>1 DEF AccountsTypeOK, Expire
  <1>3. WindowInv(w)'
    BY <1>1 DEF WindowInv, Shaped, Desk, AsOffered, Offered, InOrder, AllMoved, Step
  <1>. QED
    BY <1>1, <1>2, <1>3, OneWindow

-----------------------------------------------------------------------------
\* The Backend.  It answers a request, or takes it one step further without
\* changing what it serves.
LEMMA Served ==
  ASSUME AccountsInv, NEW w \in Window, job[w] # None, NEW r \in Job \cup {None},
         job' = [job EXCEPT ![w] = r], ~Step(w, "revoke"),
         UNCHANGED <<account, owner, session, signed, roster, wizard, changes, history>>,
         r # None =>
           /\ r.op = job[w].op /\ r.of = job[w].of /\ r.to = job[w].to /\ r.on = job[w].on
           /\ r.by \in Name
           /\ r.step \in {"read", "checked", "found", "moved"} /\ (r.step # "read" => r.op = "disenroll")
           /\ r.op # "create" /\ (r.op \in Operation => account[r.of] # None)
           /\ \A u \in Relied(r) \cap User :
                account[u] # None /\ (account[u].status = "ACTIVE" \/ r.crossed)
           /\ r.step \in {"found", "moved"} =>
                \A n \in Node : owner[n] = r.of => n \in r.moving \cup strays
  PROVE  AccountsInv'
  <1>. AccountsTypeOK /\ WindowInv(w)
    BY DEF AccountsInv, WindowInv
  <1>1. /\ job'[w] = r /\ \A v \in Window \ {w} : job'[v] = job[v]
    BY DEF AccountsTypeOK
  <1>2. AccountsTypeOK'
    BY DEF AccountsTypeOK, history
  <1>3. Shaped(w)'
    BY <1>1 DEF WindowInv, Shaped
  <1>4. Desk(w)' /\ AsOffered(w)'
    BY <1>1 DEF WindowInv, Desk, AsOffered, Offered
  <1>5. InOrder(w)'
    BY <1>1 DEF InOrder
  <1>6. AllMoved(w)'
    BY <1>1 DEF AllMoved, Step, history
  <1>. QED
    BY <1>1, <1>2, <1>3, <1>4, <1>5, <1>6, OneWindow DEF WindowInv, history

LEMMA AnswerInv ==
  ASSUME AccountsInv, NEW w \in Window, job[w] # None, ~Step(w, "revoke"), Answer(w),
         UNCHANGED <<account, owner, session, signed, roster, wizard, changes, history>>
  PROVE  AccountsInv'
  BY Served DEF Answer

LEMMA ReadLoginInv ==
  ASSUME AccountsInv, NEW w \in Window, ReadLogin(w)
  PROVE  AccountsInv'
  <1>. AccountsTypeOK /\ WindowInv(w)
    BY DEF AccountsInv, WindowInv
  <1>. DEFINE j == job[w]
              r == [j EXCEPT !.step = "read", !.by = j.of, !.admin = (j.of = Root \/ account[j.of].admin)]
  <1>1. /\ j # None /\ j \in Job /\ j.step = "sent" /\ j.op = "login" /\ j.of \in Name
        /\ UNCHANGED <<account, owner, session, signed, roster, wizard, changes, history>>
    BY DEF ReadLogin, Step, AccountsTypeOK, WindowInv, Shaped, gui
  <1>2. CASE Answer(w)
    BY <1>1, <1>2, AnswerInv DEF Step
  <1>3. CASE ~Answer(w)
    <2>1. /\ j.of = Root \/ (account[j.of] # None /\ account[j.of].status = "ACTIVE")
          /\ job' = [job EXCEPT ![w] = r]
      BY <1>3 DEF ReadLogin, AccountsTypeOK
    <2>2. (j.of = Root \/ account[j.of].admin) \in BOOLEAN
      BY <1>1, <2>1 DEF AccountsTypeOK, Listing, Account, Name
    <2>3. r \in Job /\ r.step = "read" /\ r.op = "login" /\ r.of = j.of /\ r.to = j.to
          /\ r.on = j.on /\ r.by = j.of
      BY <1>1, <2>2 DEF Job
    <2>4. Relied(r) = {j.of}
      BY <2>3 DEF Relied
    <2>. HIDE DEF r
    <2>5. \A u \in Relied(r) \cap User : account[u] # None /\ account[u].status = "ACTIVE"
      BY <2>1, <2>4, AccountsAssumption
    <2>. QED
      BY <1>1, <2>1, <2>3, <2>5, Served DEF Step, Operation
  <1>. QED
    BY <1>2, <1>3

LEMMA ReadTargetInv ==
  ASSUME AccountsInv, NEW w \in Window, ReadTarget(w)
  PROVE  AccountsInv'
  <1>. AccountsTypeOK /\ WindowInv(w)
    BY DEF AccountsInv, WindowInv
  <1>. DEFINE j == job[w]
              r == [j EXCEPT !.step = "read", !.by = session[w].user]
  <1>1. /\ j # None /\ j \in Job /\ j.step = "sent" /\ j.op \in Operation
        /\ UNCHANGED <<account, owner, session, signed, roster, wizard, changes, history>>
    BY DEF ReadTarget, Step, AccountsTypeOK, gui
  <1>2. CASE Answer(w)
    BY <1>1, <1>2, AnswerInv DEF Step
  <1>3. CASE ~Answer(w)
    <2>1. Permitted(w) /\ job' = [job EXCEPT ![w] = r]
      BY <1>3 DEF ReadTarget, AccountsTypeOK
    <2>2. session[w].user \in Name /\ account[j.of] # None
      BY <2>1 DEF Permitted, Allowed, AccountsTypeOK, Session
    <2>3. r \in Job /\ r.step = "read" /\ r.op = j.op /\ r.of = j.of /\ r.to = j.to
          /\ r.on = j.on /\ r.by = session[w].user
      BY <1>1, <2>2 DEF Job
    <2>4. Relied(r) = {}
      BY <1>1, <2>3 DEF Relied, Operation
    <2>. HIDE DEF r
    <2>. QED
      BY <1>1, <2>1, <2>2, <2>3, <2>4, Served DEF Step, Operation
  <1>. QED
    BY <1>2, <1>3

LEMMA CheckInv ==
  ASSUME AccountsInv, NEW w \in Window, CheckDestination(w)
  PROVE  AccountsInv'
  <1>. AccountsTypeOK /\ WindowInv(w)
    BY DEF AccountsInv, WindowInv
  <1>. DEFINE j == job[w]
              r == [j EXCEPT !.step = "checked"]
  <1>1. /\ j # None /\ j \in Job /\ j.step = "read" /\ j.op = "disenroll"
        /\ account[j.of] # None /\ j.by \in Name
        /\ UNCHANGED <<account, owner, session, signed, roster, wizard, changes, history>>
    BY DEF CheckDestination, Step, AccountsTypeOK, gui, WindowInv, Shaped, Operation
  <1>2. CASE Answer(w)
    BY <1>1, <1>2, AnswerInv DEF Step
  <1>3. CASE ~Answer(w)
    <2>1. Receives(j.to) /\ job' = [job EXCEPT ![w] = r]
      BY <1>3 DEF CheckDestination, AccountsTypeOK
    <2>2. r \in Job /\ r.step = "checked" /\ r.op = j.op /\ r.of = j.of /\ r.to = j.to
          /\ r.on = j.on /\ r.by = j.by
      BY <1>1 DEF Job
    <2>3. Relied(r) = {j.to}
      BY <2>2 DEF Relied
    <2>. HIDE DEF r
    <2>. QED
      BY <1>1, <2>1, <2>2, <2>3, Served DEF Step, Receives
  <1>. QED
    BY <1>2, <1>3

LEMMA FindInv ==
  ASSUME AccountsInv, NEW w \in Window, FindNodes(w)
  PROVE  AccountsInv'
  <1>. AccountsTypeOK /\ WindowInv(w)
    BY DEF AccountsInv, WindowInv
  <1>. DEFINE j == job[w]
              mine == {n \in Node : owner[n] = j.of}
              r == [j EXCEPT !.step = "found", !.moving = mine]
  <1>1. /\ j # None /\ j \in Job /\ j.step = "checked" /\ j.op = "disenroll"
        /\ account[j.of] # None /\ j.by \in Name
        /\ UNCHANGED <<account, owner, session, signed, roster, wizard, changes, history>>
        /\ job' = [job EXCEPT ![w] = r]
    BY DEF FindNodes, Step, AccountsTypeOK, gui, WindowInv, Shaped, Operation
  <1>2. r \in Job /\ r.step = "found" /\ r.op = j.op /\ r.of = j.of /\ r.to = j.to
        /\ r.on = j.on /\ r.by = j.by /\ r.moving = mine /\ r.crossed = j.crossed
    BY <1>1 DEF Job
  <1>3. Relied(r) = Relied(j)
    BY <1>1, <1>2 DEF Relied
  <1>. HIDE DEF r
  <1>. QED
    BY <1>1, <1>2, <1>3, Served DEF Step, WindowInv, InOrder

LEMMA MoveInv ==
  ASSUME AccountsInv, NEW w \in Window, MoveNodes(w)
  PROVE  AccountsInv'
  <1>. AccountsTypeOK /\ WindowInv(w)
    BY DEF AccountsInv, WindowInv
  <1>. DEFINE j == job[w]
              r == [j EXCEPT !.step = "moved"]
  <1>1. /\ j # None /\ j \in Job /\ j.step = "found" /\ j.op = "disenroll"
        /\ account[j.of] # None /\ j.by \in Name
        /\ \A n \in Node : owner[n] = j.of => n \in j.moving \cup strays
        /\ UNCHANGED <<account, owner, session, signed, roster, wizard, changes, history>>
        /\ job' = [job EXCEPT ![w] = r]
    BY DEF MoveNodes, Step, AccountsTypeOK, gui, WindowInv, Shaped, AllMoved, Operation
  <1>2. r \in Job /\ r.step = "moved" /\ r.op = j.op /\ r.of = j.of /\ r.to = j.to
        /\ r.on = j.on /\ r.by = j.by /\ r.moving = j.moving /\ r.crossed = j.crossed
    BY <1>1 DEF Job
  <1>3. Relied(r) = Relied(j)
    BY <1>1, <1>2 DEF Relied
  <1>. HIDE DEF r
  <1>. QED
    BY <1>1, <1>2, <1>3, Served DEF Step, WindowInv, InOrder

LEMMA ReadNodeInv ==
  ASSUME AccountsInv, NEW w \in Window, ReadNode(w)
  PROVE  AccountsInv'
  <1>. AccountsTypeOK /\ WindowInv(w)
    BY DEF AccountsInv, WindowInv
  <1>. DEFINE j == job[w]
              r == [j EXCEPT !.step = "read", !.by = session[w].user, !.admin = session[w].admin,
                             !.seen = owner[j.of], !.crossed = j.crossed \/ Doubtful(w)]
  <1>1. /\ j # None /\ j \in Job /\ j.step = "sent" /\ j.op = "commit" /\ j.of \in Node
        /\ UNCHANGED <<account, owner, session, signed, roster, wizard, changes, history>>
    BY DEF ReadNode, Step, AccountsTypeOK, gui, WindowInv, Shaped
  <1>2. CASE Answer(w)
    BY <1>1, <1>2, AnswerInv DEF Step
  <1>3. CASE ~Answer(w)
    <2>1. session[w] # None /\ job' = [job EXCEPT ![w] = r]
      BY <1>3 DEF ReadNode, Known, AccountsTypeOK
    <2>2. /\ session[w].user \in Name /\ session[w].admin \in BOOLEAN /\ owner[j.of] \in Name
          /\ Doubtful(w) \in BOOLEAN
      BY <1>1, <2>1 DEF AccountsTypeOK, Session, Doubtful
    <2>3. r \in Job /\ r.step = "read" /\ r.op = j.op /\ r.of = j.of /\ r.to = j.to
          /\ r.on = j.on /\ r.by = session[w].user /\ r.crossed = (j.crossed \/ Doubtful(w))
      BY <1>1, <2>2 DEF Job
    <2>4. Relied(r) = {session[w].user}
      BY <1>1, <2>3 DEF Relied
    <2>. HIDE DEF r
    <2>5. \A u \in Relied(r) \cap User :
            account[u] # None /\ (account[u].status = "ACTIVE" \/ r.crossed)
      BY <2>1, <2>3, <2>4, AccountsAssumption DEF WindowInv, Desk, Doubtful
    <2>. QED
      BY <1>1, <2>1, <2>2, <2>3, <2>5, Served DEF Step, Operation
  <1>. QED
    BY <1>2, <1>3

\* The answer to a change of one account that closes none.
LEMMA AccountChanged ==
  ASSUME AccountsInv, NEW w \in Window, job[w] # None, ~Step(w, "revoke"), Answer(w),
         UNCHANGED <<owner, session, signed, roster, wizard, changes, history>>,
         account' \in Listing, \A u \in User : account[u] # None => account'[u] # None,
         \A u \in User : account[u] # None /\ account[u].status = "ACTIVE" =>
           account'[u].status = "ACTIVE",
         \A u \in User : account'[u].status = "DISENROLLED" => account[u].status = "DISENROLLED"
  PROVE  AccountsInv'
  <1>. AccountsTypeOK /\ \A v \in Window : WindowInv(v)
    BY DEF AccountsInv, WindowInv
  <1>1. /\ job'[w] = None /\ \A v \in Window \ {w} : job'[v] = job[v]
        /\ owner' = owner /\ session' = session /\ signed' = signed /\ roster' = roster
        /\ wizard' = wizard /\ late' = late /\ strays' = strays
    BY DEF Answer, AccountsTypeOK, history
  <1>2. AccountsTypeOK'
    BY DEF AccountsTypeOK, history, Answer
  <1>3. WindowInv(w)'
    <2>1. Shaped(w)' /\ InOrder(w)' /\ AllMoved(w)'
      BY <1>1 DEF Shaped, InOrder, AllMoved, Step
    <2>2. AsOffered(w)'
      BY <1>1 DEF WindowInv, AsOffered, Offered
    <2>3. Desk(w)'
      BY <1>1 DEF WindowInv, Desk
    <2>. QED
      BY <2>1, <2>2, <2>3 DEF WindowInv
  <1>4. \A v \in Window \ {w} : WindowInv(v)'
    BY <1>1, Elsewhere DEF WindowInv, AllMoved
  <1>5. \A u \in User : Revoking(u) => Revoking(u)'
    BY <1>1 DEF Revoking, Step
  <1>6. SessionsOfActive'
    BY <1>1, <1>2, <1>5, SessionsKept DEF AccountsInv, WindowInv, Desk
  <1>7. ClosedOwnNothing'
    BY <1>1 DEF AccountsInv, ClosedOwnNothing
  <1>. QED
    BY <1>2, <1>3, <1>4, <1>6, <1>7 DEF AccountsInv, WindowInv

LEMMA CreateUserInv ==
  ASSUME AccountsInv, NEW w \in Window, CreateUser(w)
  PROVE  AccountsInv'
  <1>. AccountsTypeOK /\ WindowInv(w)
    BY DEF AccountsInv, WindowInv
  <1>1. /\ job[w] # None /\ job[w] \in Job /\ job[w].step = "sent" /\ job[w].op = "create"
        /\ job[w].of \in User /\ job[w].admin \in BOOLEAN /\ Answer(w)
        /\ UNCHANGED <<owner, session, signed, roster, wizard, changes, history>>
    BY DEF CreateUser, Step, AccountsTypeOK, gui, WindowInv, Shaped, Job
  <1>2. CASE account' = account
    BY <1>1, <1>2, AccountChanged DEF Step, AccountsTypeOK
  <1>3. CASE account' # account
    <2>. DEFINE a == [status |-> "ACTIVE", admin |-> job[w].admin]
    <2>1. account[job[w].of] = None /\ account' = [account EXCEPT ![job[w].of] = a]
      BY <1>3 DEF CreateUser
    <2>2. a \in Account /\ a # None /\ a.status = "ACTIVE"
      BY <1>1, AccountsAssumption DEF Account, Status
    <2>. HIDE DEF a
    <2>3. account' \in Listing
      BY <2>1, <2>2 DEF AccountsTypeOK, Listing
    <2>4. \A u \in User : account'[u] = IF u = job[w].of THEN a ELSE account[u]
      BY <1>1, <2>1 DEF AccountsTypeOK, Listing
    <2>. QED
      BY <1>1, <2>1, <2>2, <2>3, <2>4, AccountChanged DEF Step
  <1>. QED
    BY <1>2, <1>3

LEMMA ApplyInv ==
  ASSUME AccountsInv, NEW w \in Window, Apply(w)
  PROVE  AccountsInv'
  <1>. AccountsTypeOK /\ WindowInv(w)
    BY DEF AccountsInv, WindowInv
  <1>. DEFINE t == job[w].of
  <1>1. /\ job[w] # None /\ job[w].step = "read"
        /\ job[w].op \in {"reinstate", "grant", "revoke", "reset"}
        /\ t \in User /\ account[t] # None /\ Answer(w)
        /\ UNCHANGED <<owner, session, signed, roster, wizard, changes, history>>
    BY DEF Apply, Step, gui, WindowInv, Shaped, Operation
  <1>2. account[t] \in Account
    BY <1>1 DEF AccountsTypeOK, Listing
  <1>3. PICK a \in Account : /\ account' = [account EXCEPT ![t] = a]
                             /\ a.status \in {"ACTIVE", account[t].status}
    <2>1. CASE job[w].op = "reinstate"
      <3>1. [account[t] EXCEPT !.status = "ACTIVE"] \in Account
        BY <1>2 DEF Account, Status
      <3>. QED
        BY <1>2, <2>1, <3>1 DEF Apply, Account
    <2>2. CASE job[w].op = "grant"
      <3>1. [account[t] EXCEPT !.admin = TRUE] \in Account
        BY <1>2 DEF Account
      <3>. QED
        BY <1>2, <2>2, <3>1 DEF Apply, Account
    <2>3. CASE job[w].op = "revoke"
      <3>1. [account[t] EXCEPT !.admin = FALSE] \in Account
        BY <1>2 DEF Account
      <3>. QED
        BY <1>2, <2>3, <3>1 DEF Apply, Account
    <2>4. CASE job[w].op = "reset"
      <3>1. account' = [account EXCEPT ![t] = account[t]]
        BY <2>4 DEF Apply, AccountsTypeOK, Listing
      <3>. QED
        BY <1>2, <3>1
    <2>. QED
      BY <1>1, <2>1, <2>2, <2>3, <2>4
  <1>4. account' \in Listing /\ a # None
    BY <1>3, AccountsAssumption DEF AccountsTypeOK, Listing
  <1>5. \A u \in User : account'[u] = IF u = t THEN a ELSE account[u]
    BY <1>1, <1>3 DEF AccountsTypeOK, Listing
  <1>. QED
    BY <1>1, <1>3, <1>4, <1>5, AccountChanged DEF Step

\* The requests of others, when an account is closed.
LEMMA CrossedJobs ==
  ASSUME AccountsTypeOK, NEW w \in Window, NEW r \in Job, NEW u,
         job' = Crossed([job EXCEPT ![w] = r], w, u)
  PROVE  /\ job' \in [Window -> Job \cup {None}] /\ job'[w] = r
         /\ \A v \in Window \ {w} : job'[v] = IF job[v] # None /\ u \in {job[v].by, job[v].to}
                                             THEN Marked(job[v]) ELSE job[v]
         /\ \A v \in Window \ {w} : job[v] # None =>
              job'[v] # None /\ job'[v].step = job[v].step /\ job'[v].of = job[v].of
  <1>. DEFINE x == [job EXCEPT ![w] = r]
  <1>1. x[w] = r /\ \A v \in Window \ {w} : x[v] = job[v]
    BY DEF AccountsTypeOK
  <1>. HIDE DEF x
  <1>2. job' = [v \in Window |-> IF v # w /\ x[v] # None /\ u \in {x[v].by, x[v].to}
                                 THEN Marked(x[v]) ELSE x[v]]
    BY DEF Crossed, Marked, x
  <1>3. \A v \in Window : job'[v] = IF v # w /\ x[v] # None /\ u \in {x[v].by, x[v].to}
                                    THEN Marked(x[v]) ELSE x[v]
    BY <1>2
  <1>4. \A v \in Window \ {w} : job'[v] = IF job[v] # None /\ u \in {job[v].by, job[v].to}
                                         THEN Marked(job[v]) ELSE job[v]
    BY <1>1, <1>3
  <1>5. job'[w] = r
    BY <1>1, <1>3
  <1>6. \A v \in Window : job[v] # None => job[v] \in Job
    BY DEF AccountsTypeOK
  <1>7. \A v \in Window \ {w} : job[v] # None =>
          job'[v] \in Job /\ job'[v].step = job[v].step /\ job'[v].of = job[v].of
    <2>. SUFFICES ASSUME NEW v \in Window \ {w}, job[v] # None
                  PROVE  job'[v] \in Job /\ job'[v].step = job[v].step /\ job'[v].of = job[v].of
      OBVIOUS
    <2>1. job[v] \in Job
      BY <1>6
    <2>2. job'[v] = Marked(job[v]) \/ job'[v] = job[v]
      BY <1>4
    <2>. QED
      BY <2>1, <2>2, MarkedJob
  <1>8. \A v \in Window : job'[v] \in Job \cup {None}
    BY <1>4, <1>5, <1>7
  <1>9. None \notin Job
    BY AccountsAssumption
  <1>. QED
    BY <1>2, <1>4, <1>5, <1>7, <1>8, <1>9

\* The request whose account is closed by now goes on to drop its sessions.
LEMMA OnToRevoke ==
  ASSUME NEW w \in Window, WindowInv(w), NEW r, job[w] # None, job'[w] = r, r # None,
         r.op = job[w].op, r.of = job[w].of, r.to = job[w].to, r.on = job[w].on, r.by = job[w].by,
         r.step = "revoke", r.op \in {"suspend", "disenroll"}, r.by \in Name,
         account[r.of] # None, r.of \in User,
         \A u \in User : account[u] # None => account'[u] # None,
         UNCHANGED <<session, signed, roster, wizard>>
  PROVE  WindowInv(w)'
  <1>. DEFINE j == job[w]
  <1>1. Shaped(w)'
    <2>1. IF r.op = "disenroll" THEN r.to \in User \ {r.of} ELSE r.to = None
      BY DEF WindowInv, Shaped
    <2>2. account'[r.of] # None
      OBVIOUS
    <2>. QED
      BY <2>1, <2>2 DEF Shaped
  <1>2. Desk(w)'
    <2>1. /\ session' = session /\ signed' = signed /\ roster' = roster /\ wizard' = wizard
          /\ r.op # "login" /\ job[w].op # "login" /\ job[w].op \in Operation
      BY DEF Operation
    <2>. QED
      BY <2>1 DEF WindowInv, Desk
  <1>3. AsOffered(w)'
    BY DEF WindowInv, AsOffered, Offered
  <1>4. InOrder(w)' /\ AllMoved(w)'
    BY DEF InOrder, Relied, AllMoved, Step
  <1>. QED
    BY <1>1, <1>2, <1>3, <1>4 DEF WindowInv

LEMMA SuspendInv ==
  ASSUME AccountsInv, NEW w \in Window, Suspend(w)
  PROVE  AccountsInv'
  <1>. AccountsTypeOK /\ \A v \in Window : WindowInv(v)
    BY DEF AccountsInv, WindowInv
  <1>. DEFINE j == job[w]
              t == j.of
              r == [j EXCEPT !.step = "revoke"]
  <1>1. /\ j # None /\ j \in Job /\ j.step = "read" /\ j.op = "suspend"
        /\ t \in User /\ account[t] # None /\ j.by \in Name
        /\ account' = [account EXCEPT ![t].status = "SUSPENDED"]
        /\ job' = Crossed([job EXCEPT ![w] = r], w, t)
        /\ UNCHANGED <<owner, session, signed, roster, wizard, changes, history>>
    BY DEF Suspend, Step, AccountsTypeOK, gui, WindowInv, Shaped, Operation
  <1>2. r \in Job /\ r # None /\ r.step = "revoke" /\ r.op = "suspend" /\ r.of = t /\ r.to = j.to
        /\ r.on = j.on /\ r.by = j.by
    BY <1>1, AccountsAssumption DEF Job
  <1>. DEFINE a == [account[t] EXCEPT !.status = "SUSPENDED"]
  <1>3. a \in Account /\ a # None /\ a.status = "SUSPENDED" /\ account' = [account EXCEPT ![t] = a]
    BY <1>1, AccountsAssumption DEF AccountsTypeOK, Listing, Account, Status
  <1>. HIDE DEF r, a
  <1>4. account' \in Listing /\ \A u \in User : account'[u] = IF u = t THEN a ELSE account[u]
    BY <1>1, <1>3 DEF AccountsTypeOK, Listing
  <1>5. /\ job' \in [Window -> Job \cup {None}] /\ job'[w] = r
        /\ \A v \in Window \ {w} : job'[v] = IF job[v] # None /\ t \in {job[v].by, job[v].to}
                                            THEN Marked(job[v]) ELSE job[v]
        /\ \A v \in Window \ {w} : job[v] # None =>
             job'[v] # None /\ job'[v].step = job[v].step /\ job'[v].of = job[v].of
    BY <1>1, <1>2, CrossedJobs
  <1>6. AccountsTypeOK'
    BY <1>1, <1>4, <1>5 DEF AccountsTypeOK, history
  <1>7. WindowInv(w)'
    <2>1. job'[w] = r /\ \A u \in User : account[u] # None => account'[u] # None
      BY <1>3, <1>4, <1>5
    <2>. QED
      BY <1>1, <1>2, <2>1, OnToRevoke
  <1>8. \A v \in Window \ {w} : WindowInv(v)'
    <2>. SUFFICES ASSUME NEW v \in Window \ {w}
                  PROVE  WindowInv(v)'
      OBVIOUS
    <2>1. job'[v] = job[v] \/ (job[v] # None /\ job'[v] = Marked(job[v]))
      BY <1>5
    <2>2. \A u \in User : account[u] # None => account'[u] # None
      BY <1>3, <1>4
    <2>3. \A u \in User : account[u] # None /\ account[u].status = "ACTIVE" =>
            \/ account'[u].status = "ACTIVE"
            \/ job[v] # None /\ u \in {job[v].by, job[v].to} => job'[v] = Marked(job[v])
      BY <1>4, <1>5
    <2>4. Step(v, "found") \/ Step(v, "moved") => \A n \in Node : owner'[n] = job[v].of =>
            n \in strays' \/ (owner[n] = job[v].of /\ n \notin strays)
      BY <1>1 DEF history
    <2>. QED
      BY <1>1, <2>1, <2>2, <2>3, <2>4, Elsewhere
  <1>9. SessionsOfActive'
    <2>1. \A u \in User : u = t => Revoking(u)'
      BY <1>2, <1>5 DEF Revoking, Step
    <2>2. \A u \in User : Revoking(u) => Revoking(u)'
      BY <1>1, <1>5 DEF Revoking, Step
    <2>3. \A u \in User : account[u] # None => account'[u] # None
      BY <1>3, <1>4
    <2>4. \A v \in Window : session[v] # None /\ session[v].user \in User =>
            account[session[v].user] # None
      BY DEF WindowInv, Desk
    <2>5. \A u \in User : account[u] # None /\ account[u].status = "ACTIVE" =>
            account'[u].status = "ACTIVE" \/ Revoking(u)'
      BY <1>4, <2>1
    <2>6. SessionsOfActive /\ session' = session /\ late' = late
      BY <1>1 DEF AccountsInv, history
    <2>. QED
      BY <1>6, <2>2, <2>3, <2>4, <2>5, <2>6, SessionsKept
  <1>10. ClosedOwnNothing'
    BY <1>1, <1>3, <1>4 DEF AccountsInv, ClosedOwnNothing, history
  <1>. QED
    BY <1>6, <1>7, <1>8, <1>9, <1>10 DEF AccountsInv, WindowInv

LEMMA CloseInv ==
  ASSUME AccountsInv, NEW w \in Window, Close(w)
  PROVE  AccountsInv'
  <1>. AccountsTypeOK /\ \A v \in Window : WindowInv(v)
    BY DEF AccountsInv, WindowInv
  <1>. DEFINE j == job[w]
              t == j.of
              r == [j EXCEPT !.step = "revoke", !.moving = {}]
  <1>1. /\ j # None /\ j \in Job /\ j.step = "moved" /\ j.op = "disenroll"
        /\ t \in User /\ account[t] # None /\ j.by \in Name /\ j.to \in User \ {t}
        /\ account' = [account EXCEPT ![t].status = "DISENROLLED"]
        /\ owner' = [n \in Node |-> IF n \in j.moving THEN j.to ELSE owner[n]]
        /\ job' = Crossed([job EXCEPT ![w] = r], w, t)
        /\ strays' = IF j.crossed \/ Closing(j.to) THEN strays \cup j.moving ELSE strays \ j.moving
        /\ UNCHANGED <<session, signed, roster, wizard, changes, late>>
    BY DEF Close, Step, AccountsTypeOK, gui, WindowInv, Shaped, Operation
  <1>2. r \in Job /\ r # None /\ r.step = "revoke" /\ r.op = "disenroll" /\ r.of = t /\ r.to = j.to
        /\ r.on = j.on /\ r.by = j.by /\ j.moving \subseteq Node
    <2>1. r \in Job /\ j.moving \subseteq Node
      BY <1>1 DEF Job
    <2>2. /\ r.step = "revoke" /\ r.op = "disenroll" /\ r.of = t /\ r.to = j.to
          /\ r.on = j.on /\ r.by = j.by
      BY <1>1 DEF Job
    <2>. HIDE DEF r
    <2>. QED
      BY <2>1, <2>2, AccountsAssumption
  <1>. DEFINE a == [account[t] EXCEPT !.status = "DISENROLLED"]
  <1>3. a \in Account /\ a # None /\ a.status = "DISENROLLED" /\ account' = [account EXCEPT ![t] = a]
    BY <1>1, AccountsAssumption DEF AccountsTypeOK, Listing, Account, Status
  <1>. HIDE DEF r, a
  <1>4. account' \in Listing /\ \A u \in User : account'[u] = IF u = t THEN a ELSE account[u]
    BY <1>1, <1>3 DEF AccountsTypeOK, Listing
  <1>5. /\ job' \in [Window -> Job \cup {None}] /\ job'[w] = r
        /\ \A v \in Window \ {w} : job'[v] = IF job[v] # None /\ t \in {job[v].by, job[v].to}
                                            THEN Marked(job[v]) ELSE job[v]
        /\ \A v \in Window \ {w} : job[v] # None =>
             job'[v] # None /\ job'[v].step = job[v].step /\ job'[v].of = job[v].of
    BY <1>1, <1>2, CrossedJobs
  <1>6. /\ owner' \in [Node -> Name] /\ strays' \subseteq Node
        /\ \A n \in Node : owner'[n] = IF n \in j.moving THEN j.to ELSE owner[n]
        /\ \A n \in Node \ j.moving : n \in strays' <=> n \in strays
        /\ j.crossed \/ Closing(j.to) => j.moving \subseteq strays'
    <2>1. \A n \in Node : owner'[n] \in Name
      BY <1>1 DEF AccountsTypeOK, Name
    <2>. QED
      BY <1>1, <1>2, <2>1 DEF AccountsTypeOK
  <1>7. AccountsTypeOK'
    BY <1>1, <1>4, <1>5, <1>6 DEF AccountsTypeOK
  <1>8. WindowInv(w)'
    <2>1. job'[w] = r /\ \A u \in User : account[u] # None => account'[u] # None
      BY <1>3, <1>4, <1>5
    <2>. QED
      BY <1>1, <1>2, <2>1, OnToRevoke
  <1>9. \A v \in Window \ {w} : WindowInv(v)'
    <2>. SUFFICES ASSUME NEW v \in Window \ {w}
                  PROVE  WindowInv(v)'
      OBVIOUS
    <2>1. job'[v] = job[v] \/ (job[v] # None /\ job'[v] = Marked(job[v]))
      BY <1>5
    <2>2. \A u \in User : account[u] # None => account'[u] # None
      BY <1>3, <1>4
    <2>3. \A u \in User : account[u] # None /\ account[u].status = "ACTIVE" =>
            \/ account'[u].status = "ACTIVE"
            \/ job[v] # None /\ u \in {job[v].by, job[v].to} => job'[v] = Marked(job[v])
      BY <1>4, <1>5
    <2>4. Step(v, "found") \/ Step(v, "moved") => \A n \in Node : owner'[n] = job[v].of =>
            n \in strays' \/ (owner[n] = job[v].of /\ n \notin strays)
      <3>. SUFFICES ASSUME Step(v, "found") \/ Step(v, "moved"), NEW n \in Node, owner'[n] = job[v].of
                    PROVE  n \in strays' \/ (owner[n] = job[v].of /\ n \notin strays)
        OBVIOUS
      <3>1. CASE n \in j.moving
        BY <1>6, <3>1 DEF Closing
      <3>2. CASE n \notin j.moving
        BY <1>6, <3>2
      <3>. QED
        BY <3>1, <3>2
    <2>. QED
      BY <1>1, <2>1, <2>2, <2>3, <2>4, Elsewhere
  <1>10. SessionsOfActive'
    <2>1. \A u \in User : u = t => Revoking(u)'
      BY <1>2, <1>5 DEF Revoking, Step
    <2>2. \A u \in User : Revoking(u) => Revoking(u)'
      BY <1>1, <1>5 DEF Revoking, Step
    <2>3. \A u \in User : account[u] # None => account'[u] # None
      BY <1>3, <1>4
    <2>4. \A v \in Window : session[v] # None /\ session[v].user \in User =>
            account[session[v].user] # None
      BY DEF WindowInv, Desk
    <2>5. \A u \in User : account[u] # None /\ account[u].status = "ACTIVE" =>
            account'[u].status = "ACTIVE" \/ Revoking(u)'
      BY <1>4, <2>1
    <2>6. SessionsOfActive /\ session' = session /\ late' = late
      BY <1>1 DEF AccountsInv
    <2>. QED
      BY <1>7, <2>2, <2>3, <2>4, <2>5, <2>6, SessionsKept
  <1>11. ClosedOwnNothing'
    <2>. SUFFICES ASSUME NEW n \in Node, owner'[n] \in User, account'[owner'[n]].status = "DISENROLLED"
                  PROVE  n \in strays'
      BY DEF ClosedOwnNothing
    <2>1. CASE n \in j.moving
      <3>1. account[j.to].status = "DISENROLLED"
        BY <1>1, <1>4, <1>6, <2>1
      <3>2. Relied(j) = {j.to}
        BY <1>1 DEF Relied
      <3>3. account[j.to].status = "ACTIVE" \/ j.crossed
        BY <1>1, <3>2 DEF WindowInv, InOrder
      <3>. QED
        BY <1>6, <2>1, <3>1, <3>3
    <2>2. CASE n \notin j.moving /\ owner[n] = t
      BY <1>1, <1>6, <2>2 DEF WindowInv, AllMoved, Step
    <2>3. CASE n \notin j.moving /\ owner[n] # t
      BY <1>4, <1>6, <2>3 DEF AccountsInv, ClosedOwnNothing
    <2>. QED
      BY <2>1, <2>2, <2>3
  <1>. QED
    BY <1>7, <1>8, <1>9, <1>10, <1>11 DEF AccountsInv, WindowInv

LEMMA RevokeUserInv ==
  ASSUME AccountsInv, NEW w \in Window, RevokeUser(w)
  PROVE  AccountsInv'
  <1>. AccountsTypeOK /\ \A v \in Window : WindowInv(v)
    BY DEF AccountsInv, WindowInv
  <1>. DEFINE t == job[w].of
  <1>1. /\ job'[w] = None /\ wizard'[w] = None
        /\ \A v \in Window \ {w} : job'[v] = job[v] /\ wizard'[v] = wizard[v]
        /\ \A v \in Window : session'[v] =
             IF session[v] # None /\ session[v].user = t THEN None ELSE session[v]
        /\ late' = {v \in late : session'[v] # None}
        /\ UNCHANGED <<account, owner, signed, roster, changes, strays>>
    BY DEF RevokeUser, Answer, AccountsTypeOK
  <1>2. AccountsTypeOK'
    <2>1. /\ session' \in [Window -> Session \cup {None}] /\ wizard' \in [Window -> Wizard \cup {None}]
          /\ job' \in [Window -> Job \cup {None}]
      BY DEF RevokeUser, Answer, AccountsTypeOK
    <2>. QED
      BY <1>1, <2>1 DEF AccountsTypeOK
  <1>3. WindowInv(w)'
    <2>1. Shaped(w)' /\ InOrder(w)' /\ AllMoved(w)' /\ AsOffered(w)'
      BY <1>1 DEF Shaped, InOrder, AllMoved, AsOffered, Step
    <2>2. Desk(w)'
      BY <1>1 DEF WindowInv, Desk
    <2>. QED
      BY <2>1, <2>2 DEF WindowInv
  <1>4. \A v \in Window \ {w} : WindowInv(v)'
    BY <1>1, Elsewhere DEF WindowInv, AllMoved
  <1>5. SessionsOfActive'
    <2>1. \A u \in User : Revoking(u) =>
            Revoking(u)' \/ \A v \in Window : session'[v] # None => session'[v].user # u
      <3>. SUFFICES ASSUME NEW u \in User, Revoking(u), ~Revoking(u)'
                    PROVE  u = t
        BY <1>1
      <3>. QED
        BY <1>1 DEF Revoking, Step
    <2>2. \A v \in Window : session[v] # None /\ session[v].user \in User =>
            account[session[v].user] # None
      BY DEF WindowInv, Desk
    <2>3. \A v \in late : session'[v] # None => v \in late'
      BY <1>1
    <2>. QED
      BY <1>1, <1>2, <2>1, <2>2, <2>3, SessionsKept DEF AccountsInv
  <1>6. ClosedOwnNothing'
    BY <1>1 DEF AccountsInv, ClosedOwnNothing
  <1>. QED
    BY <1>2, <1>3, <1>4, <1>5, <1>6 DEF AccountsInv, WindowInv

LEMMA WriteNodeInv ==
  ASSUME AccountsInv, NEW w \in Window, WriteNode(w)
  PROVE  AccountsInv'
  <1>. AccountsTypeOK /\ \A v \in Window : WindowInv(v)
    BY DEF AccountsInv, WindowInv
  <1>. DEFINE j == job[w]
              t == j.of
  <1>1. /\ j # None /\ j \in Job /\ j.step = "read" /\ j.op = "commit" /\ t \in Node
        /\ j.by \in Name /\ Answer(w)
        /\ UNCHANGED <<account, session, signed, roster, wizard, changes, late>>
    BY DEF WriteNode, Step, AccountsTypeOK, gui, WindowInv, Shaped
  <1>2. CASE UNCHANGED <<owner, strays>>
    BY <1>1, <1>2, AnswerInv DEF Step, history
  <1>3. CASE ~UNCHANGED <<owner, strays>>
    <2>1. /\ owner' = [owner EXCEPT ![t] = j.by]
          /\ strays' = IF j.crossed \/ Closing(j.by) THEN strays \cup {t} ELSE strays \ {t}
      BY <1>3 DEF WriteNode
    <2>2. /\ job'[w] = None /\ \A v \in Window \ {w} : job'[v] = job[v]
          /\ \A n \in Node : owner'[n] = IF n = t THEN j.by ELSE owner[n]
          /\ \A n \in Node \ {t} : n \in strays' <=> n \in strays
          /\ j.crossed \/ Closing(j.by) => t \in strays'
      BY <1>1, <2>1 DEF Answer, AccountsTypeOK
    <2>3. AccountsTypeOK'
      BY <1>1, <2>1 DEF AccountsTypeOK, Answer
    <2>4. WindowInv(w)'
      <3>1. Shaped(w)' /\ InOrder(w)' /\ AllMoved(w)'
        BY <2>2 DEF Shaped, InOrder, AllMoved, Step
      <3>2. Desk(w)' /\ AsOffered(w)'
        BY <1>1, <2>2 DEF WindowInv, Desk, AsOffered, Offered
      <3>. QED
        BY <3>1, <3>2 DEF WindowInv
    <2>5. \A v \in Window \ {w} : WindowInv(v)'
      <3>. SUFFICES ASSUME NEW v \in Window \ {w}
                    PROVE  WindowInv(v)'
        OBVIOUS
      <3>1. Step(v, "found") \/ Step(v, "moved") => \A n \in Node : owner'[n] = job[v].of =>
              n \in strays' \/ (owner[n] = job[v].of /\ n \notin strays)
        <4>. SUFFICES ASSUME Step(v, "found") \/ Step(v, "moved"), NEW n \in Node, owner'[n] = job[v].of
                      PROVE  n \in strays' \/ (owner[n] = job[v].of /\ n \notin strays)
          OBVIOUS
        <4>1. CASE n = t
          BY <2>2, <4>1 DEF Closing
        <4>2. CASE n # t
          BY <2>2, <4>2
        <4>. QED
          BY <4>1, <4>2
      <3>. QED
        BY <1>1, <2>2, <3>1, Elsewhere
    <2>6. SessionsOfActive'
      <3>1. \A u \in User : Revoking(u) => Revoking(u)'
        BY <1>1, <2>2 DEF Revoking, Step
      <3>2. \A v \in Window : session[v] # None /\ session[v].user \in User =>
              account[session[v].user] # None
        BY DEF WindowInv, Desk
      <3>. QED
        BY <1>1, <2>3, <3>1, <3>2, SessionsKept DEF AccountsInv
    <2>7. ClosedOwnNothing'
      <3>. SUFFICES ASSUME NEW n \in Node, owner'[n] \in User, account'[owner'[n]].status = "DISENROLLED"
                    PROVE  n \in strays'
        BY DEF ClosedOwnNothing
      <3>1. CASE n = t
        <4>1. Relied(j) = {j.by} /\ j.by \in User /\ account[j.by].status = "DISENROLLED"
          BY <1>1, <2>2, <3>1 DEF Relied
        <4>2. account[j.by].status = "ACTIVE" \/ j.crossed
          BY <1>1, <4>1 DEF WindowInv, InOrder
        <4>. QED
          BY <2>2, <3>1, <4>1, <4>2
      <3>2. CASE n # t
        BY <1>1, <2>2, <3>2 DEF AccountsInv, ClosedOwnNothing
      <3>. QED
        BY <3>1, <3>2
    <2>. QED
      BY <2>3, <2>4, <2>5, <2>6, <2>7 DEF AccountsInv, WindowInv
  <1>. QED
    BY <1>2, <1>3

LEMMA CreateSessionInv ==
  ASSUME AccountsInv, NEW w \in Window, CreateSession(w)
  PROVE  AccountsInv'
  <1>. AccountsTypeOK /\ \A v \in Window : WindowInv(v)
    BY DEF AccountsInv, WindowInv
  <1>. DEFINE j == job[w]
              s == [user |-> j.by, admin |-> j.admin]
  <1>1. /\ j # None /\ j \in Job /\ j.step = "read" /\ j.op = "login" /\ j.by \in Name
        /\ j.admin \in BOOLEAN /\ Answer(w) /\ session' = [session EXCEPT ![w] = s]
        /\ signed' = [signed EXCEPT ![w] = j.by]
        /\ late' = IF j.crossed THEN late \cup {w} ELSE late
        /\ UNCHANGED <<account, owner, roster, wizard, changes, strays>>
    BY DEF CreateSession, Step, AccountsTypeOK, WindowInv, Shaped, Job
  <1>2. s \in Session /\ s # None /\ s.user = j.by
    BY <1>1, AccountsAssumption DEF Session
  <1>. HIDE DEF s
  <1>3. /\ job'[w] = None /\ session'[w] = s /\ signed'[w] = j.by
        /\ \A v \in Window \ {w} : job'[v] = job[v] /\ session'[v] = session[v] /\ signed'[v] = signed[v]
    BY <1>1 DEF Answer, AccountsTypeOK
  <1>4. AccountsTypeOK'
    BY <1>1, <1>2 DEF AccountsTypeOK, Answer
  <1>5. j.by \in User => /\ account[j.by] # None
                         /\ account[j.by].status = "ACTIVE" \/ w \in late'
    <2>1. Relied(j) = {j.by}
      BY <1>1 DEF Relied
    <2>. QED
      BY <1>1, <2>1 DEF WindowInv, InOrder
  <1>6. signed[w] = None /\ roster[w] = None /\ wizard[w] = None /\ j.by # None
    BY <1>1, AccountsAssumption DEF WindowInv, Desk
  <1>7. WindowInv(w)'
    <2>1. Shaped(w)' /\ InOrder(w)' /\ AllMoved(w)'
      BY <1>3 DEF Shaped, InOrder, AllMoved, Step
    <2>2. AsOffered(w)'
      BY <1>1, <1>3, <1>6 DEF AsOffered
    <2>3. Desk(w)'
      BY <1>1, <1>2, <1>3, <1>5, <1>6 DEF Desk
    <2>. QED
      BY <2>1, <2>2, <2>3 DEF WindowInv
  <1>8. \A v \in Window \ {w} : WindowInv(v)'
    BY <1>1, <1>3, Elsewhere DEF WindowInv, AllMoved
  <1>9. SessionsOfActive'
    <2>. SUFFICES ASSUME NEW v \in Window, session'[v] # None, session'[v].user \in User
                  PROVE  \/ account'[session'[v].user].status = "ACTIVE"
                         \/ Revoking(session[v].user)' \/ v \in late'
      BY DEF SessionsOfActive
    <2>1. CASE v = w
      BY <1>1, <1>2, <1>3, <1>5, <2>1
    <2>2. CASE v # w
      <3>1. account[session[v].user].status = "ACTIVE" \/ Revoking(session[v].user) \/ v \in late
        BY <1>3, <2>2 DEF AccountsInv, SessionsOfActive
      <3>2. Revoking(session[v].user) => Revoking(session[v].user)'
        BY <1>1, <1>3, <2>2 DEF Revoking, Step
      <3>. QED
        BY <1>1, <1>3, <2>2, <3>1, <3>2
    <2>. QED
      BY <2>1, <2>2
  <1>10. ClosedOwnNothing'
    BY <1>1 DEF AccountsInv, ClosedOwnNothing
  <1>. QED
    BY <1>4, <1>7, <1>8, <1>9, <1>10 DEF AccountsInv, WindowInv

LEMMA RestartInv ==
  ASSUME AccountsInv, Restart
  PROVE  AccountsInv'
  <1>. AccountsTypeOK /\ \A v \in Window : WindowInv(v)
    BY DEF AccountsInv, WindowInv
  <1>1. /\ \A v \in Window : job'[v] = None /\ session'[v] = None
        /\ late' = {} /\ UNCHANGED <<account, owner, signed, roster, wizard, changes, strays>>
    BY DEF Restart, gui
  <1>2. AccountsTypeOK'
    BY <1>1 DEF AccountsTypeOK, Restart
  <1>3. \A v \in Window : WindowInv(v)'
    BY <1>1 DEF WindowInv, Shaped, InOrder, AllMoved, Step, AsOffered, Offered, Desk
  <1>4. SessionsOfActive' /\ ClosedOwnNothing'
    BY <1>1 DEF AccountsInv, SessionsOfActive, ClosedOwnNothing
  <1>. QED
    BY <1>2, <1>3, <1>4 DEF AccountsInv, WindowInv

-----------------------------------------------------------------------------
LEMMA AccountsInitInv == AccountsInit => AccountsInv
  <1>. SUFFICES ASSUME AccountsInit
                PROVE  AccountsInv
    OBVIOUS
  <1>1. AccountsTypeOK
    BY AccountsAssumption DEF AccountsInit, AccountsTypeOK, Name
  <1>2. \A w \in Window : WindowInv(w)
    BY DEF AccountsInit, WindowInv, Shaped, Desk, AsOffered, InOrder, AllMoved, Step
  <1>3. SessionsOfActive
    BY DEF AccountsInit, SessionsOfActive
  <1>4. ClosedOwnNothing
    BY AccountsAssumption DEF AccountsInit, ClosedOwnNothing
  <1>. QED
    BY <1>1, <1>2, <1>3, <1>4 DEF AccountsInv, WindowInv

LEMMA AccountsStepInv == AccountsInv /\ [AccountsNext]_vars => AccountsInv'
  <1>. SUFFICES ASSUME AccountsInv, [AccountsNext]_vars
                PROVE  AccountsInv'
    OBVIOUS
  <1>1. ASSUME NEW w \in Window, SignIn(w) \/ CloseWindow(w) \/ FetchRoster(w)
        PROVE  AccountsInv'
    BY <1>1, SignInInv, CloseWindowInv, FetchRosterInv
  <1>2. ASSUME NEW w \in Window, NEW u \in User,
               \/ StartDisenroll(w, u) \/ \E op \in Operation : Act(w, op, u)
               \/ \E admin \in BOOLEAN : Enroll(w, u, admin)
        PROVE  AccountsInv'
    BY <1>2, StartInv, ActInv, EnrollInv
  <1>3. ASSUME NEW w \in Window,
               ChooseDestination(w) \/ ConfirmDisenroll(w) \/ LeaveWizard(w) \/ Expire(w)
        PROVE  AccountsInv'
    BY <1>3, ChooseInv, ConfirmInv, LeaveInv, ExpireInv
  <1>4. ASSUME NEW w \in Window, NEW n \in Node, CommitEdit(w, n)
        PROVE  AccountsInv'
    BY <1>4, CommitEditInv
  <1>5. ASSUME NEW w \in Window, Serve(w)
        PROVE  AccountsInv'
    BY <1>5, ReadLoginInv, CreateSessionInv, CreateUserInv, ReadTargetInv, ApplyInv, SuspendInv,
       CheckInv, FindInv, MoveInv, CloseInv, RevokeUserInv, ReadNodeInv, WriteNodeInv DEF Serve
  <1>6. CASE UNCHANGED vars
    <2>1. UNCHANGED <<account, owner, session, signed, roster, wizard, job, changes, late, strays>>
      BY <1>6 DEF vars, gui, history
    <2>2. AccountsTypeOK' /\ changes' = changes
      BY <1>6, <2>1 DEF AccountsInv, AccountsTypeOK, vars
    <2>3. \A w \in Window : WindowInv(w)'
      BY <2>1, Elsewhere DEF AccountsInv, WindowInv, AllMoved
    <2>4. SessionsOfActive' /\ ClosedOwnNothing'
      BY <2>1 DEF AccountsInv, SessionsOfActive, Revoking, Step, ClosedOwnNothing
    <2>. QED
      BY <2>2, <2>3, <2>4 DEF AccountsInv, WindowInv
  <1>. QED
    BY <1>1, <1>2, <1>3, <1>4, <1>5, <1>6, RestartInv DEF AccountsNext

\* The accounts, the windows and the requests under way are in the states the
\* steps of admin.go and auth.go leave them in, whoever asks for what in
\* whatever order.
THEOREM AccountsSafe == AccountsSpec => []AccountsInv
  BY AccountsInitInv, AccountsStepInv, PTL DEF AccountsSpec

\* No session of a suspended or disenrolled account stays (auth.go handleLogin,
\* admin.go handleUpdateUser), but for the exceptions SessionsOfActive names.
THEOREM NoSessionOfClosed == AccountsSpec => []SessionsOfActive
  <1>1. AccountsInv => SessionsOfActive
    BY DEF AccountsInv
  <1>. QED
    BY <1>1, AccountsSafe, PTL

\* All that a disenrolled account owned is handed over (admin.go disenrollUser),
\* but what a request under way at its closing gives it.
THEOREM NothingLeftBehind == AccountsSpec => []ClosedOwnNothing
  <1>1. AccountsInv => ClosedOwnNothing
    BY DEF AccountsInv
  <1>. QED
    BY <1>1, AccountsSafe, PTL

-----------------------------------------------------------------------------
\* A request of an enabled button is given up only by a refusal of the Backend,
\* by an answer to what it did, or when the Backend starts again.
LEMMA RefusedFor ==
  ASSUME AccountsInv, NEW w \in Window, Asked(w), job[w].step \in {"sent", "read"},
         session[w] # None, job[w].step = "read" => job[w].op = "disenroll",
         \A p \in job[w].on : p[2] = account[p[1]]
  PROVE  /\ job[w].step = "sent" => Permitted(w)
         /\ job[w].step = "read" => Receives(job[w].to)
  <1>. AccountsTypeOK /\ WindowInv(w)
    BY DEF AccountsInv, WindowInv
  <1>. DEFINE j == job[w]
  <1>1. /\ j # None /\ j \in Job /\ j.op \in Operation /\ j.of \in User /\ session[w].admin
        /\ session[w].user = signed[w] /\ Offered(w, j.op, j.of, j.to, j.on)
    BY DEF Asked, AccountsTypeOK, WindowInv, Shaped, Desk, AsOffered
  <1>2. PICK a \in Account :
          /\ <<j.of, a>> \in j.on
          /\ j.op \in {"suspend", "disenroll"} => j.of # signed[w] /\ (a.admin => signed[w] = Root)
    BY <1>1 DEF Offered
  <1>3. account[j.of] = a /\ a # None
    BY <1>2, AccountsAssumption
  <1>4. ASSUME j.step = "sent"
        PROVE  Permitted(w)
    BY <1>1, <1>2, <1>3 DEF Permitted, Allowed
  <1>5. ASSUME j.step = "read"
        PROVE  Receives(j.to)
    <2>1. j.to \in User /\ j.to # None
      BY <1>1, <1>5, AccountsAssumption DEF WindowInv, Shaped, Name
    <2>2. PICK b \in Account : <<j.to, b>> \in j.on /\ ~b.admin /\ b.status = "ACTIVE"
      BY <1>1, <2>1 DEF Offered
    <2>3. account[j.to] = b /\ b # None
      BY <2>2, AccountsAssumption
    <2>. QED
      BY <2>2, <2>3 DEF Receives
  <1>. QED
    BY <1>4, <1>5

\* The steps that answer or advance one window's request leave the others' alone.
LEMMA OthersWait ==
  ASSUME AccountsTypeOK, NEW w \in Window, NEW v \in Window, NEW r, job[w] # None,
         job' = [job EXCEPT ![v] = r], v = w => r # None
  PROVE  job'[w] # None
  BY DEF AccountsTypeOK

LEMMA NotGivenUp ==
  ASSUME AccountsInv, NEW w \in Window, Asked(w), job[w].step \in {"sent", "read"},
         session[w] # None, job[w].step = "read" => job[w].op = "disenroll",
         \A p \in job[w].on : p[2] = account[p[1]],
         AccountsNext, session' # [v \in Window |-> None]
  PROVE  job'[w] # None
  <1>. AccountsTypeOK /\ \A v \in Window : WindowInv(v)
    BY DEF AccountsInv, WindowInv
  <1>1. /\ job[w] # None /\ job[w] \in Job /\ job[w].op \in Operation
        /\ job[w].step = "sent" => Permitted(w)
        /\ job[w].step = "read" => Receives(job[w].to)
    BY RefusedFor DEF Asked, AccountsTypeOK
  <1>2. ASSUME NEW v \in Window, NEW r, Send(v, r)
        PROVE  job'[w] # None
    BY <1>1, <1>2, OthersWait DEF Send
  <1>3. ASSUME NEW v \in Window,
               \/ SignIn(v) \/ ConfirmDisenroll(v) \/ \E n \in Node : CommitEdit(v, n)
               \/ \E u \in User : \/ \E op \in Operation : Act(v, op, u)
                                  \/ \E admin \in BOOLEAN : Enroll(v, u, admin)
        PROVE  job'[w] # None
    BY <1>2, <1>3 DEF SignIn, ConfirmDisenroll, CommitEdit, Act, Enroll
  <1>4. ASSUME NEW v \in Window,
               \/ CloseWindow(v) \/ FetchRoster(v) \/ ChooseDestination(v) \/ LeaveWizard(v)
               \/ Expire(v) \/ \E u \in User : StartDisenroll(v, u)
        PROVE  job'[w] # None
    <2>1. job' = job
      BY <1>4 DEF CloseWindow, FetchRoster, ChooseDestination, LeaveWizard, Expire, StartDisenroll
    <2>. QED
      BY <1>1, <2>1
  <1>5. ASSUME NEW v \in Window \ {w}, NEW r, job' = [job EXCEPT ![v] = r]
        PROVE  job'[w] # None
    BY <1>1, <1>5 DEF AccountsTypeOK
  <1>6. ASSUME NEW v \in Window, v # w,
               \/ ReadLogin(v) \/ CreateSession(v) \/ CreateUser(v) \/ ReadTarget(v) \/ Apply(v)
               \/ CheckDestination(v) \/ FindNodes(v) \/ MoveNodes(v) \/ RevokeUser(v) \/ ReadNode(v) \/ WriteNode(v)
        PROVE  job'[w] # None
    <2>1. \/ job' = [job EXCEPT ![v] = None]
          \/ job'[w] = job[w]
      BY <1>6 DEF ReadLogin, CreateSession, CreateUser, ReadTarget, Apply, CheckDestination, FindNodes, MoveNodes,
                  RevokeUser, ReadNode, WriteNode, Answer, AccountsTypeOK
    <2>. QED
      BY <1>1, <1>5, <1>6, <2>1
  <1>7. ASSUME NEW v \in Window, Suspend(v) \/ Close(v)
        PROVE  job'[w] # None
    <2>1. PICK x \in {[job EXCEPT ![v].step = "revoke"],
                      [job EXCEPT ![v].step = "revoke", ![v].moving = {}]} :
            job' = Crossed(x, v, job[v].of)
      BY <1>7 DEF Suspend, Close
    <2>2. /\ job[v] # None /\ job[v] \in Job
          /\ job[v].step = "read" \/ job[v].step = "moved"
      BY <1>7 DEF Suspend, Close, Step, AccountsTypeOK
    <2>3. x[w] \in Job
      BY <1>1, <2>1, <2>2 DEF AccountsTypeOK, Job
    <2>4. job'[w] \in {x[w], Marked(x[w])}
      BY <2>1 DEF Crossed, Marked
    <2>. QED
      BY <2>3, <2>4, MarkedJob, AccountsAssumption
  <1>8. CASE ReadTarget(w)
    <2>1. job' = [job EXCEPT ![w].step = "read", ![w].by = session[w].user]
      BY <1>1, <1>8 DEF ReadTarget, Step
    <2>2. job'[w] = [job[w] EXCEPT !.step = "read", !.by = session[w].user]
      BY <2>1 DEF AccountsTypeOK
    <2>3. session[w].user \in Name
      BY DEF AccountsTypeOK, Session
    <2>4. job'[w] \in Job
      BY <1>1, <2>2, <2>3 DEF Job
    <2>. QED
      BY <2>4, AccountsAssumption
  <1>9. CASE CheckDestination(w)
    <2>1. job' = [job EXCEPT ![w].step = "checked"]
      BY <1>1, <1>9 DEF CheckDestination, Step
    <2>2. job'[w] = [job[w] EXCEPT !.step = "checked"]
      BY <2>1 DEF AccountsTypeOK
    <2>3. job'[w] \in Job
      BY <1>1, <2>2 DEF Job
    <2>. QED
      BY <2>3, AccountsAssumption
  <1>10. ~( \/ ReadLogin(w) \/ CreateSession(w) \/ CreateUser(w) \/ Apply(w) \/ FindNodes(w) \/ MoveNodes(w)
            \/ RevokeUser(w) \/ ReadNode(w) \/ WriteNode(w))
    BY <1>1 DEF ReadLogin, CreateSession, CreateUser, Apply, FindNodes, MoveNodes, RevokeUser, ReadNode,
                WriteNode, Step, Operation
  <1>11. ~Restart
    BY DEF Restart
  <1>12. ASSUME NEW v \in Window, Serve(v)
         PROVE  job'[w] # None
    BY <1>6, <1>7, <1>8, <1>9, <1>10, <1>12 DEF Serve
  <1>. QED
    BY <1>3, <1>4, <1>11, <1>12 DEF AccountsNext

\* What an enabled button of the Admin Tool asks for (AdminTool.tsx gate) is
\* refused by the Backend (admin.go handleUpdateUser) for no other reason than
\* that a named account changed since the roster was read or the session ended.
THEOREM EnabledRequests == AccountsSpec => EnabledIsAccepted
  <1>1. AccountsInv /\ [AccountsNext]_vars =>
          [\A w \in Window :
             Asked(w) /\ job[w].step \in {"sent", "read"} /\ job'[w] = None
             /\ session' # [v \in Window |-> None]
             => \/ session[w] = None
                \/ job[w].step = "read" /\ job[w].op # "disenroll"
                \/ \E p \in job[w].on : p[2] # account[p[1]]]_vars
    <2>. SUFFICES ASSUME AccountsInv, AccountsNext, NEW w \in Window,
                         Asked(w), job[w].step \in {"sent", "read"}, job'[w] = None,
                         session' # [v \in Window |-> None]
                  PROVE  \/ session[w] = None
                         \/ job[w].step = "read" /\ job[w].op # "disenroll"
                         \/ \E p \in job[w].on : p[2] # account[p[1]]
      OBVIOUS
    <2>. QED
      BY NotGivenUp
  <1>. QED
    BY <1>1, AccountsSafe, PTL DEF AccountsSpec, EnabledIsAccepted
=============================================================================
