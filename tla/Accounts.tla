------------------------------- MODULE Accounts -------------------------------
(***************************************************************************)
(* Accounts, sessions and who owns data: the Admin Tool (AdminTool.tsx),   *)
(* the login screen and the session store of the GUI, and what the Backend *)
(* does for them (admin.go, auth.go), with the commits that make a user    *)
(* the owner of a node (commit.go).                                        *)
(*                                                                         *)
(* A window is signed in as somebody and shows a roster fetched some time  *)
(* ago.  It has one request out at a time; two windows of one admin are    *)
(* two windows.  The Backend takes a request in steps: it finds the        *)
(* session, reads, writes and, after a status change, drops the sessions.  *)
(* Passwords are always right, and names, emails and the roster's filters  *)
(* are left out.  A session whose window is closed is dropped: nobody      *)
(* holds its token any more.                                               *)
(***************************************************************************)
EXTENDS Naturals, FiniteSets

CONSTANTS
  Root, User,     \* the RootAdmin and the accounts there may be
  InitialAccount, \* those there may be at first
  Node, InitialOwner,
  Window, None,
  Users,          \* bound: who signs in at a window
  MaxChange       \* bound: the requests that may be sent to change an account

VARIABLES
  account, owner, \* the database
  session,        \* the Backend's sessions, by the window that holds the token
  signed,         \* who the window is signed in as
  roster, wizard, \* the Admin Tool: its accounts, the disenrollment it prepares
  job,            \* the request a window waits for
  changes,
  late, strays    \* history: sessions begun, nodes given, while an account closed

gui     == <<signed, roster, wizard>>
history == <<late, strays>>
vars    == <<account, owner, session, gui, job, changes, history>>

Status  == {"ACTIVE", "SUSPENDED", "DISENROLLED"}
Account == [status : Status, admin : BOOLEAN]
Name    == User \cup {Root}
Operation == {"suspend", "reinstate", "grant", "revoke", "reset", "disenroll"}

\* A request: what it asks for of whom, how the roster showed the accounts it is
\* about, who the Backend takes it to come from, and what it read.
Job == [op : Operation \cup {"login", "create", "commit"}, of : Name \cup Node,
        to : User \cup {None}, admin : BOOLEAN, on : SUBSET (User \X Account),
        step : {"sent", "read", "checked", "found", "moved", "revoke"},
        by : Name \cup {None}, seen : Name \cup {None}, moving : SUBSET Node, crossed : BOOLEAN]
Session == [user : Name, admin : BOOLEAN]
Wizard  == [of : User, to : User \cup {None}, on : SUBSET (User \X Account)]
Listing == [User -> Account \cup {None}]

\* What owns data at the start is an account that is not closed.
ASSUME AccountsAssumption ==
  /\ Root \notin User /\ None \notin Name
  /\ None \notin Account \cup Session \cup Wizard \cup Job \cup Listing
  /\ InitialOwner \in [Node -> User] /\ InitialAccount \subseteq Listing
  /\ \A a \in InitialAccount, n \in Node :
       a[InitialOwner[n]] \in Account /\ a[InitialOwner[n]].status # "DISENROLLED"
  /\ Users \in [Window -> SUBSET Name] /\ MaxChange \in Nat

AccountsInit ==
  /\ account \in InitialAccount /\ owner = InitialOwner
  /\ session = [w \in Window |-> None] /\ signed = [w \in Window |-> None]
  /\ roster = [w \in Window |-> None] /\ wizard = [w \in Window |-> None]
  /\ job = [w \in Window |-> None] /\ changes = 0
  /\ late = {} /\ strays = {}

-----------------------------------------------------------------------------
\* The windows.

Request(op, x) ==
  [op |-> op, of |-> x, to |-> None, admin |-> FALSE, on |-> {}, step |-> "sent",
   by |-> None, seen |-> None, moving |-> {}, crossed |-> FALSE]
Send(w, r) == job[w] = None /\ job' = [job EXCEPT ![w] = r]

\* The login screen; or the launcher's token, which the GUI takes over.
SignIn(w) ==
  /\ signed[w] = None
  /\ \E u \in Users[w] : Send(w, Request("login", u))
  /\ UNCHANGED <<account, owner, session, gui, changes, history>>

CloseWindow(w) ==
  /\ job[w] = None /\ signed[w] # None
  /\ session' = [session EXCEPT ![w] = None] /\ signed' = [signed EXCEPT ![w] = None]
  /\ roster' = [roster EXCEPT ![w] = None] /\ wizard' = [wizard EXCEPT ![w] = None]
  /\ late' = late \ {w}
  /\ UNCHANGED <<account, owner, job, changes, strays>>

\* The Admin Tool opens for an admin, fetches the roster and does it again.
FetchRoster(w) ==
  /\ session[w] # None /\ session[w].admin
  /\ roster' = [roster EXCEPT ![w] = account]
  /\ UNCHANGED <<account, owner, session, signed, wizard, job, changes, history>>

AsShown(w, us) == {<<u, roster[w][u]>> : u \in us}

\* Which buttons an account's panel has, and which of them are enabled.
NotSelf(w, u)  == u # signed[w]
MayTouchAny(w, u) == TRUE
MayTouch(w, u) == roster[w][u].admin => signed[w] = Root
Enabled(w, op, u) ==
  LET a == roster[w][u] IN
  CASE op = "suspend"   -> a.status = "ACTIVE" /\ NotSelf(w, u) /\ MayTouch(w, u)
    [] op = "reinstate" -> a.status = "SUSPENDED" /\ MayTouch(w, u)
    [] op = "grant"     -> ~a.admin /\ a.status # "DISENROLLED"
    [] op = "revoke"    -> a.admin /\ NotSelf(w, u) /\ MayTouch(w, u)
    [] op = "reset"     -> MayTouch(w, u)
    [] op = "disenroll" -> a.status # "DISENROLLED" /\ NotSelf(w, u) /\ MayTouch(w, u)
Listed(w, u) == roster[w] # None /\ roster[w][u] # None

Act(w, op, u) ==
  /\ op # "disenroll" /\ wizard[w] = None
  /\ Listed(w, u) /\ Enabled(w, op, u)
  /\ changes < MaxChange /\ changes' = changes + 1
  /\ Send(w, [Request(op, u) EXCEPT !.on = AsShown(w, {u})])
  /\ UNCHANGED <<account, owner, session, gui, history>>

Enroll(w, u, admin) ==
  /\ roster[w] # None /\ wizard[w] = None
  /\ changes < MaxChange /\ changes' = changes + 1
  /\ Send(w, [Request("create", u) EXCEPT !.admin = admin])
  /\ UNCHANGED <<account, owner, session, gui, history>>

\* The disenrollment, from an account's panel or the ownership transfer, which
\* names a destination of its own; the first candidate is preset without one.
Candidates(w, u) ==
  {c \in User \ {u} : /\ roster[w][c] # None
                      /\ ~roster[w][c].admin /\ roster[w][c].status = "ACTIVE"}
StartDisenroll(w, u) ==
  /\ wizard[w] = None /\ job[w] = None
  /\ Listed(w, u) /\ Enabled(w, "disenroll", u)
  /\ \E d \in IF Candidates(w, u) = {} THEN {None} ELSE Candidates(w, u) :
       wizard' = [wizard EXCEPT ![w] = [of |-> u, to |-> d, on |-> AsShown(w, {u, d} \ {None})]]
  /\ UNCHANGED <<account, owner, session, signed, roster, job, changes, history>>
ChooseDestination(w) ==
  /\ wizard[w] # None
  /\ \E d \in Candidates(w, wizard[w].of) :
       wizard' = [wizard EXCEPT ![w] =
         [of |-> wizard[w].of, to |-> d,
          on |-> {p \in wizard[w].on : p[1] = wizard[w].of} \cup AsShown(w, {d})]]
  /\ UNCHANGED <<account, owner, session, signed, roster, job, changes, history>>
ConfirmDisenroll(w) ==
  /\ wizard[w] # None /\ wizard[w].to # None
  /\ changes < MaxChange /\ changes' = changes + 1
  /\ Send(w, [Request("disenroll", wizard[w].of) EXCEPT !.to = wizard[w].to, !.on = wizard[w].on])
  /\ UNCHANGED <<account, owner, session, gui, history>>
LeaveWizard(w) ==
  /\ wizard[w] # None
  /\ wizard' = [wizard EXCEPT ![w] = None]
  /\ UNCHANGED <<account, owner, session, signed, roster, job, changes, history>>

\* The user commits an edit of a node.
CommitEdit(w, n) ==
  /\ signed[w] # None
  /\ Send(w, Request("commit", n))
  /\ UNCHANGED <<account, owner, session, gui, changes, history>>

-----------------------------------------------------------------------------
\* The Backend.

Step(w, s) == job[w] # None /\ job[w].step = s
Answer(w)  == job' = [job EXCEPT ![w] = None]
\* The requests of u, and those that give it something, have crossed its closing.
Crossed(j, w, u) ==
  [v \in Window |-> IF v # w /\ j[v] # None /\ u \in {j[v].by, j[v].to}
                    THEN [j[v] EXCEPT !.crossed = TRUE] ELSE j[v]]

\* The middleware finds the session, and the handler refuses who is no admin.
Known(w)   == session[w] # None
Allowed(w) == session[w] # None /\ session[w].admin
\* A session that is there only because a closing is not over, or was crossed.
Doubtful(w) == w \in late \/ (session[w].user # Root /\ account[session[w].user].status # "ACTIVE")

\* handleLogin reads the account ...
ReadLogin(w) ==
  /\ Step(w, "sent") /\ job[w].op = "login"
  /\ LET u == job[w].of IN
     IF u = Root \/ (account[u] # None /\ account[u].status = "ACTIVE")
     THEN job' = [job EXCEPT ![w].step = "read", ![w].by = u,
                             ![w].admin = (u = Root \/ account[u].admin)]
     ELSE Answer(w)
  /\ UNCHANGED <<account, owner, session, gui, changes, history>>
\* ... and then creates the session.
CreateSession(w) ==
  /\ Step(w, "read") /\ job[w].op = "login"
  /\ session' = [session EXCEPT ![w] = [user |-> job[w].by, admin |-> job[w].admin]]
  /\ signed' = [signed EXCEPT ![w] = job[w].by]
  /\ late' = IF job[w].crossed THEN late \cup {w} ELSE late
  /\ Answer(w)
  /\ UNCHANGED <<account, owner, roster, wizard, changes, strays>>

CreateUser(w) ==
  /\ Step(w, "sent") /\ job[w].op = "create"
  /\ account' = IF Allowed(w) /\ account[job[w].of] = None
                THEN [account EXCEPT ![job[w].of] = [status |-> "ACTIVE", admin |-> job[w].admin]]
                ELSE account
  /\ Answer(w)
  /\ UNCHANGED <<owner, session, gui, changes, history>>

\* handleUpdateUser reads whether the account is an admin's, and judges by that.
Permitted(w) ==
  LET u == job[w].of IN
  /\ Allowed(w) /\ account[u] # None
  /\ job[w].op \in {"suspend", "disenroll"} =>
       /\ account[u].admin => session[w].user = Root
       /\ u # session[w].user
ReadTarget(w) ==
  /\ Step(w, "sent") /\ job[w].op \in Operation
  /\ IF Permitted(w)
     THEN job' = [job EXCEPT ![w].step = "read", ![w].by = session[w].user]
     ELSE Answer(w)
  /\ UNCHANGED <<account, owner, session, gui, changes, history>>

Apply(w) ==
  LET u == job[w].of IN
  /\ Step(w, "read") /\ job[w].op \in {"reinstate", "grant", "revoke", "reset"}
  /\ account' = CASE job[w].op = "reinstate" -> [account EXCEPT ![u].status = "ACTIVE"]
                  [] job[w].op = "grant"     -> [account EXCEPT ![u].admin = TRUE]
                  [] job[w].op = "revoke"    -> [account EXCEPT ![u].admin = FALSE]
                  [] job[w].op = "reset"     -> account
  /\ Answer(w)
  /\ UNCHANGED <<owner, session, gui, changes, history>>

SuspendOnly(w) ==
  /\ Step(w, "read") /\ job[w].op = "suspend"
  /\ account' = [account EXCEPT ![job[w].of].status = "SUSPENDED"]
  /\ Answer(w)
  /\ UNCHANGED <<owner, session, gui, changes, history>>
Suspend(w) ==
  /\ Step(w, "read") /\ job[w].op = "suspend"
  /\ account' = [account EXCEPT ![job[w].of].status = "SUSPENDED"]
  /\ job' = Crossed([job EXCEPT ![w].step = "revoke"], w, job[w].of)
  /\ UNCHANGED <<owner, session, gui, changes, history>>

\* disenrollUser, one transaction: the destination is checked; the nodes the
\* account owns by then are found, read without a lock, and given to it, whoever
\* owns them when they are locked; and the account is closed.
ReceivesInactive(u) == account[u] # None /\ ~account[u].admin
Receives(u) == account[u] # None /\ ~account[u].admin /\ account[u].status = "ACTIVE"
CheckDestination(w) ==
  /\ Step(w, "read") /\ job[w].op = "disenroll"
  /\ IF Receives(job[w].to)
     THEN job' = [job EXCEPT ![w].step = "checked"]
     ELSE Answer(w)
  /\ UNCHANGED <<account, owner, session, gui, changes, history>>
\* The nodes written are locked until the transaction ends.
Held(n) == \E v \in Window : Step(v, "moved") /\ n \in job[v].moving
Closing(u) == \E v \in Window : (Step(v, "found") \/ Step(v, "moved")) /\ job[v].of = u
FindNodes(w) ==
  /\ Step(w, "checked")
  /\ job' = [job EXCEPT ![w].step = "found", ![w].moving = {n \in Node : owner[n] = job[w].of}]
  /\ UNCHANGED <<account, owner, session, gui, changes, history>>
MoveNodes(w) ==
  /\ Step(w, "found") /\ \A n \in job[w].moving : ~Held(n)
  /\ job' = [job EXCEPT ![w].step = "moved"]
  /\ UNCHANGED <<account, owner, session, gui, changes, history>>
Close(w) ==
  /\ Step(w, "moved")
  /\ owner' = [n \in Node |-> IF n \in job[w].moving THEN job[w].to ELSE owner[n]]
  /\ account' = [account EXCEPT ![job[w].of].status = "DISENROLLED"]
  /\ job' = Crossed([job EXCEPT ![w].step = "revoke", ![w].moving = {}], w, job[w].of)
  /\ strays' = IF job[w].crossed \/ Closing(job[w].to) THEN strays \cup job[w].moving ELSE strays \ job[w].moving
  /\ UNCHANGED <<session, gui, changes, late>>

RevokeUser(w) ==
  /\ Step(w, "revoke")
  /\ session' = [v \in Window |->
       IF session[v] # None /\ session[v].user = job[w].of THEN None ELSE session[v]]
  /\ late' = {v \in late : session'[v] # None}
  /\ wizard' = [wizard EXCEPT ![w] = None]
  /\ Answer(w)
  /\ UNCHANGED <<account, owner, signed, roster, changes, strays>>

\* executeCommit reads the node, then writes it and, in the same transaction, a
\* message to the owner it read.  An ADMIN does not become an owner.
ReadNode(w) ==
  /\ Step(w, "sent") /\ job[w].op = "commit"
  /\ IF Known(w)
     THEN job' = [job EXCEPT ![w].step = "read", ![w].by = session[w].user,
                             ![w].admin = session[w].admin, ![w].seen = owner[job[w].of],
                             ![w].crossed = @ \/ Doubtful(w)]
     ELSE Answer(w)
  /\ UNCHANGED <<account, owner, session, gui, changes, history>>
WriteNode(w) ==
  LET n == job[w].of
      takes == job[w].seen # job[w].by /\ (~job[w].admin \/ job[w].by = Root) IN
  /\ Step(w, "read") /\ job[w].op = "commit" /\ ~Held(n)
  /\ IF takes
     THEN /\ owner' = [owner EXCEPT ![n] = job[w].by]
          /\ strays' = IF job[w].crossed \/ Closing(job[w].by) THEN strays \cup {n} ELSE strays \ {n}
     ELSE UNCHANGED <<owner, strays>>
  /\ Answer(w)
  /\ UNCHANGED <<account, session, gui, changes, late>>

\* Sessions end after a day without use; the Backend keeps them in memory only.
Expire(w) ==
  /\ session[w] # None /\ job[w] = None
  /\ session' = [session EXCEPT ![w] = None] /\ late' = late \ {w}
  /\ UNCHANGED <<account, owner, gui, job, changes, strays>>
Restart ==
  /\ \E w \in Window : session[w] # None \/ job[w] # None
  /\ session' = [w \in Window |-> None] /\ late' = {}
  /\ job' = [w \in Window |-> None]
  /\ UNCHANGED <<account, owner, gui, changes, strays>>

Serve(w) ==
  \/ ReadLogin(w) \/ CreateSession(w) \/ CreateUser(w)
  \/ ReadTarget(w) \/ Apply(w) \/ Suspend(w)
  \/ CheckDestination(w) \/ FindNodes(w) \/ MoveNodes(w) \/ Close(w) \/ RevokeUser(w)
  \/ ReadNode(w) \/ WriteNode(w)
AccountsNext ==
  \/ \E w \in Window :
       \/ SignIn(w) \/ CloseWindow(w) \/ FetchRoster(w)
       \/ \E u \in User : \/ StartDisenroll(w, u)
                          \/ \E op \in Operation : Act(w, op, u)
                          \/ \E admin \in BOOLEAN : Enroll(w, u, admin)
       \/ ChooseDestination(w) \/ ConfirmDisenroll(w) \/ LeaveWizard(w)
       \/ \E n \in Node : CommitEdit(w, n)
       \/ Serve(w) \/ Expire(w)
  \/ Restart
AccountsSpec == AccountsInit /\ [][AccountsNext]_vars

-----------------------------------------------------------------------------
Revoking(u) == \E v \in Window : Step(v, "revoke") /\ job[v].of = u

\* An account that is suspended or disenrolled has no session, but while its
\* sessions are being dropped and for a login that had read it before
\* (auth.go handleLogin, admin.go handleUpdateUser).
SessionsOfActive ==
  \A w \in Window : session[w] # None /\ session[w].user \in User =>
    LET u == session[w].user IN
    account[u].status = "ACTIVE" \/ Revoking(u) \/ w \in late

\* A closed account owns nothing: all its nodes are handed over, but those a
\* request gives to it that was under way when it was closed (admin.go
\* disenrollUser, commit.go).
ClosedOwnNothing ==
  \A n \in Node :
    owner[n] \in User /\ account[owner[n]].status = "DISENROLLED" => n \in strays

Asked(w) == job[w] # None /\ job[w].op \in Operation
\* What an enabled button asks for is refused only when an account it is about
\* is not as the roster showed it, or the window's session is over (AdminTool.tsx
\* gate, admin.go handleUpdateUser).
EnabledIsAccepted ==
  [][\A w \in Window :
       Asked(w) /\ job[w].step \in {"sent", "read"} /\ job'[w] = None /\ session' # [v \in Window |-> None]
       => \/ session[w] = None
          \/ job[w].step = "read" /\ job[w].op # "disenroll"
          \/ \E p \in job[w].on : p[2] # account[p[1]]]_vars

-----------------------------------------------------------------------------
\* Why it holds: what every step keeps of the accounts, the windows and the
\* requests under way.
AccountsTypeOK ==
  /\ account \in Listing /\ owner \in [Node -> Name]
  /\ session \in [Window -> Session \cup {None}] /\ signed \in [Window -> Name \cup {None}]
  /\ roster \in [Window -> Listing \cup {None}] /\ wizard \in [Window -> Wizard \cup {None}]
  /\ job \in [Window -> Job \cup {None}] /\ changes \in Nat
  /\ late \subseteq Window /\ strays \subseteq Node

\* What a request is about, and how far it can be.
Shaped(w) == job[w] # None =>
  LET j == job[w] IN
  /\ j.op = "login" => j.of \in Name /\ j.step \in {"sent", "read"}
  /\ j.op = "create" => j.of \in User /\ j.step = "sent"
  /\ j.op = "commit" => j.of \in Node /\ j.step \in {"sent", "read"}
  /\ j.op \in Operation => j.of \in User /\ (j.step # "sent" => account[j.of] # None)
  /\ j.step # "sent" => j.by \in Name
  /\ j.step \in {"checked", "found", "moved"} => j.op = "disenroll"
  /\ j.step = "revoke" => j.op \in {"suspend", "disenroll"}
  /\ IF j.op = "disenroll" THEN j.to \in User \ {j.of} ELSE j.to = None

\* A window is signed in before it has a session, a roster or anything to ask,
\* and only an admin's has a roster.
Desk(w) ==
  /\ signed[w] = None => session[w] = None /\ roster[w] = None /\ wizard[w] = None
  /\ job[w] # None => (signed[w] = None <=> job[w].op = "login")
  /\ wizard[w] # None \/ (job[w] # None /\ job[w].op \in Operation) => roster[w] # None
  /\ session[w] # None => /\ session[w].user = signed[w]
                          /\ session[w].user \in User => account[session[w].user] # None
                          /\ roster[w] # None => session[w].admin

\* What is asked for was offered, as the accounts were shown.
Offered(w, op, u, to, on) ==
  /\ \E a \in Account :
       /\ <<u, a>> \in on
       /\ op \in {"suspend", "disenroll"} => u # signed[w] /\ (a.admin => signed[w] = Root)
  /\ to # None =>
       \E b \in Account : <<to, b>> \in on /\ ~b.admin /\ b.status = "ACTIVE" /\ to # u
AsOffered(w) ==
  /\ job[w] # None /\ job[w].op \in Operation =>
       Offered(w, job[w].op, job[w].of, job[w].to, job[w].on)
  /\ wizard[w] # None => Offered(w, "disenroll", wizard[w].of, wizard[w].to, wizard[w].on)

\* Whom a request will sign in, make an owner or give data to is active still, or
\* the request was crossed by its closing.
Relied(j) == IF j.step = "read" /\ j.op \in {"login", "commit"} THEN {j.by}
             ELSE IF j.step \in {"checked", "found", "moved"} THEN {j.to} ELSE {}
InOrder(w) == job[w] # None =>
  \A u \in Relied(job[w]) \cap User :
    account[u] # None /\ (account[u].status = "ACTIVE" \/ job[w].crossed)

\* A disenrollment has found all that its account owns, but the strays.
AllMoved(w) == Step(w, "found") \/ Step(w, "moved") =>
  \A n \in Node : owner[n] = job[w].of => n \in job[w].moving \cup strays

AccountsInv ==
  /\ AccountsTypeOK
  /\ \A w \in Window : Shaped(w) /\ Desk(w) /\ AsOffered(w) /\ InOrder(w) /\ AllMoved(w)
  /\ SessionsOfActive /\ ClosedOwnNothing

-----------------------------------------------------------------------------
\* Who loses a node to another user's commit is told of it: the message goes to
\* the owner the commit replaces.
OwnerIsTold ==
  [][\A w \in Window : job[w] # None /\ job[w].op = "commit" /\ owner' # owner /\ job'[w] = None
       => owner[job[w].of] = job[w].seen]_vars
=============================================================================
