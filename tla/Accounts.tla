------------------------------ MODULE Accounts ------------------------------
(***************************************************************************)
(* Console accounts: signing in with a throttle, sessions, changing and    *)
(* resetting passwords, creating, demoting and removing users.             *)
(* console/{auth,account,passwords,users}.go, db/{auth,users,passwords}.go *)
(* and the user command of cmd/s3d.                                        *)
(*                                                                         *)
(* Every statement commits on its own: a handler is as many steps as it    *)
(* has statements whose order others can see.  A password is the number of *)
(* the change that set it, 0 is none.  A statement that counts in a        *)
(* subquery counts in its snapshot, and writes when it has the row's lock. *)
(***************************************************************************)
EXTENDS Integers, FiniteSets

CONSTANTS
    Users,          \* accounts
    Root,           \* the account of ADMIN_EMAIL
    Slots,          \* rows of sessions
    Clients,        \* requests in flight, and runs of the command
    Limit,          \* loginFailureLimitPerEmail
    MaxPassword,    \* bound: how often a password is set
    None

ASSUME AccountsAssumption == Root \in Users /\ None \notin Users /\ None \notin Slots
ASSUME FiniteAssumption == IsFiniteSet(Users) /\ IsFiniteSet(Clients)
ASSUME NumbersAssumption == Limit \in Nat \ {0} /\ MaxPassword \in Nat

VARIABLES
    role,           \* users.role, "none" without a row
    password,       \* users.password_hash
    must,           \* users.must_change_password
    session,        \* session[s]: a live session, with the password it was opened with
    failures,       \* failed login_attempts of an address in the window, up to Limit
    guesses,        \* history: wrong passwords verified since failures were last cleared
    pc, who,        \* a request's progress and the account it is about
    typed,          \* the password it was given
    slot,           \* the session it was authenticated with
    force,          \* the flag it sets, or the role
    many            \* its snapshot showed more than one administrator

tables == <<role, password, must, session, failures>>
locals == <<who, typed, slot, force, many>>
vars == <<tables, guesses, pc, locals>>

Roles == {"ADMIN", "MEMBER"}
Passwords == 0..MaxPassword
Free == [user |-> None, password |-> 0, late |-> FALSE]

TypeOK ==
    /\ role \in [Users -> Roles \cup {"none"}]
    /\ password \in [Users -> Passwords]
    /\ must \in [Users -> BOOLEAN]
    /\ session \in [Slots -> [user : Users \cup {None}, password : Passwords, late : BOOLEAN]]
    /\ failures \in [Users -> 0..Limit]
    /\ guesses \in [Users -> Nat]
    /\ pc \in [Clients -> {"idle", "verify", "wrong", "right", "session", "change", "others",
                           "reset", "all", "role", "remove", "removing", "create", "initial"}]
    /\ who \in [Clients -> Users \cup {None}]
    /\ typed \in [Clients -> Passwords]
    /\ slot \in [Clients -> Slots \cup {None}]
    /\ force \in [Clients -> BOOLEAN]
    /\ many \in [Clients -> BOOLEAN]

\* The state after the first start: EnsureAdmin, and nobody can sign in yet.
Init ==
    /\ role = [u \in Users |-> IF u = Root THEN "ADMIN" ELSE "none"]
    /\ password = [u \in Users |-> 0]
    /\ must = [u \in Users |-> FALSE]
    /\ session = [s \in Slots |-> Free]
    /\ failures = [u \in Users |-> 0]
    /\ guesses = [u \in Users |-> 0]
    /\ pc = [c \in Clients |-> "idle"]
    /\ who = [c \in Clients |-> None]
    /\ typed = [c \in Clients |-> 0]
    /\ slot = [c \in Clients |-> None]
    /\ force = [c \in Clients |-> FALSE]
    /\ many = [c \in Clients |-> FALSE]

-----------------------------------------------------------------------------
Exists(u) == role[u] # "none"
Admins == {u \in Users : role[u] = "ADMIN"}
Live(s) == session[s] # Free
Goto(c, next) == pc' = [pc EXCEPT ![c] = next]

Finish(c) ==
    /\ Goto(c, "idle")
    /\ who' = [who EXCEPT ![c] = None]
    /\ typed' = [typed EXCEPT ![c] = 0]
    /\ slot' = [slot EXCEPT ![c] = None]
    /\ force' = [force EXCEPT ![c] = FALSE]
    /\ many' = [many EXCEPT ![c] = FALSE]

\* requireSession: the session is live, and its user need not change the
\* password first.  requireAdmin asks for the role, too.
Allowed(s) == Live(s) /\ ~must[session[s].user]
AdminSession(s) == Allowed(s) /\ session[s].user \in Admins

Revoked(ss) == [s \in Slots |-> IF s \in ss THEN Free ELSE session[s]]
SessionsOf(u) == {s \in Slots : session[s].user = u}

\* The password is set and carries the flag; an account that is gone is an error.
SetPassword(u, flag) ==
    /\ password' = [password EXCEPT ![u] = @ + 1]
    /\ must' = [must EXCEPT ![u] = flag]

-----------------------------------------------------------------------------
(* Signing in and out.                                                     *)

\* Mistake: nobody counts.
ThrottledNever(u) == FALSE

\* CountRecentFailures; too many are an answer of their own, recorded as one more.
Throttled(u) == failures[u] >= Limit

Login(c, u, p) ==
    /\ pc[c] = "idle" /\ ~Throttled(u)
    /\ Goto(c, "verify")
    /\ who' = [who EXCEPT ![c] = u]
    /\ typed' = [typed EXCEPT ![c] = p]
    /\ UNCHANGED <<tables, guesses, slot, force, many>>

\* VerifyPassword: an unknown address and an unset password are wrong as well.
VerifyPassword(c) ==
    /\ pc[c] = "verify"
    /\ LET u == who[c]
           right == Exists(u) /\ typed[c] # 0 /\ typed[c] = password[u]
       IN  /\ Goto(c, IF right THEN "right" ELSE "wrong")
           /\ guesses' = [guesses EXCEPT ![u] = IF right THEN @ ELSE @ + 1]
    /\ UNCHANGED <<tables, locals>>

\* Mistake: what is recorded has no bound.
RecordAttemptAlways(c) ==
    /\ pc[c] = "wrong"
    /\ failures' = [failures EXCEPT ![who[c]] = @ + 1]
    /\ Finish(c)
    /\ UNCHANGED <<role, password, must, session, guesses>>

RecordAttempt(c) ==
    /\ pc[c] = "wrong"
    /\ failures' = [failures EXCEPT ![who[c]] = IF @ < Limit THEN @ + 1 ELSE @]
    /\ Finish(c)
    /\ UNCHANGED <<role, password, must, session, guesses>>

ClearLoginFailures(c) ==
    /\ pc[c] = "right"
    /\ failures' = [failures EXCEPT ![who[c]] = 0]
    /\ guesses' = [guesses EXCEPT ![who[c]] = 0]
    /\ Goto(c, "session")
    /\ UNCHANGED <<role, password, must, session, locals>>

\* Mistake: the row of the session does not depend on that of the user.
CreateSessionAnyway(c) ==
    /\ pc[c] = "session"
    /\ \E s \in Slots :
         /\ ~Live(s) /\ \A x \in Clients : slot[x] # s
         /\ session' = [session EXCEPT ![s] =
              [user |-> who[c], password |-> typed[c], late |-> typed[c] # password[who[c]]]]
    /\ Finish(c)
    /\ UNCHANGED <<role, password, must, failures, guesses>>

\* startSession.  An account that is gone breaks the foreign key.
CreateSession(c) ==
    /\ pc[c] = "session"
    /\ LET u == who[c] IN
       \/ /\ ~Exists(u)
          /\ UNCHANGED session
       \/ \E s \in Slots :
            /\ Exists(u) /\ ~Live(s) /\ \A x \in Clients : slot[x] # s
            /\ session' = [session EXCEPT ![s] =
                 [user |-> u, password |-> typed[c], late |-> typed[c] # password[u]]]
    /\ Finish(c)
    /\ UNCHANGED <<role, password, must, failures, guesses>>

EndSession(s) ==
    /\ session' = Revoked({s})
    /\ UNCHANGED <<role, password, must, failures, guesses, pc, locals>>

\* Nothing is asked of a session that signs out.
SignOut(s) == Live(s) /\ EndSession(s)

\* RevokeSessionByID: s, of the same user, ends by way of session by.
RevokeSession(by, s) ==
    /\ Allowed(by) /\ session[s].user = session[by].user
    /\ EndSession(s)

\* The end of its time, idle or absolute.
Expire(s) == Live(s) /\ EndSession(s)

\* RevokeOtherSessions, asked for by the user.
EndOtherSessions(s) ==
    /\ Allowed(s)
    /\ session' = Revoked(SessionsOf(session[s].user) \ {s})
    /\ UNCHANGED <<role, password, must, failures, guesses, pc, locals>>

\* The window has moved beyond the failures.
WindowPasses(u) ==
    /\ failures[u] > 0
    /\ failures' = [failures EXCEPT ![u] = 0]
    /\ guesses' = [guesses EXCEPT ![u] = 0]
    /\ UNCHANGED <<role, password, must, session, pc, locals>>

-----------------------------------------------------------------------------
(* Passwords.                                                              *)

\* The owner gives the current password and a new one.
ChangePassword(c, s) ==
    /\ pc[c] = "idle" /\ Live(s)
    /\ password[session[s].user] # 0
    /\ Goto(c, "change")
    /\ who' = [who EXCEPT ![c] = session[s].user]
    /\ slot' = [slot EXCEPT ![c] = s]
    /\ UNCHANGED <<tables, guesses, typed, force, many>>

\* The session that changed the password counts as opened with the new one.
SetOwnPassword(c) ==
    /\ pc[c] = "change"
    /\ LET u == who[c] IN
       IF Exists(u)
       THEN /\ password[u] < MaxPassword
            /\ SetPassword(u, FALSE)
            /\ session' = [session EXCEPT ![slot[c]].password = IF Live(slot[c]) THEN password'[u] ELSE @]
            /\ Goto(c, "others") /\ UNCHANGED locals
       ELSE Finish(c) /\ UNCHANGED <<password, must, session>>
    /\ UNCHANGED <<role, failures, guesses>>

RevokeOthers(c) ==
    /\ pc[c] = "others"
    /\ session' = Revoked(SessionsOf(who[c]) \ {slot[c]})
    /\ Finish(c)
    /\ UNCHANGED <<role, password, must, failures, guesses>>

\* An administrator sets the password of another, who must change it; or the
\* command sets it, and nothing need be changed.
ResetPassword(c, u, flag) ==
    /\ pc[c] = "idle" /\ Exists(u)
    /\ flag => \E s \in Slots : AdminSession(s)
    /\ Goto(c, "reset")
    /\ who' = [who EXCEPT ![c] = u]
    /\ force' = [force EXCEPT ![c] = flag]
    /\ UNCHANGED <<tables, guesses, typed, slot, many>>

\* Mistake: the sessions stay.
SetResetOnly(c) ==
    /\ pc[c] = "reset"
    /\ IF Exists(who[c]) /\ password[who[c]] < MaxPassword
       THEN SetPassword(who[c], force[c]) ELSE UNCHANGED <<password, must>>
    /\ Finish(c)
    /\ UNCHANGED <<role, session, failures, guesses>>

SetReset(c) ==
    /\ pc[c] = "reset"
    /\ IF Exists(who[c])
       THEN /\ password[who[c]] < MaxPassword
            /\ SetPassword(who[c], force[c])
            /\ Goto(c, "all") /\ UNCHANGED locals
       ELSE Finish(c) /\ UNCHANGED <<password, must>>
    /\ UNCHANGED <<role, session, failures, guesses>>

RevokeAll(c) ==
    /\ pc[c] = "all"
    /\ session' = Revoked(SessionsOf(who[c]))
    /\ Finish(c)
    /\ UNCHANGED <<role, password, must, failures, guesses>>

-----------------------------------------------------------------------------
(* Users.                                                                  *)

\* A name without an account.  CreateUser takes an account that has appeared
\* since as it is; the password is set in any case, and no session ends then.
FindAbsent(c, u) ==
    /\ pc[c] = "idle" /\ ~Exists(u)
    /\ \E s \in Slots : AdminSession(s)
    /\ \A x \in Clients : who[x] = u => pc[x] \in {"verify", "wrong", "create"}
    /\ Goto(c, "create")
    /\ who' = [who EXCEPT ![c] = u]
    /\ UNCHANGED <<tables, guesses, typed, slot, force, many>>

CreateUser(c, r) ==
    /\ pc[c] = "create"
    /\ role' = [role EXCEPT ![who[c]] = IF @ = "none" THEN r ELSE @]
    /\ force' = [force EXCEPT ![c] = TRUE]
    /\ Goto(c, "initial")
    /\ UNCHANGED <<password, must, session, failures, guesses, who, typed, slot, many>>

SetInitialPassword(c) ==
    /\ pc[c] = "initial"
    /\ IF Exists(who[c])
       THEN /\ password[who[c]] < MaxPassword
            /\ SetPassword(who[c], force[c])
            /\ session' = [s \in Slots |-> IF s \in SessionsOf(who[c])
                               THEN [session[s] EXCEPT !.late = TRUE] ELSE session[s]]
       ELSE UNCHANGED <<password, must, session>>
    /\ Finish(c)
    /\ UNCHANGED <<role, failures, guesses>>

\* The row goes with its sessions.
Drop(u) ==
    /\ role' = [role EXCEPT ![u] = "none"]
    /\ password' = [password EXCEPT ![u] = 0]
    /\ must' = [must EXCEPT ![u] = FALSE]
    /\ session' = Revoked(SessionsOf(u))

\* SetUserRole begins: its snapshot is taken.
SetRole(c, u) ==
    /\ pc[c] = "idle" /\ \E s \in Slots : AdminSession(s)
    /\ Goto(c, "role")
    /\ who' = [who EXCEPT ![c] = u]
    /\ many' = [many EXCEPT ![c] = Cardinality(Admins) > 1]
    /\ UNCHANGED <<tables, guesses, typed, slot, force>>

\* Mistake: anyone can be demoted.
ChangeRoleUnguarded(c, r) ==
    /\ pc[c] = "role"
    /\ role' = [role EXCEPT ![who[c]] = IF Exists(who[c]) THEN r ELSE @]
    /\ Finish(c)
    /\ UNCHANGED <<password, must, session, failures, guesses>>

\* It has the row: the role is read again, the count is not.
ChangeRole(c, r) ==
    /\ pc[c] = "role"
    /\ LET u == who[c]
           mayChange == r = "ADMIN" \/ role[u] # "ADMIN" \/ many[c]
       IN  role' = [role EXCEPT ![u] = IF Exists(u) /\ mayChange THEN r ELSE @]
    /\ Finish(c)
    /\ UNCHANGED <<password, must, session, failures, guesses>>

\* handleDeleteUser: never oneself; the sessions end first.
RemoveUser(c, u) ==
    /\ pc[c] = "idle"
    /\ \E s \in Slots : AdminSession(s) /\ session[s].user # u
    /\ session' = Revoked(SessionsOf(u))
    /\ Goto(c, "remove")
    /\ who' = [who EXCEPT ![c] = u]
    /\ UNCHANGED <<role, password, must, failures, guesses, typed, slot, force, many>>

\* DeleteUser begins: its snapshot is taken.
CountAdmins(c) ==
    /\ pc[c] = "remove"
    /\ many' = [many EXCEPT ![c] = Cardinality(Admins) > 1]
    /\ Goto(c, "removing")
    /\ UNCHANGED <<tables, guesses, who, typed, slot, force>>

DeleteUser(c) ==
    /\ pc[c] = "removing"
    /\ LET u == who[c] IN
       IF Exists(u) /\ (role[u] # "ADMIN" \/ many[c]) THEN Drop(u)
       ELSE UNCHANGED <<role, password, must, session>>
    /\ Finish(c)
    /\ UNCHANGED <<failures, guesses>>

\* A process starts: EnsureAdmin creates or promotes Root.  A request about an
\* account of that address that is gone knows it by another id.
EnsureAdmin ==
    /\ role[Root] # "ADMIN"
    /\ Exists(Root) \/ \A c \in Clients : who[c] # Root
    /\ role' = [role EXCEPT ![Root] = "ADMIN"]
    /\ UNCHANGED <<password, must, session, failures, guesses, pc, locals>>

-----------------------------------------------------------------------------
ClientStep(c) ==
    \/ VerifyPassword(c) \/ RecordAttempt(c) \/ ClearLoginFailures(c) \/ CreateSession(c)
    \/ SetOwnPassword(c) \/ RevokeOthers(c) \/ SetReset(c) \/ RevokeAll(c)
    \/ SetInitialPassword(c) \/ CountAdmins(c) \/ DeleteUser(c)
    \/ \E r \in Roles : CreateUser(c, r) \/ ChangeRole(c, r)
    \/ \E s \in Slots : ChangePassword(c, s)
    \/ \E u \in Users :
         \/ \E p \in {0, password[u]} : Login(c, u, p)
         \/ \E flag \in BOOLEAN : ResetPassword(c, u, flag)
         \/ FindAbsent(c, u) \/ SetRole(c, u) \/ RemoveUser(c, u)

Next ==
    \/ EnsureAdmin
    \/ \E c \in Clients : ClientStep(c)
    \/ \E s \in Slots :
        \/ SignOut(s) \/ Expire(s) \/ EndOtherSessions(s)
        \/ \E by \in Slots : RevokeSession(by, s)
    \/ \E u \in Users : WindowPasses(u)

Spec == Init /\ [][Next]_vars

-----------------------------------------------------------------------------
(* Properties.                                                             *)

\* Once a change or a reset of a password is answered, no session of the account
\* is left that was opened with an older one, but one whose sign-in had been
\* verified before the change and was completed after it, or that was opened
\* before the creation of its account was done (RevokeUserSessions,
\* RevokeOtherSessions).
Changing(u) == \E c \in Clients : who[c] = u /\ pc[c] \in {"others", "all", "initial"}
OldSessionsEnd ==
    \A s \in Slots : LET u == session[s].user IN
        Live(s) /\ ~Changing(u) => session[s].password = password[u] \/ session[s].late

\* A live session is of an account that exists: removing a user leaves nothing
\* signed in, whatever sign-in is in progress.
LiveSessionsHaveUsers == \A s \in Slots : Live(s) => Exists(session[s].user)

\* The throttle bounds the wrong passwords tried at an account in one window,
\* but for the attempts that were counted before others were recorded.
BoundedGuesses == \A u \in Users : guesses[u] <= Limit + Cardinality(Clients) - 1
=============================================================================
