--------------------------- MODULE AccountsProofs ---------------------------
(***************************************************************************)
(* Proofs about Accounts.  A handler is several statements, and between    *)
(* them the tables need not agree: the invariant below says who is about   *)
(* to put right what does not.                                             *)
(***************************************************************************)
EXTENDS AccountsRaces, FiniteSetTheorems, TLAPS

\* A request knows its account.
Named == \A c \in Clients : pc[c] # "idle" => who[c] \in Users

\* The session a password is changed by stays that of its user: its row is not
\* used again before the request ends.
SlotsKept ==
    \A c \in Clients : pc[c] \in {"change", "others"} =>
        slot[c] \in Slots /\ (Live(slot[c]) => session[slot[c]].user = who[c])

\* Live sessions are of accounts that exist.
Accounted == \A s \in Slots : Live(s) => session[s].user \in Users /\ Exists(session[s].user)

\* Request c will end session s, or mark it as one that was opened too early.
Ends(c, s) ==
    /\ who[c] = session[s].user
    /\ pc[c] \in {"all", "initial"} \/ (pc[c] = "others" /\ slot[c] # s)

\* A session opened with an older password is one that some request is about to end.
Covered ==
    \A s \in Slots : Live(s) =>
        \/ session[s].password = password[session[s].user]
        \/ session[s].late
        \/ \E c \in Clients : Ends(c, s)

\* Wrong passwords are recorded, or about to be, as long as the window has room;
\* and those being verified still fit under the bound.
Verifying(u) == {c \in Clients : pc[c] = "verify" /\ who[c] = u}
Recording(u) == {c \in Clients : pc[c] = "wrong" /\ who[c] = u}
Throttle ==
    \A u \in Users :
        /\ failures[u] < Limit => guesses[u] <= failures[u] + Cardinality(Recording(u))
        /\ guesses[u] + Cardinality(Verifying(u)) <= Limit + Cardinality(Clients) - 1

\* The inductive invariant of Spec.
IInv ==
    /\ TypeOK
    /\ Named
    /\ SlotsKept
    /\ Accounted
    /\ Covered
    /\ Throttle

\* What a snapshot has shown is still so for a statement that nobody has overtaken.
CountsHold ==
    \A c \in Clients : Counting(c) /\ many[c] /\ c \notin overtaken =>
        \E a, b \in Admins : a # b

-----------------------------------------------------------------------------
(* Counting attempts.                                                      *)

\* There are finitely many attempts.
LEMMA AttemptsFinite ==
    ASSUME NEW u
    PROVE  /\ IsFiniteSet(Verifying(u)) /\ IsFiniteSet(Recording(u)) /\ Cardinality(Clients) \in Nat
           /\ Cardinality(Verifying(u)) \in Nat /\ Cardinality(Recording(u)) \in Nat
           /\ Cardinality(Verifying(u)) + Cardinality(Recording(u)) <= Cardinality(Clients)
<1>1. Verifying(u) \subseteq Clients /\ Recording(u) \subseteq Clients
  BY DEF Verifying, Recording
<1>2. /\ IsFiniteSet(Verifying(u)) /\ IsFiniteSet(Recording(u))
      /\ Verifying(u) \cup Recording(u) \in SUBSET Clients
  BY <1>1, FiniteAssumption, FS_Subset
<1>3. Verifying(u) \cap Recording(u) = {}
  BY DEF Verifying, Recording
<1>4. Cardinality(Verifying(u) \cup Recording(u))
        = Cardinality(Verifying(u)) + Cardinality(Recording(u)) - Cardinality({})
  BY <1>2, <1>3, FS_Union
<1>5. Cardinality(Verifying(u) \cup Recording(u)) <= Cardinality(Clients)
  BY <1>2, FiniteAssumption, FS_Subset
<1>6. Cardinality({}) = 0
  BY FS_EmptySet
<1>7. /\ Cardinality(Verifying(u)) \in Nat /\ Cardinality(Recording(u)) \in Nat
      /\ Cardinality(Clients) \in Nat
  BY <1>2, FiniteAssumption, FS_CardinalityType
<1> QED BY <1>2, <1>4, <1>5, <1>6, <1>7

\* A step of a request that neither is an attempt nor becomes one leaves the
\* throttle alone.
LEMMA ThrottleKept ==
    ASSUME Throttle, NEW c \in Clients, UNCHANGED <<failures, guesses>>,
           \A x \in Clients \ {c} : pc'[x] = pc[x] /\ who'[x] = who[x],
           pc[c] \notin {"verify", "wrong"}, pc'[c] \notin {"verify", "wrong"}
    PROVE  Throttle'
<1>1. \A u \in Users : Verifying(u)' = Verifying(u) /\ Recording(u)' = Recording(u)
  BY DEF Verifying, Recording
<1> QED BY <1>1 DEF Throttle

\* When the failures of an account are forgotten, so are the guesses, and there
\* is room for all attempts under way.
LEMMA ThrottleCleared ==
    ASSUME TypeOK, Throttle, NEW u \in Users,
           failures' = [failures EXCEPT ![u] = 0], guesses' = [guesses EXCEPT ![u] = 0],
           \A v \in Users : Verifying(v)' = Verifying(v) /\ Recording(v)' = Recording(v)
    PROVE  Throttle'
<1> SUFFICES ASSUME NEW v \in Users
             PROVE  /\ failures'[v] < Limit => guesses'[v] <= failures'[v] + Cardinality(Recording(v)')
                    /\ guesses'[v] + Cardinality(Verifying(v)') <= Limit + Cardinality(Clients) - 1
  BY DEF Throttle
<1>1. CASE v = u
  BY <1>1, AttemptsFinite, NumbersAssumption DEF TypeOK
<1>2. CASE v # u
  BY <1>2 DEF TypeOK, Throttle
<1> QED BY <1>1, <1>2

\* An attempt that begins finds room.
LEMMA RoomForOneMore ==
    ASSUME NEW u, NEW c \in Clients, c \notin Verifying(u) \cup Recording(u)
    PROVE  Cardinality(Verifying(u)) + Cardinality(Recording(u)) <= Cardinality(Clients) - 1
<1>1. Verifying(u) \subseteq Clients \ {c} /\ Recording(u) \subseteq Clients \ {c}
  BY DEF Verifying, Recording
<1>2. /\ IsFiniteSet(Clients \ {c})
      /\ Cardinality(Clients \ {c}) = Cardinality(Clients) - 1
  BY FiniteAssumption, FS_RemoveElement
<1>3. Verifying(u) \cap Recording(u) = {}
  BY DEF Verifying, Recording
<1>4. Cardinality(Verifying(u) \cup Recording(u))
        = Cardinality(Verifying(u)) + Cardinality(Recording(u)) - Cardinality({})
  BY <1>3, AttemptsFinite, FS_Union
<1>5. Cardinality(Verifying(u) \cup Recording(u)) <= Cardinality(Clients \ {c})
  BY <1>1, <1>2, FS_Subset
<1>6. Cardinality({}) = 0
  BY FS_EmptySet
<1> QED BY <1>2, <1>4, <1>5, <1>6, AttemptsFinite

-----------------------------------------------------------------------------
(* Every action preserves the invariant.                                   *)

\* While no row of the tables changes but those of the throttle, a request that
\* begins, goes on or ends without the duty to end sessions leaves the rest of
\* the invariant as it is.
LEMMA LocalsOnly ==
    ASSUME IInv, NEW c \in Clients, UNCHANGED <<role, password, session>>,
           \A x \in Clients \ {c} : pc'[x] = pc[x] /\ who'[x] = who[x] /\ slot'[x] = slot[x],
           pc[c] \notin {"all", "initial", "others"},
           pc'[c] # "idle" => who'[c] \in Users,
           pc'[c] \in {"change", "others"} =>
               slot'[c] \in Slots /\ (Live(slot'[c]) => session[slot'[c]].user = who'[c])
    PROVE  Named' /\ SlotsKept' /\ Accounted' /\ Covered'
<1>1. Named' /\ SlotsKept'
  BY DEF IInv, Named, SlotsKept, Live
<1>2. Accounted'
  BY DEF IInv, Accounted, Live, Exists
<1>3. \A x \in Clients, s \in Slots : Ends(x, s) => Ends(x, s)'
  BY DEF Ends
<1>4. Covered'
  BY <1>3 DEF IInv, Covered, Live
<1> QED BY <1>1, <1>2, <1>4

\* A request to change a password keeps the session it came by.
LEMMA ChangePasswordStep ==
    ASSUME IInv, NEW c \in Clients, NEW s \in Slots, ChangePassword(c, s)
    PROVE  IInv'
<1> USE DEF ChangePassword, Goto, tables
<1>1. TypeOK'
  BY DEF IInv, TypeOK
<1>2. Named' /\ SlotsKept' /\ Accounted' /\ Covered'
  BY LocalsOnly DEF IInv, TypeOK, Named, Accounted
<1>3. Throttle'
  BY ThrottleKept DEF IInv, TypeOK
<1> QED BY <1>1, <1>2, <1>3 DEF IInv

\* A reset has not touched anything yet.
LEMMA ResetPasswordStep ==
    ASSUME IInv, NEW c \in Clients, NEW u \in Users, NEW flag \in BOOLEAN, ResetPassword(c, u, flag)
    PROVE  IInv'
<1> USE DEF ResetPassword, Goto, tables
<1>1. TypeOK'
  BY DEF IInv, TypeOK
<1>2. Named' /\ SlotsKept' /\ Accounted' /\ Covered'
  BY LocalsOnly DEF IInv, TypeOK, Named
<1>3. Throttle'
  BY ThrottleKept DEF IInv, TypeOK
<1> QED BY <1>1, <1>2, <1>3 DEF IInv

\* Nor has the creation of a user.
LEMMA FindAbsentStep ==
    ASSUME IInv, NEW c \in Clients, NEW u \in Users, FindAbsent(c, u)
    PROVE  IInv'
<1> USE DEF FindAbsent, Goto, tables
<1>1. TypeOK'
  BY DEF IInv, TypeOK
<1>2. Named' /\ SlotsKept' /\ Accounted' /\ Covered'
  BY LocalsOnly DEF IInv, TypeOK, Named
<1>3. Throttle'
  BY ThrottleKept DEF IInv, TypeOK
<1> QED BY <1>1, <1>2, <1>3 DEF IInv

\* A snapshot is taken.
LEMMA CountStepStep ==
    ASSUME IInv, NEW c \in Clients, CountAdmins(c) \/ \E u \in Users : SetRole(c, u)
    PROVE  IInv'
<1> USE DEF CountAdmins, SetRole, Goto, tables
<1>1. (Cardinality(Admins) > 1) \in BOOLEAN
  OBVIOUS
<1>2. PICK b \in BOOLEAN : b = (Cardinality(Admins) > 1)
  BY <1>1
<1>3. TypeOK'
  BY <1>2 DEF IInv, TypeOK, Roles
<1>4. Named' /\ SlotsKept' /\ Accounted' /\ Covered'
  BY LocalsOnly DEF IInv, TypeOK, Named
<1>5. Throttle'
  BY ThrottleKept DEF IInv, TypeOK
<1> QED BY <1>3, <1>4, <1>5 DEF IInv

\* An attempt begins only while the recorded failures leave room for it.
LEMMA LoginStep ==
    ASSUME IInv, NEW c \in Clients, NEW u \in Users, NEW p \in {0, password[u]}, Login(c, u, p)
    PROVE  IInv'
<1> USE DEF Login, Goto, tables
<1>1. TypeOK'
  BY NumbersAssumption DEF IInv, TypeOK, Passwords
<1>2. Named' /\ SlotsKept' /\ Accounted' /\ Covered'
  BY LocalsOnly DEF IInv, TypeOK, Named
<1>3. Throttle'
  <2> SUFFICES ASSUME NEW v \in Users
               PROVE  /\ failures[v] < Limit => guesses[v] <= failures[v] + Cardinality(Recording(v)')
                      /\ guesses[v] + Cardinality(Verifying(v)') <= Limit + Cardinality(Clients) - 1
    BY DEF Throttle
  <2>1. Recording(v)' = Recording(v)
    BY DEF Recording, IInv, TypeOK
  <2>2. CASE v = u
    <3>1. /\ Verifying(u)' = Verifying(u) \cup {c}
          /\ c \notin Verifying(u) /\ c \notin Recording(u)
      BY DEF Verifying, Recording, IInv, TypeOK
    <3>2. Cardinality(Verifying(u)') = Cardinality(Verifying(u)) + 1
      BY <3>1, AttemptsFinite, FS_AddElement
    <3>3. failures[u] <= Limit - 1 /\ failures[u] \in Nat /\ guesses[u] \in Nat
      BY NumbersAssumption DEF Throttled, IInv, TypeOK
    <3>4. guesses[u] <= failures[u] + Cardinality(Recording(u))
      BY <3>3, NumbersAssumption DEF IInv, Throttle
    <3>5. Cardinality(Verifying(u)) + Cardinality(Recording(u)) <= Cardinality(Clients) - 1
      BY <3>1, RoomForOneMore
    <3> HIDE DEF Login
    <3> QED BY <2>1, <2>2, <3>2, <3>3, <3>4, <3>5, AttemptsFinite, NumbersAssumption
  <2>3. CASE v # u
    <3>1. Verifying(v)' = Verifying(v)
      BY <2>3 DEF Verifying, IInv, TypeOK
    <3> QED BY <2>1, <3>1 DEF IInv, Throttle
  <2> QED BY <2>2, <2>3
<1> QED BY <1>1, <1>2, <1>3 DEF IInv

\* A wrong password is a guess more and a verification less.
LEMMA VerifyPasswordStep ==
    ASSUME IInv, NEW c \in Clients, VerifyPassword(c)
    PROVE  IInv'
<1>1. PICK u \in Users : u = who[c]
  BY DEF VerifyPassword, IInv, Named
<1> USE DEF VerifyPassword, Goto, tables, locals
<1>2. TypeOK'
  BY <1>1 DEF IInv, TypeOK
<1>3. Named' /\ SlotsKept' /\ Accounted' /\ Covered'
  BY <1>1, LocalsOnly DEF IInv, TypeOK, Named
<1>4. Throttle'
  <2> SUFFICES ASSUME NEW v \in Users
               PROVE  /\ failures[v] < Limit => guesses'[v] <= failures[v] + Cardinality(Recording(v)')
                      /\ guesses'[v] + Cardinality(Verifying(v)') <= Limit + Cardinality(Clients) - 1
    BY DEF Throttle
  <2>1. CASE v # u
    <3>1. Verifying(v)' = Verifying(v) /\ Recording(v)' = Recording(v) /\ guesses'[v] = guesses[v]
      BY <1>1, <2>1 DEF Verifying, Recording, IInv, TypeOK
    <3> QED BY <3>1 DEF IInv, Throttle
  <2>2. CASE v = u
    <3>1. /\ Verifying(u)' = Verifying(u) \ {c}
          /\ c \in Verifying(u) /\ c \notin Recording(u)
      BY <1>1 DEF Verifying, Recording, IInv, TypeOK
    <3>2. Cardinality(Verifying(u)') = Cardinality(Verifying(u)) - 1
      BY <3>1, AttemptsFinite, FS_RemoveElement
    <3>3. \/ Recording(u)' = Recording(u) /\ guesses'[u] = guesses[u]
          \/ Recording(u)' = Recording(u) \cup {c} /\ guesses'[u] = guesses[u] + 1
      BY <1>1 DEF Recording, IInv, TypeOK
    <3>4. Cardinality(Recording(u) \cup {c}) = Cardinality(Recording(u)) + 1
      BY <3>1, AttemptsFinite, FS_AddElement
    <3>5. /\ failures[u] < Limit => guesses[u] <= failures[u] + Cardinality(Recording(u))
          /\ guesses[u] + Cardinality(Verifying(u)) <= Limit + Cardinality(Clients) - 1
          /\ failures[u] \in Nat /\ guesses[u] \in Nat
      BY NumbersAssumption DEF IInv, TypeOK, Throttle
    <3> HIDE DEF VerifyPassword
    <3>6. CASE Recording(u)' = Recording(u) /\ guesses'[u] = guesses[u]
      BY <2>2, <3>2, <3>5, <3>6, AttemptsFinite, NumbersAssumption
    <3>7. CASE Recording(u)' = Recording(u) \cup {c} /\ guesses'[u] = guesses[u] + 1
      BY <2>2, <3>2, <3>4, <3>5, <3>7, AttemptsFinite, NumbersAssumption
    <3> QED BY <3>3, <3>6, <3>7
  <2> QED BY <2>1, <2>2
<1> QED BY <1>2, <1>3, <1>4 DEF IInv

\* What is recorded was about to be.
LEMMA RecordAttemptStep ==
    ASSUME IInv, NEW c \in Clients, RecordAttempt(c)
    PROVE  IInv'
<1>1. PICK u \in Users : u = who[c]
  BY DEF RecordAttempt, IInv, Named
<1> USE DEF RecordAttempt, Finish, Goto
<1>2. TypeOK'
  BY <1>1, NumbersAssumption DEF IInv, TypeOK, Passwords
<1>3. Named' /\ SlotsKept' /\ Accounted' /\ Covered'
  BY <1>1, LocalsOnly DEF IInv, TypeOK, Named
<1>4. Throttle'
  <2> SUFFICES ASSUME NEW v \in Users
               PROVE  /\ failures'[v] < Limit => guesses[v] <= failures'[v] + Cardinality(Recording(v)')
                      /\ guesses[v] + Cardinality(Verifying(v)') <= Limit + Cardinality(Clients) - 1
    BY DEF Throttle
  <2>1. Verifying(v)' = Verifying(v)
    BY <1>1 DEF Verifying, IInv, TypeOK
  <2>2. CASE v # u
    <3>1. Recording(v)' = Recording(v) /\ failures'[v] = failures[v]
      BY <1>1, <2>2 DEF Recording, IInv, TypeOK
    <3> QED BY <2>1, <3>1 DEF IInv, Throttle
  <2>3. CASE v = u
    <3>1. Recording(u)' = Recording(u) \ {c} /\ c \in Recording(u)
      BY <1>1 DEF Recording, IInv, TypeOK
    <3>2. Cardinality(Recording(u)') = Cardinality(Recording(u)) - 1
      BY <3>1, AttemptsFinite, FS_RemoveElement
    <3>3. failures'[u] = IF failures[u] < Limit THEN failures[u] + 1 ELSE failures[u]
      BY <1>1 DEF IInv, TypeOK
    <3>4. /\ failures[u] < Limit => guesses[u] <= failures[u] + Cardinality(Recording(u))
          /\ guesses[u] + Cardinality(Verifying(u)) <= Limit + Cardinality(Clients) - 1
          /\ failures[u] \in Nat /\ guesses[u] \in Nat
      BY NumbersAssumption DEF IInv, TypeOK, Throttle
    <3> HIDE DEF RecordAttempt
    <3> QED BY <2>1, <2>3, <3>2, <3>3, <3>4, AttemptsFinite, NumbersAssumption
  <2> QED BY <2>2, <2>3
<1> QED BY <1>2, <1>3, <1>4 DEF IInv

\* A right password clears the failures of its account.
LEMMA ClearLoginFailuresStep ==
    ASSUME IInv, NEW c \in Clients, ClearLoginFailures(c)
    PROVE  IInv'
<1>1. PICK u \in Users : u = who[c]
  BY DEF ClearLoginFailures, IInv, Named
<1> USE DEF ClearLoginFailures, Goto, locals
<1>2. TypeOK'
  BY <1>1, NumbersAssumption DEF IInv, TypeOK
<1>3. Named' /\ SlotsKept' /\ Accounted' /\ Covered'
  BY <1>1, LocalsOnly DEF IInv, TypeOK, Named
<1>4. \A v \in Users : Verifying(v)' = Verifying(v) /\ Recording(v)' = Recording(v)
  BY DEF Verifying, Recording, IInv, TypeOK
<1>5. Throttle'
  BY <1>1, <1>4, ThrottleCleared DEF IInv
<1> QED BY <1>2, <1>3, <1>5 DEF IInv

\* So does time.
LEMMA WindowPassesStep ==
    ASSUME IInv, NEW u \in Users, WindowPasses(u)
    PROVE  IInv'
<1> USE DEF WindowPasses, locals
<1>1. TypeOK'
  BY NumbersAssumption DEF IInv, TypeOK
<1>2. Named' /\ SlotsKept' /\ Accounted' /\ Covered'
  BY DEF IInv, Named, SlotsKept, Accounted, Covered, Live, Exists, Ends
<1>3. \A v \in Users : Verifying(v)' = Verifying(v) /\ Recording(v)' = Recording(v)
  BY DEF Verifying, Recording
<1>4. Throttle'
  BY <1>3, ThrottleCleared DEF IInv
<1> QED BY <1>1, <1>2, <1>4 DEF IInv

\* Sessions that end disturb nothing, and requests that go on or end
\* meanwhile leave none behind that they were to end.
LEMMA SessionsEnded ==
    ASSUME IInv, NEW ss, session' = Revoked(ss), UNCHANGED <<role, password>>,
           \A x \in Clients :
               \/ pc'[x] = pc[x] /\ who'[x] = who[x] /\ slot'[x] = slot[x]
               \/ /\ pc'[x] \notin {"change", "others"}
                  /\ pc'[x] # "idle" => who'[x] \in Users
                  /\ \A s \in Slots \ ss : Live(s) => ~Ends(x, s)
    PROVE  Named' /\ SlotsKept' /\ Accounted' /\ Covered'
<1>1. \A s \in Slots : (Live(s)' => Live(s) /\ s \notin ss /\ session'[s] = session[s])
  BY DEF Revoked, Live
<1>2. Named'
  BY DEF IInv, Named
<1>3. SlotsKept'
  BY <1>1 DEF IInv, SlotsKept, Live
<1>4. Accounted'
  BY <1>1 DEF IInv, Accounted, Live, Exists
<1>5. Covered'
  <2> SUFFICES ASSUME NEW s \in Slots, Live(s)'
               PROVE  \/ session'[s].password = password[session'[s].user]
                      \/ session'[s].late
                      \/ \E x \in Clients : Ends(x, s)'
    BY DEF Covered
  <2>1. \A x \in Clients : Ends(x, s) => Ends(x, s)'
    BY <1>1 DEF Ends
  <2> QED BY <1>1, <2>1 DEF IInv, Covered
<1> QED BY <1>2, <1>3, <1>4, <1>5

\* What is revoked is free.
LEMMA RevokedTyped ==
    ASSUME TypeOK, NEW ss
    PROVE  Revoked(ss) \in [Slots -> [user : Users \cup {None}, password : Passwords, late : BOOLEAN]]
BY NumbersAssumption DEF TypeOK, Revoked, Free, Passwords

\* Sessions that end by themselves, or that their owner ends.
LEMMA EndSessionStep ==
    ASSUME IInv, NEW ss, session' = Revoked(ss),
           UNCHANGED <<role, password, must, failures, guesses, pc, locals>>
    PROVE  IInv'
<1> USE DEF locals
<1>1. TypeOK'
  BY RevokedTyped DEF IInv, TypeOK
<1>2. Named' /\ SlotsKept' /\ Accounted' /\ Covered'
  <2>1. \A x \in Clients : pc'[x] = pc[x] /\ who'[x] = who[x] /\ slot'[x] = slot[x]
    OBVIOUS
  <2> QED BY <2>1, SessionsEnded
<1>3. Throttle'
  BY DEF IInv, Throttle, Verifying, Recording
<1> QED BY <1>1, <1>2, <1>3 DEF IInv

\* The row of a session depends on that of its user, and says whether the
\* password is still the one that was verified.
LEMMA CreateSessionStep ==
    ASSUME IInv, NEW c \in Clients, CreateSession(c)
    PROVE  IInv'
<1>1. PICK u \in Users : u = who[c]
  BY DEF CreateSession, IInv, Named
<1> USE DEF CreateSession, Finish, Goto
<1> DEFINE row == [user |-> u, password |-> typed[c], late |-> typed[c] # password[u]]
<1>2. row \in [user : Users \cup {None}, password : Passwords, late : BOOLEAN]
  BY DEF IInv, TypeOK
<1>3. session' = session \/ \E s \in Slots : session' = [session EXCEPT ![s] = row]
  BY <1>1
<1> HIDE DEF row
<1>4. session' \in [Slots -> [user : Users \cup {None}, password : Passwords, late : BOOLEAN]]
  BY <1>2, <1>3 DEF IInv, TypeOK
<1>5. TypeOK'
  BY <1>4, NumbersAssumption DEF IInv, TypeOK, Passwords
<1>6. Throttle'
  BY ThrottleKept DEF IInv, TypeOK
<1>7. CASE UNCHANGED session
  BY <1>5, <1>6, <1>7, LocalsOnly DEF IInv, TypeOK, Named
<1>8. ASSUME NEW s \in Slots, Exists(u), \A x \in Clients : slot[x] # s,
             session' = [session EXCEPT ![s] =
                           [user |-> u, password |-> typed[c], late |-> typed[c] # password[u]]]
      PROVE  IInv'
  <2>1. Named'
    BY DEF IInv, TypeOK, Named
  <2>2. SlotsKept'
    BY <1>8 DEF IInv, TypeOK, SlotsKept, Live
  <2>3. \A t \in Slots \ {s} : session'[t] = session[t]
    BY <1>8 DEF IInv, TypeOK
  <2>4. /\ session'[s].user = u
        /\ session'[s].password = password[u] \/ session'[s].late
    BY <1>8 DEF IInv, TypeOK
  <2>5. Accounted'
    BY <1>8, <2>3, <2>4 DEF IInv, Accounted, Live, Exists
  <2>6. \A x \in Clients, t \in Slots \ {s} : Ends(x, t) => Ends(x, t)'
    BY <2>3 DEF Ends, IInv, TypeOK
  <2>7. Covered'
    <3> SUFFICES ASSUME NEW t \in Slots, Live(t)'
                 PROVE  \/ session'[t].password = password[session'[t].user]
                        \/ session'[t].late
                        \/ \E x \in Clients : Ends(x, t)'
      BY DEF Covered
    <3>1. CASE t = s
      BY <2>4, <3>1
    <3>2. CASE t # s
      BY <2>3, <2>6, <3>2 DEF IInv, Covered, Live
    <3> QED BY <3>1, <3>2
  <2> QED BY <1>5, <1>6, <2>1, <2>2, <2>5, <2>7 DEF IInv
<1> QED BY <1>1, <1>7, <1>8

\* With the new password, every other session of the account is one to be ended.
LEMMA SetOwnPasswordStep ==
    ASSUME IInv, NEW c \in Clients, SetOwnPassword(c)
    PROVE  IInv'
<1>1. PICK u \in Users, m \in Slots : u = who[c] /\ m = slot[c]
  BY DEF SetOwnPassword, IInv, Named, SlotsKept
<1> USE DEF SetOwnPassword, SetPassword, Finish, Goto, locals
<1>2. CASE ~Exists(u)
  <2>1. Finish(c) /\ UNCHANGED <<tables, guesses>> /\ pc[c] = "change"
    BY <1>1, <1>2 DEF tables
  <2> USE DEF tables
  <2> HIDE DEF SetOwnPassword
  <2>2. TypeOK'
    BY <2>1, NumbersAssumption DEF IInv, TypeOK, Passwords
  <2>3. Throttle'
    BY <2>1, ThrottleKept DEF IInv, TypeOK
  <2> QED BY <2>1, <2>2, <2>3, LocalsOnly DEF IInv, TypeOK, Named
<1>3. CASE Exists(u)
  <2>1. /\ password' = [password EXCEPT ![u] = @ + 1] /\ password[u] < MaxPassword
        /\ must' = [must EXCEPT ![u] = FALSE]
        /\ pc[c] = "change" /\ pc' = [pc EXCEPT ![c] = "others"]
        /\ session' = [session EXCEPT ![m].password = IF Live(m) THEN password'[u] ELSE @]
        /\ UNCHANGED <<role, failures, guesses, locals>>
    BY <1>1, <1>3
  <2> HIDE DEF SetOwnPassword
  <2>2. password'[u] \in Passwords /\ password' \in [Users -> Passwords]
    BY <2>1, NumbersAssumption DEF IInv, TypeOK, Passwords
  <2>3. session' \in [Slots -> [user : Users \cup {None}, password : Passwords, late : BOOLEAN]]
    BY <2>1, <2>2 DEF IInv, TypeOK
  <2>4. TypeOK'
    BY <2>1, <2>2, <2>3 DEF IInv, TypeOK
  <2>5. Throttle'
    BY <2>1, ThrottleKept DEF IInv, TypeOK
  <2>6. /\ \A s \in Slots \ {m} : session'[s] = session[s]
        /\ session'[m].user = session[m].user
        /\ Live(m) => session'[m].password = password'[u]
        /\ ~Live(m) => session'[m] = session[m]
    BY <2>1 DEF IInv, TypeOK
  <2>7. Named'
    BY <2>1 DEF IInv, TypeOK, Named
  <2>8. \A s \in Slots : session'[s].user = session[s].user /\ (Live(s)' => Live(s))
    BY <2>6 DEF Live
  <2>9. SlotsKept'
    BY <1>1, <2>1, <2>8 DEF IInv, TypeOK, SlotsKept
  <2>10. Accounted'
    BY <2>1, <2>8 DEF IInv, Accounted, Exists
  <2>11. Covered'
    <3> SUFFICES ASSUME NEW s \in Slots, Live(s)'
                 PROVE  \/ session'[s].password = password'[session'[s].user]
                        \/ session'[s].late
                        \/ \E x \in Clients : Ends(x, s)'
      BY DEF Covered
    <3>1. CASE s = m
      BY <1>1, <2>1, <2>6, <2>8, <3>1 DEF IInv, SlotsKept
    <3>2. CASE s # m /\ session[s].user = u
      <4>1. Ends(c, s)'
        BY <1>1, <2>1, <2>8, <3>2 DEF Ends, IInv, TypeOK
      <4> QED BY <4>1
    <3>3. CASE s # m /\ session[s].user # u
      <4>1. \A x \in Clients : Ends(x, s) => Ends(x, s)'
        BY <2>1, <2>8 DEF Ends, IInv, TypeOK
      <4>2. password'[session[s].user] = password[session[s].user]
        BY <2>1, <2>8, <3>3 DEF IInv, TypeOK, Accounted
      <4> QED BY <2>6, <2>8, <3>3, <4>1, <4>2 DEF IInv, Covered
    <3> QED BY <3>1, <3>2, <3>3
  <2> QED BY <2>4, <2>5, <2>7, <2>9, <2>10, <2>11 DEF IInv
<1> QED BY <1>2, <1>3

\* They end, and the one that is left is that of the change.
LEMMA RevokeOthersStep ==
    ASSUME IInv, NEW c \in Clients, RevokeOthers(c)
    PROVE  IInv'
<1> USE DEF RevokeOthers, Finish, Goto
<1>1. TypeOK'
  BY RevokedTyped, NumbersAssumption DEF IInv, TypeOK, Passwords
<1>2. Named' /\ SlotsKept' /\ Accounted' /\ Covered'
  <2>1. PICK ss : ss = SessionsOf(who[c]) \ {slot[c]}
    OBVIOUS
  <2>2. \A s \in Slots \ ss : Live(s) => ~Ends(c, s)
    BY <2>1 DEF SessionsOf, Ends
  <2>3. /\ pc'[c] = "idle"
        /\ \A x \in Clients \ {c} : pc'[x] = pc[x] /\ who'[x] = who[x] /\ slot'[x] = slot[x]
        /\ session' = Revoked(ss) /\ UNCHANGED <<role, password>>
    BY <2>1 DEF IInv, TypeOK
  <2> HIDE DEF RevokeOthers
  <2> QED BY <2>2, <2>3, SessionsEnded
<1>3. Throttle'
  BY ThrottleKept DEF IInv, TypeOK
<1> QED BY <1>1, <1>2, <1>3 DEF IInv

\* After a reset every session of the account is one to be ended.
LEMMA SetResetStep ==
    ASSUME IInv, NEW c \in Clients, SetReset(c)
    PROVE  IInv'
<1>1. PICK u \in Users : u = who[c]
  BY DEF SetReset, IInv, Named
<1>2. CASE ~Exists(u)
  <2>1. Finish(c) /\ UNCHANGED <<tables, guesses>> /\ pc[c] = "reset"
    BY <1>1, <1>2 DEF SetReset, tables
  <2> USE DEF tables, Finish, Goto
  <2>2. TypeOK'
    BY <2>1, NumbersAssumption DEF IInv, TypeOK, Passwords
  <2>3. Throttle'
    BY <2>1, ThrottleKept DEF IInv, TypeOK
  <2> QED BY <2>1, <2>2, <2>3, LocalsOnly DEF IInv, TypeOK, Named
<1>3. CASE Exists(u)
  <2>1. /\ password' = [password EXCEPT ![u] = @ + 1] /\ password[u] < MaxPassword
        /\ must' = [must EXCEPT ![u] = force[c]]
        /\ pc[c] = "reset" /\ pc' = [pc EXCEPT ![c] = "all"]
        /\ UNCHANGED <<role, session, failures, guesses, locals>>
    BY <1>1, <1>3 DEF SetReset, SetPassword, Goto
  <2> USE DEF locals
  <2>2. password' \in [Users -> Passwords]
    BY <2>1, NumbersAssumption DEF IInv, TypeOK, Passwords
  <2>3. TypeOK'
    BY <2>1, <2>2 DEF IInv, TypeOK
  <2>4. Throttle'
    BY <2>1, ThrottleKept DEF IInv, TypeOK
  <2>5. Named' /\ SlotsKept' /\ Accounted'
    BY <2>1 DEF IInv, TypeOK, Named, SlotsKept, Accounted, Live, Exists
  <2>6. Covered'
    <3> SUFFICES ASSUME NEW s \in Slots, Live(s)
                 PROVE  \/ session[s].password = password'[session[s].user]
                        \/ session[s].late
                        \/ \E x \in Clients : Ends(x, s)'
      BY <2>1 DEF Covered, Live
    <3>1. CASE session[s].user = u
      <4>1. Ends(c, s)'
        BY <1>1, <2>1, <3>1 DEF Ends, IInv, TypeOK
      <4> QED BY <4>1
    <3>2. CASE session[s].user # u
      <4>1. \A x \in Clients : Ends(x, s) => Ends(x, s)'
        BY <2>1 DEF Ends, IInv, TypeOK
      <4>2. password'[session[s].user] = password[session[s].user]
        BY <2>1, <3>2 DEF IInv, TypeOK, Accounted
      <4> QED BY <4>1, <4>2 DEF IInv, Covered
    <3> QED BY <3>1, <3>2
  <2> QED BY <2>3, <2>4, <2>5, <2>6 DEF IInv
<1> QED BY <1>2, <1>3

\* And they end.
LEMMA RevokeAllStep ==
    ASSUME IInv, NEW c \in Clients, RevokeAll(c)
    PROVE  IInv'
<1> USE DEF RevokeAll, Finish, Goto
<1>1. TypeOK'
  BY RevokedTyped, NumbersAssumption DEF IInv, TypeOK, Passwords
<1>2. Named' /\ SlotsKept' /\ Accounted' /\ Covered'
  <2>1. PICK ss : ss = SessionsOf(who[c])
    OBVIOUS
  <2>2. \A s \in Slots \ ss : Live(s) => ~Ends(c, s)
    BY <2>1 DEF SessionsOf, Ends
  <2>3. /\ pc'[c] = "idle"
        /\ \A x \in Clients \ {c} : pc'[x] = pc[x] /\ who'[x] = who[x] /\ slot'[x] = slot[x]
        /\ session' = Revoked(ss) /\ UNCHANGED <<role, password>>
    BY <2>1 DEF IInv, TypeOK
  <2> HIDE DEF RevokeAll
  <2> QED BY <2>2, <2>3, SessionsEnded
<1>3. Throttle'
  BY ThrottleKept DEF IInv, TypeOK
<1> QED BY <1>1, <1>2, <1>3 DEF IInv

\* A user is signed out before the account goes.
LEMMA RemoveUserStep ==
    ASSUME IInv, NEW c \in Clients, NEW u \in Users, RemoveUser(c, u)
    PROVE  IInv'
<1> USE DEF RemoveUser, Goto
<1>1. TypeOK'
  BY RevokedTyped DEF IInv, TypeOK
<1>2. Named' /\ SlotsKept' /\ Accounted' /\ Covered'
  <2>1. PICK ss : ss = SessionsOf(u)
    OBVIOUS
  <2>2. \A s \in Slots \ ss : Live(s) => ~Ends(c, s)
    BY DEF Ends
  <2>3. /\ pc'[c] = "remove" /\ who'[c] \in Users
        /\ \A x \in Clients \ {c} : pc'[x] = pc[x] /\ who'[x] = who[x] /\ slot'[x] = slot[x]
        /\ session' = Revoked(ss) /\ UNCHANGED <<role, password>>
    BY <2>1 DEF IInv, TypeOK
  <2> HIDE DEF RemoveUser
  <2> QED BY <2>2, <2>3, SessionsEnded
<1>3. Throttle'
  BY ThrottleKept DEF IInv, TypeOK
<1> QED BY <1>1, <1>2, <1>3 DEF IInv

\* With the row go its sessions.
LEMMA DeleteUserStep ==
    ASSUME IInv, NEW c \in Clients, DeleteUser(c)
    PROVE  IInv'
<1>1. PICK u \in Users : u = who[c]
  BY DEF DeleteUser, IInv, Named
<1>2. CASE UNCHANGED <<role, password, must, session>>
  <2> USE DEF DeleteUser, Finish, Goto
  <2>1. TypeOK'
    BY <1>2, NumbersAssumption DEF IInv, TypeOK, Passwords
  <2>2. Throttle'
    BY ThrottleKept DEF IInv, TypeOK
  <2> QED BY <1>2, <2>1, <2>2, LocalsOnly DEF IInv, TypeOK, Named
<1>3. CASE Drop(u)
  <2>1. /\ role' = [role EXCEPT ![u] = "none"]
        /\ password' = [password EXCEPT ![u] = 0]
        /\ must' = [must EXCEPT ![u] = FALSE]
        /\ session' = Revoked(SessionsOf(u))
        /\ pc[c] = "removing" /\ Finish(c)
        /\ UNCHANGED <<failures, guesses>>
    BY <1>3 DEF DeleteUser, Drop
  <2> USE DEF Finish, Goto
  <2>2. TypeOK'
    BY <2>1, RevokedTyped, NumbersAssumption DEF IInv, TypeOK, Passwords
  <2>3. Throttle'
    BY <2>1, ThrottleKept DEF IInv, TypeOK
  <2>4. \A s \in Slots : Live(s)' => Live(s) /\ session'[s] = session[s] /\ session[s].user # u
    BY <2>1 DEF Revoked, SessionsOf, Live
  <2>5. Named' /\ SlotsKept'
    BY <2>1, <2>4 DEF IInv, TypeOK, Named, SlotsKept
  <2>6. Accounted'
    BY <2>1, <2>4 DEF IInv, TypeOK, Accounted, Exists
  <2>7. Covered'
    <3> SUFFICES ASSUME NEW s \in Slots, Live(s)'
                 PROVE  \/ session'[s].password = password'[session'[s].user]
                        \/ session'[s].late
                        \/ \E x \in Clients : Ends(x, s)'
      BY DEF Covered
    <3>1. \A x \in Clients : Ends(x, s) => Ends(x, s)'
      BY <2>1, <2>4 DEF Ends, IInv, TypeOK
    <3>2. password'[session[s].user] = password[session[s].user]
      BY <2>1, <2>4 DEF IInv, TypeOK, Accounted
    <3> QED BY <2>4, <3>1, <3>2 DEF IInv, Covered
  <2> QED BY <2>2, <2>3, <2>5, <2>6, <2>7 DEF IInv
<1> QED BY <1>1, <1>2, <1>3 DEF DeleteUser

\* Roles that change, but for a removal, keep every account that exists.
LEMMA RolesOnly ==
    ASSUME IInv, NEW c, UNCHANGED <<password, session>>,
           \A u \in Users : Exists(u) => Exists(u)',
           \A x \in Clients \ {c} : pc'[x] = pc[x] /\ who'[x] = who[x] /\ slot'[x] = slot[x],
           c \in Clients => /\ pc[c] \notin {"all", "initial", "others"}
                            /\ pc'[c] \notin {"change", "others"}
                            /\ pc'[c] # "idle" => who'[c] \in Users
    PROVE  Named' /\ SlotsKept' /\ Accounted' /\ Covered'
<1>1. Named' /\ SlotsKept'
  BY DEF IInv, Named, SlotsKept, Live
<1>2. Accounted'
  BY DEF IInv, Accounted, Live
<1>3. \A x \in Clients, s \in Slots : Ends(x, s) => Ends(x, s)'
  BY DEF Ends
<1>4. Covered'
  BY <1>3 DEF IInv, Covered, Live
<1> QED BY <1>1, <1>2, <1>4

\* An account that has appeared meanwhile keeps its role.
LEMMA CreateUserStep ==
    ASSUME IInv, NEW c \in Clients, NEW r \in Roles, CreateUser(c, r)
    PROVE  IInv'
<1> USE DEF CreateUser, Goto
<1>1. TypeOK'
  BY DEF IInv, TypeOK
<1>2. \A u \in Users : Exists(u) => Exists(u)'
  BY DEF IInv, TypeOK, Exists
<1>3. Named' /\ SlotsKept' /\ Accounted' /\ Covered'
  BY <1>2, RolesOnly DEF IInv, TypeOK, Named
<1>4. Throttle'
  BY ThrottleKept DEF IInv, TypeOK
<1> QED BY <1>1, <1>3, <1>4 DEF IInv

\* A role that is changed is a role.
LEMMA ChangeRoleStep ==
    ASSUME IInv, NEW c \in Clients, NEW r \in Roles, ChangeRole(c, r)
    PROVE  IInv'
<1> USE DEF ChangeRole, Finish, Goto
<1>1. role' = role \/ role' = [role EXCEPT ![who[c]] = r]
  BY DEF IInv, TypeOK
<1>2. role' \in [Users -> Roles \cup {"none"}]
  BY <1>1 DEF IInv, TypeOK
<1>3. TypeOK'
  BY <1>2, NumbersAssumption DEF IInv, TypeOK, Passwords
<1>4. \A u \in Users : Exists(u) => Exists(u)'
  BY DEF IInv, TypeOK, Exists, Roles
<1>5. Named' /\ SlotsKept' /\ Accounted' /\ Covered'
  BY <1>4, RolesOnly DEF IInv, TypeOK, Named
<1>6. Throttle'
  BY ThrottleKept DEF IInv, TypeOK
<1> QED BY <1>3, <1>5, <1>6 DEF IInv

\* Nor does the start of a process remove anybody.
LEMMA EnsureAdminStep ==
    ASSUME IInv, EnsureAdmin
    PROVE  IInv'
<1> USE DEF EnsureAdmin, locals
<1>1. TypeOK'
  BY DEF IInv, TypeOK, Roles
<1>2. Named' /\ SlotsKept'
  BY DEF IInv, Named, SlotsKept, Live
<1>3. Accounted' /\ Covered'
  BY DEF IInv, TypeOK, Accounted, Covered, Live, Exists, Ends
<1>4. Throttle'
  BY DEF IInv, Throttle, Verifying, Recording
<1> QED BY <1>1, <1>2, <1>3, <1>4 DEF IInv

\* The first password of an account ends no session: those opened by then are
\* marked.
LEMMA SetInitialPasswordStep ==
    ASSUME IInv, NEW c \in Clients, SetInitialPassword(c)
    PROVE  IInv'
<1>1. PICK u \in Users : u = who[c]
  BY DEF SetInitialPassword, IInv, Named
<1>2. pc[c] = "initial" /\ Finish(c) /\ UNCHANGED <<role, failures, guesses>>
  BY DEF SetInitialPassword
<1> USE DEF Finish, Goto
<1>3. Throttle'
  BY <1>2, ThrottleKept DEF IInv, TypeOK
<1>4. Named'
  BY <1>2 DEF IInv, TypeOK, Named
<1>5. CASE ~Exists(u)
  <2>1. UNCHANGED <<password, must, session>>
    BY <1>1, <1>5 DEF SetInitialPassword
  <2>2. TypeOK'
    BY <1>2, <2>1, NumbersAssumption DEF IInv, TypeOK, Passwords
  <2>3. SlotsKept' /\ Accounted'
    BY <1>2, <2>1 DEF IInv, TypeOK, SlotsKept, Accounted, Live, Exists
  <2>4. Covered'
    <3> SUFFICES ASSUME NEW s \in Slots, Live(s)
                 PROVE  \/ session[s].password = password[session[s].user]
                        \/ session[s].late
                        \/ \E x \in Clients : Ends(x, s)'
      BY <2>1 DEF Covered, Live
    <3>1. ~Ends(c, s)
      BY <1>1, <1>5 DEF IInv, Accounted, Ends
    <3>2. \A x \in Clients : Ends(x, s) => Ends(x, s)'
      BY <1>2, <2>1, <3>1 DEF Ends, IInv, TypeOK
    <3> QED BY <3>2 DEF IInv, Covered
  <2> QED BY <1>3, <1>4, <2>2, <2>3, <2>4 DEF IInv
<1>6. CASE Exists(u)
  <2>1. /\ password' = [password EXCEPT ![u] = @ + 1] /\ password[u] < MaxPassword
        /\ must' = [must EXCEPT ![u] = force[c]]
        /\ session' = [s \in Slots |-> IF s \in SessionsOf(u)
                                       THEN [session[s] EXCEPT !.late = TRUE] ELSE session[s]]
    BY <1>1, <1>6 DEF SetInitialPassword, SetPassword
  <2>2. password' \in [Users -> Passwords]
    BY <2>1, NumbersAssumption DEF IInv, TypeOK, Passwords
  <2>3. session' \in [Slots -> [user : Users \cup {None}, password : Passwords, late : BOOLEAN]]
    BY <2>1 DEF IInv, TypeOK
  <2>4. TypeOK'
    BY <1>2, <2>1, <2>2, <2>3, NumbersAssumption DEF IInv, TypeOK, Passwords
  <2>5. \A s \in Slots :
           \/ session[s].user # u /\ session'[s] = session[s]
           \/ session[s].user = u /\ session'[s].user = u /\ session'[s].late
    BY <2>1 DEF IInv, TypeOK, SessionsOf
  <2>6. \A s \in Slots : session'[s].user = session[s].user
    BY <2>5
  <2>7. \A s \in Slots : Live(s)' => Live(s)
    <3>1. ASSUME NEW s \in Slots, session[s] = Free
          PROVE  session'[s] = session[s]
      BY <1>1, <2>5, <3>1, AccountsAssumption DEF Free
    <3> QED BY <3>1 DEF Live
  <2>8. SlotsKept'
    BY <1>2, <2>6, <2>7 DEF IInv, TypeOK, SlotsKept
  <2>9. Accounted'
    BY <1>2, <2>6, <2>7 DEF IInv, Accounted, Exists
  <2>10. Covered'
    <3> SUFFICES ASSUME NEW s \in Slots, Live(s)', session[s].user # u
                 PROVE  \/ session'[s].password = password'[session'[s].user]
                        \/ session'[s].late
                        \/ \E x \in Clients : Ends(x, s)'
      BY <2>5 DEF Covered
    <3>1. \A x \in Clients : Ends(x, s) => Ends(x, s)'
      BY <1>1, <1>2, <2>6 DEF Ends, IInv, TypeOK
    <3>2. password'[session[s].user] = password[session[s].user]
      BY <2>1, <2>7 DEF IInv, TypeOK, Accounted
    <3> QED BY <2>5, <2>7, <3>1, <3>2 DEF IInv, Covered
  <2> QED BY <1>3, <1>4, <2>4, <2>8, <2>9, <2>10 DEF IInv
<1> QED BY <1>5, <1>6

\* One step, whatever it is.
LEMMA NextStep ==
    ASSUME IInv, [Next]_vars
    PROVE  IInv'
<1>1. CASE EnsureAdmin
  BY <1>1, EnsureAdminStep
<1>2. ASSUME NEW c \in Clients,
             \/ VerifyPassword(c) \/ RecordAttempt(c) \/ ClearLoginFailures(c) \/ CreateSession(c)
             \/ SetOwnPassword(c) \/ RevokeOthers(c) \/ SetReset(c) \/ RevokeAll(c)
             \/ SetInitialPassword(c) \/ DeleteUser(c)
      PROVE  IInv'
  BY <1>2, VerifyPasswordStep, RecordAttemptStep, ClearLoginFailuresStep, CreateSessionStep,
     SetOwnPasswordStep, RevokeOthersStep, SetResetStep, RevokeAllStep, SetInitialPasswordStep,
     DeleteUserStep
<1>3. ASSUME NEW c \in Clients, NEW r \in Roles, CreateUser(c, r) \/ ChangeRole(c, r)
      PROVE  IInv'
  BY <1>3, CreateUserStep, ChangeRoleStep
<1>4. ASSUME NEW c \in Clients, NEW s \in Slots, ChangePassword(c, s)
      PROVE  IInv'
  BY <1>4, ChangePasswordStep
<1>5. ASSUME NEW c \in Clients, NEW u \in Users, NEW p \in {0, password[u]}, Login(c, u, p)
      PROVE  IInv'
  BY <1>5, LoginStep
<1>6. ASSUME NEW c \in Clients, NEW u \in Users,
             \/ \E flag \in BOOLEAN : ResetPassword(c, u, flag)
             \/ FindAbsent(c, u) \/ RemoveUser(c, u)
      PROVE  IInv'
  BY <1>6, ResetPasswordStep, FindAbsentStep, RemoveUserStep
<1>7. ASSUME NEW s \in Slots,
             \/ SignOut(s) \/ Expire(s) \/ EndOtherSessions(s)
             \/ \E by \in Slots : RevokeSession(by, s)
      PROVE  IInv'
  <2>1. PICK ss : session' = Revoked(ss)
    BY <1>7 DEF SignOut, Expire, EndOtherSessions, RevokeSession, EndSession
  <2>2. UNCHANGED <<role, password, must, failures, guesses, pc, locals>>
    BY <1>7 DEF SignOut, Expire, EndOtherSessions, RevokeSession, EndSession
  <2> QED BY <2>1, <2>2, EndSessionStep
<1>8. ASSUME NEW u \in Users, WindowPasses(u)
      PROVE  IInv'
  BY <1>8, WindowPassesStep
<1>9. ASSUME NEW c \in Clients, CountAdmins(c) \/ \E u \in Users : SetRole(c, u)
      PROVE  IInv'
  BY <1>9, CountStepStep
<1>10. CASE UNCHANGED vars
  <2> USE DEF vars, tables, locals
  <2>1. TypeOK' /\ Named'
    BY <1>10 DEF IInv, TypeOK, Named
  <2>2. SlotsKept' /\ Accounted' /\ Covered'
    BY <1>10 DEF IInv, SlotsKept, Accounted, Covered, Ends, Live, Exists
  <2>3. Throttle'
    BY <1>10 DEF IInv, Throttle, Verifying, Recording
  <2> QED BY <2>1, <2>2, <2>3 DEF IInv
<1> QED BY <1>1, <1>2, <1>3, <1>4, <1>5, <1>6, <1>7, <1>8, <1>9, <1>10 DEF Next, ClientStep

\* Nobody is signed in at first, and nothing is under way.
LEMMA InitIInv ==
    ASSUME Init
    PROVE  IInv
<1> USE DEF Init
<1>1. TypeOK
  BY NumbersAssumption, AccountsAssumption DEF TypeOK, Roles, Free, Passwords
<1>2. Named /\ SlotsKept /\ Accounted /\ Covered
  BY DEF Named, SlotsKept, Accounted, Covered, Live
<1>3. \A u \in Users : Verifying(u) = {} /\ Recording(u) = {}
  BY DEF Verifying, Recording
<1>4. Cardinality({}) = 0
  BY FS_EmptySet
<1>5. Cardinality(Clients) \in Nat
  BY FiniteAssumption, FS_CardinalityType
<1>6. \A u \in Users : failures[u] = 0 /\ guesses[u] = 0
  OBVIOUS
<1>7. Throttle
  <2> HIDE DEF Init
  <2> QED BY <1>3, <1>4, <1>5, <1>6, NumbersAssumption DEF Throttle
<1> QED BY <1>1, <1>2, <1>7 DEF IInv

\* The invariant is one, for any accounts, requests and limits.
LEMMA Invariance == Spec => []IInv
<1>1. Init => IInv
  BY InitIInv
<1>2. IInv /\ [Next]_vars => IInv'
  BY NextStep
<1> QED BY <1>1, <1>2, PTL DEF Spec

\* Every variable keeps its type.
THEOREM TypeCorrect == Spec => []TypeOK
<1>1. IInv => TypeOK
  BY DEF IInv
<1> QED BY <1>1, Invariance, PTL

\* Whatever else is under way, a live session is of an account that exists.
THEOREM SessionsHaveUsers == Spec => []LiveSessionsHaveUsers
<1>1. IInv => LiveSessionsHaveUsers
  BY DEF IInv, Accounted, LiveSessionsHaveUsers
<1> QED BY <1>1, Invariance, PTL

\* Once nobody is in the middle of changing the password of an account, its
\* sessions are of the present password, or are those that were late.
THEOREM PasswordChangeEndsSessions == Spec => []OldSessionsEnd
<1>1. IInv => OldSessionsEnd
  BY DEF IInv, Covered, Ends, OldSessionsEnd, Changing
<1> QED BY <1>1, Invariance, PTL

\* However many attempts are verified at once, each can add only one guess to
\* the failures that were recorded before it began.
THEOREM GuessesAreBounded == Spec => []BoundedGuesses
<1>1. ASSUME IInv
      PROVE  BoundedGuesses
  BY <1>1, AttemptsFinite, NumbersAssumption DEF IInv, TypeOK, Throttle, BoundedGuesses
<1> QED BY <1>1, Invariance, PTL

-----------------------------------------------------------------------------
(* Statements that count administrators.                                   *)

\* A set of which more than one was counted has two members.
LEMMA TwoAdmins ==
    ASSUME Cardinality(Admins) > 1
    PROVE  \E a, b \in Admins : a # b
<1>1. IsFiniteSet(Admins) /\ Cardinality({}) = 0
  BY FiniteAssumption, FS_Subset, FS_EmptySet DEF Admins
<1>2. PICK a \in Admins : TRUE
  BY <1>1
<1>3. Admins # {a}
  BY FS_Singleton
<1> QED BY <1>2, <1>3

\* A step with its history is a step.
LEMMA RaceIsNext ==
    ASSUME [RaceNext]_raceVars
    PROVE  [Next]_vars
BY DEF RaceNext, raceVars

\* So everything above holds with the history, too.
LEMMA RaceInvariance == RaceSpec => []IInv
<1>1. RaceInit => IInv
  BY InitIInv DEF RaceInit
<1>2. IInv /\ [RaceNext]_raceVars => IInv'
  BY NextStep, RaceIsNext
<1> QED BY <1>1, <1>2, PTL DEF RaceSpec

\* Only two statements take an administrator away, and two begin to count.
LEMMA OthersKeepAdmins ==
    ASSUME IInv, [Next]_vars
    PROVE  \/ \E c \in Clients : DeleteUser(c) \/ \E r \in Roles : ChangeRole(c, r)
           \/ \E c \in Clients : CountAdmins(c) \/ \E u \in Users : SetRole(c, u)
           \/ /\ Admins \subseteq Admins'
              /\ \A d \in Clients : Counting(d)' => Counting(d) /\ many'[d] = many[d]
<1> DEFINE Kept == /\ Admins \subseteq Admins'
                   /\ \A d \in Clients : Counting(d)' => Counting(d) /\ many'[d] = many[d]
<1> USE DEF Goto, Finish, Counting, tables, locals
<1>1. EnsureAdmin => Kept
  BY DEF EnsureAdmin, Admins, IInv, TypeOK
<1>2. ASSUME NEW c \in Clients,
             \/ VerifyPassword(c) \/ RecordAttempt(c) \/ ClearLoginFailures(c) \/ CreateSession(c)
             \/ RevokeOthers(c) \/ RevokeAll(c)
      PROVE  Kept
  BY <1>2 DEF VerifyPassword, RecordAttempt, ClearLoginFailures, CreateSession, RevokeOthers,
              RevokeAll, Admins, IInv, TypeOK
<1>3. ASSUME NEW c \in Clients, SetOwnPassword(c) \/ SetReset(c) \/ SetInitialPassword(c)
      PROVE  Kept
  BY <1>3 DEF SetOwnPassword, SetReset, SetInitialPassword, Admins, IInv, TypeOK
<1>4. ASSUME NEW c \in Clients, NEW r \in Roles, CreateUser(c, r)
      PROVE  Kept
  BY <1>4 DEF CreateUser, Admins, IInv, TypeOK
<1>5. ASSUME NEW c \in Clients, NEW s \in Slots, ChangePassword(c, s)
      PROVE  Kept
  BY <1>5 DEF ChangePassword, Admins, IInv, TypeOK
<1>6. ASSUME NEW c \in Clients, NEW u \in Users,
             \/ \E p \in {0, password[u]} : Login(c, u, p)
             \/ \E flag \in BOOLEAN : ResetPassword(c, u, flag)
             \/ FindAbsent(c, u) \/ RemoveUser(c, u)
      PROVE  Kept
  BY <1>6 DEF Login, ResetPassword, FindAbsent, RemoveUser, Admins, IInv, TypeOK
<1>7. ASSUME NEW s \in Slots,
             \/ SignOut(s) \/ Expire(s) \/ EndOtherSessions(s)
             \/ \E by \in Slots : RevokeSession(by, s)
      PROVE  Kept
  BY <1>7 DEF SignOut, Expire, EndOtherSessions, RevokeSession, EndSession, Admins
<1>8. ASSUME NEW u \in Users, WindowPasses(u)
      PROVE  Kept
  BY <1>8 DEF WindowPasses, Admins
<1>9. CASE UNCHANGED vars
  BY <1>9 DEF vars, Admins
<1> QED BY <1>1, <1>2, <1>3, <1>4, <1>5, <1>6, <1>7, <1>8, <1>9 DEF Next, ClientStep

\* A statement that nobody overtakes still has the two it has counted.
LEMMA CountsHoldStep ==
    ASSUME IInv, CountsHold, [RaceNext]_raceVars
    PROVE  CountsHold'
<1> SUFFICES ASSUME NEW c \in Clients, Counting(c)', many'[c], c \notin overtaken'
             PROVE  \E a, b \in Admins' : a # b
  BY DEF CountsHold
<1>1. [Next]_vars
  BY RaceIsNext
<1>2. CASE ~Counting(c)
  <2>1. PICK d \in Clients : CountAdmins(d) \/ \E u \in Users : SetRole(d, u)
    <3>1. ASSUME NEW d \in Clients, DeleteUser(d) \/ \E r \in Roles : ChangeRole(d, r)
          PROVE  FALSE
      BY <1>2, <3>1 DEF DeleteUser, ChangeRole, Finish, Goto, Counting, IInv, TypeOK
    <3> QED BY <1>1, <1>2, <3>1, OthersKeepAdmins
  <2>2. d = c /\ many'[d] = (Cardinality(Admins) > 1) /\ UNCHANGED role
    BY <1>2, <2>1 DEF CountAdmins, SetRole, Goto, tables, Counting, IInv, TypeOK
  <2> QED BY <2>2, TwoAdmins DEF Admins
<1>3. CASE Counting(c)
  <2>1. Admins \subseteq Admins' /\ c \notin overtaken
    <3>1. CASE RaceNext
      BY <1>3, <3>1 DEF RaceNext
    <3>2. CASE UNCHANGED raceVars
      BY <3>2 DEF raceVars, vars, tables, Admins
    <3> QED BY <3>1, <3>2
  <2>2. many[c]
    <3>1. ASSUME NEW d \in Clients, DeleteUser(d) \/ \E r \in Roles : ChangeRole(d, r)
          PROVE  many'[c] = many[c]
      <4>1. pc' = [pc EXCEPT ![d] = "idle"] /\ many' = [many EXCEPT ![d] = FALSE]
        BY <3>1 DEF DeleteUser, ChangeRole, Finish, Goto
      <4>2. c # d
        BY <4>1 DEF Counting, IInv, TypeOK
      <4> QED BY <4>1, <4>2 DEF IInv, TypeOK
    <3>2. ASSUME NEW d \in Clients, CountAdmins(d) \/ \E u \in Users : SetRole(d, u)
          PROVE  many'[c] = many[c]
      BY <1>3, <3>2 DEF CountAdmins, SetRole, Goto, Counting, IInv, TypeOK
    <3> QED BY <1>1, <3>1, <3>2, OthersKeepAdmins
  <2> QED BY <1>3, <2>1, <2>2 DEF CountsHold
<1> QED BY <1>2, <1>3

\* It does so at any time.
LEMMA CountsHoldAlways == RaceSpec => []CountsHold
<1>1. RaceInit => CountsHold
  BY DEF RaceInit, Init, CountsHold, Counting
<1>2. IInv /\ CountsHold /\ [RaceNext]_raceVars => CountsHold'
  BY CountsHoldStep
<1> QED BY <1>1, <1>2, RaceInvariance, PTL DEF RaceSpec

\* However many demotions and removals are under way at once, the last administrator
\* goes only by one of them whose count another has made untrue.
THEOREM AnAdminRemains == RaceSpec => OnlyOverlapsLeaveNoAdmin
<1>1. ASSUME IInv, CountsHold, [RaceNext]_raceVars, Admins # {}, Admins' = {}
      PROVE  \E c \in overtaken : Counting(c) /\ pc'[c] = "idle"
  <2>1. PICK c \in Clients : DeleteUser(c) \/ \E r \in Roles : ChangeRole(c, r)
    <3>1. ASSUME NEW c \in Clients, CountAdmins(c) \/ \E u \in Users : SetRole(c, u)
          PROVE  FALSE
      BY <1>1, <3>1 DEF CountAdmins, SetRole, tables, Admins
    <3> QED BY <1>1, <3>1, OthersKeepAdmins, RaceIsNext
  <2>2. Counting(c) /\ pc'[c] = "idle"
    BY <1>1, <2>1 DEF DeleteUser, ChangeRole, Finish, Goto, Counting, IInv, TypeOK
  <2>3. Admins \subseteq Admins' \/ (many[c] /\ Admins \ {who[c]} \subseteq Admins')
    BY <1>1, <2>1 DEF DeleteUser, Drop, ChangeRole, Admins, IInv, TypeOK
  <2>4. c \in overtaken
    BY <1>1, <2>2, <2>3 DEF CountsHold
  <2> QED BY <2>2, <2>4
<1>2. IInv /\ CountsHold /\ [RaceNext]_raceVars =>
        [Admins # {} /\ Admins' = {} => \E c \in overtaken : Counting(c) /\ pc'[c] = "idle"]_vars
  BY <1>1
<1> QED BY <1>2, RaceInvariance, CountsHoldAlways, PTL DEF RaceSpec, OnlyOverlapsLeaveNoAdmin
=============================================================================
