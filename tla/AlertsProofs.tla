---------------------------- MODULE AlertsProofs ----------------------------
(***************************************************************************)
(* Proofs about Alerts: how often an alert is mailed.  A cycle that lost   *)
(* its lock goes on beside the one that has it now, and may know the same  *)
(* alert; so the proof counts the cycles under way, the mails they are     *)
(* still to send and those they have sent and not marked.                  *)
(***************************************************************************)
EXTENDS Alerts, FiniteSetTheorems, TLAPS

Alert == [id : Nat, state : {"firing", "acknowledged", "resolved"}, severity : Severities,
          notified : {"never", "recent", "past"}]
Job == [pc : {"idle", "check", "raise", "resolve", "notify", "mark"}, rules : [Rules -> RuleRows],
        todo : Seq(Rules), pending : SUBSET Found, sent : Found \cup {None}]

TypeOK ==
    /\ rule \in [Rules -> RuleRows]
    /\ alert \in [Rules -> Alert]
    /\ lock \in Engines \cup {None}
    /\ job \in [Engines -> Job]
    /\ mails \in [Rules -> Nat] /\ late \in [Rules -> Nat]
    /\ faults \in Nat

\* What cycle e has in hand, at each point: alerts that are or were, one of a rule.
InHand(e) ==
    /\ job[e].pc = "mark" <=> job[e].sent # None
    /\ job[e].pc \notin {"notify", "mark"} => job[e].pending = {}
    /\ job[e].pc \in {"raise", "resolve"} => job[e].todo # <<>>
    /\ \A p, q \in job[e].pending : p.rule = q.rule => p = q
    /\ \A p \in job[e].pending : p.id <= alert[p.rule].id
    /\ job[e].sent # None =>
          /\ job[e].sent.id <= alert[job[e].sent.rule].id
          /\ \A p \in job[e].pending : p.rule # job[e].sent.rule

Active == {e \in Engines : job[e].pc # "idle"}

\* Cycles without the lock.
Orphans == Active \ {lock}

About(p, r) == p.rule = r /\ p.id = alert[r].id

\* Cycles that know the rule's last alert, and those that have mailed it.
Pending(r) == {e \in Engines : \E p \in job[e].pending : About(p, r)}
Sent(r) == {e \in Engines : job[e].sent # None /\ About(job[e].sent, r)}

\* Each orphan is a fault.  Before a mail is marked, each mail but those that are
\* about to be marked is a fault as well; after that nobody but those who know of
\* the alert will mail it.
MailsBounded(r) ==
    IF alert[r].notified = "recent"
    THEN mails[r] + Cardinality(Pending(r)) <= 1 + faults
    ELSE mails[r] + Cardinality(Orphans) <= faults + Cardinality(Sent(r))

\* Once an alert is acknowledged, nobody but those who know of it will mail it.
LateBounded(r) ==
    CASE alert[r].state = "firing" -> late[r] = 0
      [] alert[r].state = "acknowledged" -> late[r] + Cardinality(Pending(r)) <= 1 + faults
      [] OTHER -> late[r] <= 1 + faults

Shape ==
    /\ TypeOK
    /\ lock # None => lock \in Active
    /\ \A e \in Engines : InHand(e)

\* The inductive invariant of Spec.
IInv ==
    /\ Shape
    /\ Cardinality(Orphans) <= faults
    /\ \A r \in Rules : MailsBounded(r) /\ LateBounded(r)
-----------------------------------------------------------------------------
(* What cycles have in hand.                                               *)

\* The rows of alerts as the cycles find them.
LEMMA AwaitingFound ==
    ASSUME TypeOK
    PROVE  /\ Awaiting \subseteq Found
           /\ \A p \in Awaiting : /\ p.rule \in Rules /\ p.id = alert[p.rule].id
                                  /\ alert[p.rule].state = "firing"
                                  /\ alert[p.rule].notified # "recent"
           /\ \A p, q \in Awaiting : p.rule = q.rule => p = q
BY DEF Awaiting, TypeOK, Alert, Found

\* A cycle changes its own job alone.
LEMMA OthersInHand ==
    ASSUME Shape, NEW e \in Engines, \A x \in Engines \ {e} : job'[x] = job[x],
           \A r \in Rules : alert[r].id = alert'[r].id \/ alert[r].id <= alert'[r].id, TypeOK'
    PROVE  \A x \in Engines \ {e} : InHand(x)'
<1>1. \A r \in Rules : alert[r].id \in Nat /\ alert'[r].id \in Nat /\ alert[r].id <= alert'[r].id
  BY DEF Shape, TypeOK, Alert
<1> SUFFICES ASSUME NEW x \in Engines \ {e}
             PROVE  InHand(x)'
  OBVIOUS
<1>2. job'[x] = job[x] /\ job[x] \in Job /\ InHand(x)
  BY DEF Shape, TypeOK
<1>3. \A p \in Found : p.id <= alert[p.rule].id => p.id <= alert'[p.rule].id
  BY <1>1 DEF Found
<1>4. job[x].pending \subseteq Found /\ (job[x].sent # None => job[x].sent \in Found)
  BY <1>2 DEF Job
<1> QED BY <1>2, <1>3, <1>4 DEF InHand

\* One field of one alert is set.
LEMMA SetAlert ==
    ASSUME TypeOK, NEW r \in Rules,
           \/ \E s \in {"firing", "acknowledged", "resolved"} : alert' = [alert EXCEPT ![r].state = s]
           \/ \E s \in Severities : alert' = [alert EXCEPT ![r].severity = s]
           \/ \E s \in {"never", "recent", "past"} : alert' = [alert EXCEPT ![r].notified = s]
    PROVE  alert' \in [Rules -> Alert] /\ \A x \in Rules : alert'[x].id = alert[x].id
<1>1. alert[r] \in Alert
  BY DEF TypeOK
<1>2. PICK a : alert' = [alert EXCEPT ![r] = a] /\ a \in Alert /\ a.id = alert[r].id
  <2>1. ASSUME NEW s \in {"firing", "acknowledged", "resolved"}
        PROVE  [alert[r] EXCEPT !.state = s] \in Alert /\ [alert[r] EXCEPT !.state = s].id = alert[r].id
    BY <1>1 DEF Alert
  <2>2. ASSUME NEW s \in Severities
        PROVE  [alert[r] EXCEPT !.severity = s] \in Alert /\ [alert[r] EXCEPT !.severity = s].id = alert[r].id
    BY <1>1 DEF Alert
  <2>3. ASSUME NEW s \in {"never", "recent", "past"}
        PROVE  [alert[r] EXCEPT !.notified = s] \in Alert /\ [alert[r] EXCEPT !.notified = s].id = alert[r].id
    BY <1>1 DEF Alert
  <2> QED BY <2>1, <2>2, <2>3, Zenon
<1> QED BY <1>2 DEF TypeOK

\* A cycle begins with nothing in hand.
LEMMA BeginShape ==
    ASSUME Shape, NEW e \in Engines, Begin(e)
    PROVE  Shape'
<1> USE DEF Begin, Rows, History
<1>1. TypeOK'
  BY AlertsAssumption DEF Shape, TypeOK, CanBegin, Idle, Job
<1>2. \A x \in Engines \ {e} : InHand(x)'
  <2>1. \A x \in Engines \ {e} : job'[x] = job[x]
    BY <1>1 DEF Shape, TypeOK
  <2> QED BY <1>1, <2>1, OthersInHand
<1>3. InHand(e)' /\ (lock' # None => lock' \in Active')
  BY DEF Shape, TypeOK, InHand, Idle, Active
<1> QED BY <1>1, <1>2, <1>3 DEF Shape

\* The rules are gone through one by one.
LEMMA CheckShape ==
    ASSUME Shape, NEW e \in Engines, Check(e)
    PROVE  Shape'
<1> USE DEF Check, Rows, History, Step
<1>1. TypeOK'
  BY DEF Shape, TypeOK, Job
<1>2. \A x \in Engines \ {e} : InHand(x)'
  <2>1. \A x \in Engines \ {e} : job'[x] = job[x]
    BY <1>1 DEF Shape, TypeOK
  <2> QED BY <1>1, <2>1, OthersInHand
<1>3. InHand(e)' /\ (lock' # None => lock' \in Active')
  BY DEF Shape, TypeOK, InHand, Active, Job
<1> QED BY <1>1, <1>2, <1>3 DEF Shape

\* An alert's id never falls.
LEMMA EvaluateShape ==
    ASSUME Shape, NEW e \in Engines, Evaluate(e)
    PROVE  Shape'
<1>1. job[e] \in Job /\ job[e].todo # <<>> /\ job[e].pc \in {"raise", "resolve"}
  BY DEF Shape, TypeOK, InHand, Evaluate
<1>2. Head(job[e].todo) \in Rules /\ Tail(job[e].todo) \in Seq(Rules)
  BY <1>1 DEF Job
<1>3. PICK r \in Rules, s \in Severities :
          /\ r = Head(job[e].todo)
          /\ RaiseAlert(r, s) \/ (ResolveAlert(r) /\ UNCHANGED History)
          /\ job' = [job EXCEPT ![e].pc = "check", ![e].todo = Tail(@)]
          /\ UNCHANGED <<rule, lock, faults>>
  BY <1>1, <1>2 DEF Evaluate, Rows, Shape, TypeOK, Job, RuleRows, Severities
<1>4. /\ alert' \in [Rules -> Alert] /\ mails' \in [Rules -> Nat] /\ late' \in [Rules -> Nat]
      /\ \A x \in Rules : alert[x].id <= alert'[x].id
  <2>1. CASE Live(r) /\ RaiseAlert(r, s)
    <3>1. alert' = [alert EXCEPT ![r].severity = s] /\ mails' = mails /\ late' = late
      BY <2>1 DEF RaiseAlert, History
    <3>2. alert' \in [Rules -> Alert] /\ \A x \in Rules : alert'[x].id = alert[x].id
      BY <3>1, SetAlert DEF Shape
    <3> QED BY <3>1, <3>2 DEF Shape, TypeOK, Alert
  <2>2. CASE ~Live(r) /\ RaiseAlert(r, s)
    <3>1. /\ alert' = [alert EXCEPT ![r] = [id |-> alert[r].id + 1, state |-> "firing", severity |-> s,
                                            notified |-> "never"]]
          /\ mails' = [mails EXCEPT ![r] = 0] /\ late' = [late EXCEPT ![r] = 0]
      BY <2>2 DEF RaiseAlert
    <3> QED BY <3>1 DEF Shape, TypeOK, Alert
  <2>3. CASE ResolveAlert(r) /\ UNCHANGED History
    <3>1. alert' = [alert EXCEPT ![r].state = "resolved"] /\ mails' = mails /\ late' = late
      BY <2>3 DEF ResolveAlert, History
    <3>2. alert' \in [Rules -> Alert] /\ \A x \in Rules : alert'[x].id = alert[x].id
      BY <3>1, SetAlert DEF Shape
    <3> QED BY <3>1, <3>2 DEF Shape, TypeOK, Alert
  <2> QED BY <1>3, <2>1, <2>2, <2>3
<1>5. job' \in [Engines -> Job] /\ (lock' # None => lock' \in Active')
  BY <1>2, <1>3 DEF Shape, TypeOK, Job, Active
<1>6. TypeOK'
  BY <1>3, <1>4, <1>5 DEF Shape, TypeOK
<1>7. \A x \in Engines \ {e} : InHand(x)'
  BY <1>3, <1>4, <1>6, OthersInHand DEF Shape, TypeOK
<1>8. InHand(e)'
  BY <1>1, <1>3 DEF Shape, TypeOK, InHand, Job
<1> QED BY <1>5, <1>6, <1>7, <1>8 DEF Shape

\* A statement that fails leaves the alerts as they are.
LEMMA EvaluateFailsShape ==
    ASSUME Shape, NEW e \in Engines, EvaluateFails(e)
    PROVE  Shape'
<1> USE DEF EvaluateFails, Rows, History, Fault
<1>1. job[e] \in Job /\ job[e].todo # <<>>
  BY DEF Shape, TypeOK, InHand
<1>2. Tail(job[e].todo) \in Seq(Rules)
  BY <1>1 DEF Job
<1>3. TypeOK'
  <2>1. [job[e] EXCEPT !.pc = "check", !.todo = Tail(@)] \in Job
    BY <1>1, <1>2 DEF Job
  <2>2. job' = [job EXCEPT ![e] = [job[e] EXCEPT !.pc = "check", !.todo = Tail(@)]]
    BY DEF Shape, TypeOK
  <2>3. job' \in [Engines -> Job]
    BY <2>1, <2>2 DEF Shape, TypeOK
  <2> QED BY <2>3 DEF Shape, TypeOK
<1>4. \A x \in Engines \ {e} : InHand(x)'
  <2>1. \A x \in Engines \ {e} : job'[x] = job[x]
    BY <1>3 DEF Shape, TypeOK
  <2> QED BY <1>3, <2>1, OthersInHand
<1>5. InHand(e)' /\ (lock' # None => lock' \in Active')
  BY DEF Shape, TypeOK, InHand, Active, Job
<1> QED BY <1>3, <1>4, <1>5 DEF Shape

\* What a cycle finds, it finds once for each rule.
LEMMA FindPendingShape ==
    ASSUME Shape, NEW e \in Engines, FindPending(e)
    PROVE  Shape'
<1> USE DEF FindPending, Rows, History
<1>1. job'[e] = [Idle EXCEPT !.pc = "notify", !.pending = Awaiting] /\ job'[e] \in Job
  BY AwaitingFound DEF Shape, TypeOK, Idle, Job, Fresh, RuleRows, Severities
<1>2. TypeOK'
  BY <1>1 DEF Shape, TypeOK
<1>3. \A x \in Engines \ {e} : InHand(x)'
  <2>1. \A x \in Engines \ {e} : job'[x] = job[x]
    BY <1>2 DEF Shape, TypeOK
  <2> QED BY <1>2, <2>1, OthersInHand
<1>4. \A p \in Awaiting : p.id <= alert[p.rule].id
  BY AwaitingFound DEF Shape, TypeOK, Alert
<1>5. InHand(e)'
  <2>1. /\ job'[e].pc = "notify" /\ job'[e].pending = Awaiting /\ job'[e].sent = None
        /\ alert' = alert
    BY DEF Shape, TypeOK, Idle
  <2> QED BY <1>4, <2>1, AwaitingFound DEF Shape, InHand
<1>6. lock' # None => lock' \in Active'
  BY DEF Shape, TypeOK, Active, Idle
<1> QED BY <1>2, <1>3, <1>5, <1>6 DEF Shape

\* A mail about p is sent, to all or to some, or p is passed over.
LEMMA MailShape ==
    ASSUME Shape, NEW e \in Engines, NEW p \in job[e].pending,
           Notify(e, p) \/ PassOver(e, p) \/ NotifyFails(e, p)
    PROVE  Shape'
<1>1. p \in Found /\ p # None /\ job[e].pc = "notify" /\ job[e] \in Job
  BY NoneAssumption DEF Shape, TypeOK, Job, Notify, PassOver, NotifyFails
<1>2. UNCHANGED <<rule, alert, lock>> /\ faults' \in Nat
  BY DEF Shape, TypeOK, Notify, PassOver, NotifyFails, Rows, Fault
<1>3. mails' \in [Rules -> Nat] /\ late' \in [Rules -> Nat]
  BY <1>1 DEF Shape, TypeOK, Notify, PassOver, NotifyFails, Counted, History, Found
<1>4. PICK j \in Job :
          /\ job' = [job EXCEPT ![e] = j]
          /\ j.pending = job[e].pending \ {p}
          /\ \/ j.pc = "mark" /\ j.sent = p
             \/ j.pc = "notify" /\ j.sent = job[e].sent
  <2>1. CASE Notify(e, p)
    <3>1. [job[e] EXCEPT !.pc = "mark", !.pending = @ \ {p}, !.sent = p] \in Job
      BY <1>1 DEF Job
    <3>2. job' = [job EXCEPT ![e] = [job[e] EXCEPT !.pc = "mark", !.pending = @ \ {p}, !.sent = p]]
      BY <2>1 DEF Notify, Shape, TypeOK
    <3> QED BY <1>1, <3>1, <3>2 DEF Job
  <2>2. CASE PassOver(e, p) \/ NotifyFails(e, p)
    <3>1. [job[e] EXCEPT !.pending = @ \ {p}] \in Job
      BY <1>1 DEF Job
    <3>2. job' = [job EXCEPT ![e] = [job[e] EXCEPT !.pending = @ \ {p}]]
      BY <2>2 DEF PassOver, NotifyFails, Shape, TypeOK
    <3> QED BY <1>1, <3>1, <3>2 DEF Job
  <2> QED BY <2>1, <2>2
<1>5. TypeOK' /\ job'[e] = j /\ \A x \in Engines \ {e} : job'[x] = job[x]
  BY <1>2, <1>3, <1>4 DEF Shape, TypeOK
<1>6. \A x \in Engines \ {e} : InHand(x)'
  BY <1>2, <1>5, OthersInHand
<1>7. InHand(e)'
  <2>1. InHand(e) /\ job[e].pending \subseteq Found
    BY <1>1 DEF Shape, Job
  <2> QED BY <1>1, <1>2, <1>4, <1>5, <2>1 DEF InHand
<1>8. lock' # None => lock' \in Active'
  BY <1>1, <1>2, <1>4, <1>5 DEF Shape, Active
<1> QED BY <1>5, <1>6, <1>7, <1>8 DEF Shape

\* A mail is marked, or is not.
LEMMA MarkShape ==
    ASSUME Shape, NEW e \in Engines, Mark(e) \/ MarkFails(e)
    PROVE  Shape'
<1>1. /\ job[e].pc = "mark" /\ job[e] \in Job /\ job[e].sent \in Found
      /\ job' = [job EXCEPT ![e].pc = "notify", ![e].sent = None]
      /\ alert' = alert \/ alert' = Marked(job[e].sent)
      /\ UNCHANGED <<rule, lock, mails, late>> /\ faults' \in Nat
  BY DEF Shape, TypeOK, InHand, Job, Mark, MarkFails, Rows, History, Fault
<1>2. alert' \in [Rules -> Alert] /\ \A r \in Rules : alert'[r].id = alert[r].id
  <2>1. CASE alert' = Marked(job[e].sent)
    <3>1. PICK s \in {"never", "recent", "past"} : alert' = [alert EXCEPT ![job[e].sent.rule].notified = s]
      BY <1>1, <2>1 DEF Marked, Shape, TypeOK, Alert, Found
    <3> QED BY <1>1, <3>1, SetAlert DEF Shape, Found
  <2> QED BY <1>1, <2>1 DEF Shape, TypeOK
<1>3. TypeOK'
  BY <1>1, <1>2 DEF Shape, TypeOK, Job
<1>4. \A x \in Engines \ {e} : InHand(x)'
  <2>1. \A x \in Engines \ {e} : job'[x] = job[x]
    BY <1>1, <1>2, <1>3 DEF Shape, TypeOK
  <2> QED BY <1>1, <1>2, <1>3, <2>1, OthersInHand
<1>5. InHand(e)' /\ (lock' # None => lock' \in Active')
  BY <1>1, <1>2 DEF Shape, TypeOK, InHand, Active, Job, Found
<1> QED BY <1>3, <1>4, <1>5 DEF Shape

\* A cycle that is over lets go of the lock if it has it.
LEMMA EndShape ==
    ASSUME Shape, NEW e \in Engines, End(e) \/ Abandon(e)
    PROVE  Shape'
<1>1. /\ lock' = Released(e) /\ job' = [job EXCEPT ![e] = Idle]
      /\ UNCHANGED <<rule, alert, mails, late>> /\ faults' \in Nat
  BY DEF End, Abandon, Rows, History, Fault, Shape, TypeOK
<1>2. TypeOK'
  BY <1>1 DEF Shape, TypeOK, Job, Idle, Fresh, RuleRows, Severities, Released
<1>3. \A x \in Engines \ {e} : InHand(x)'
  <2>1. \A x \in Engines \ {e} : job'[x] = job[x]
    BY <1>1, <1>2 DEF Shape, TypeOK
  <2> QED BY <1>1, <1>2, <2>1, OthersInHand
<1>4. InHand(e)' /\ (lock' # None => lock' \in Active')
  BY <1>1 DEF Shape, TypeOK, InHand, Idle, Active, Released
<1> QED BY <1>2, <1>3, <1>4 DEF Shape

\* Nothing else touches a job, or gives an alert a smaller id.
LEMMA EnvironmentShape ==
    ASSUME Shape, Environment \/ UNCHANGED vars
    PROVE  Shape'
<1>1. UNCHANGED job /\ (lock' = lock \/ lock' = None)
  BY DEF Environment, LoseLock, Change, QuietPasses, Acknowledge, ResolveByHand, UpdateRule,
         SaveMail, vars
<1>2. TypeOK' /\ \A r \in Rules : alert'[r].id = alert[r].id
  <2>1. CASE LoseLock \/ \E enabled, key \in BOOLEAN : SaveMail(enabled, key)
    BY <2>1 DEF LoseLock, SaveMail, Shape, TypeOK, Rows, History, Fault
  <2>2. ASSUME NEW r \in Rules, \/ Change(r) \/ \E row \in RuleRows : UpdateRule(r, row)
        PROVE  TypeOK' /\ \A x \in Rules : alert'[x].id = alert[x].id
    BY <2>2 DEF Change, UpdateRule, Shape, TypeOK, History
  <2>3. ASSUME NEW r \in Rules, QuietPasses(r) \/ Acknowledge(r) \/ ResolveByHand(r)
        PROVE  TypeOK' /\ \A x \in Rules : alert'[x].id = alert[x].id
    <3>1. alert' \in [Rules -> Alert] /\ \A x \in Rules : alert'[x].id = alert[x].id
      BY <2>3, SetAlert DEF QuietPasses, Acknowledge, ResolveByHand, ResolveAlert, Shape
    <3>2. UNCHANGED <<rule, lock, job, late, faults>> /\ mails' \in [Rules -> Nat]
      BY <2>3 DEF QuietPasses, Acknowledge, ResolveByHand, Rows, History, Shape, TypeOK
    <3> QED BY <3>1, <3>2 DEF Shape, TypeOK
  <2>4. CASE UNCHANGED vars
    BY <2>4 DEF vars, Shape, TypeOK
  <2> QED BY <2>1, <2>2, <2>3, <2>4 DEF Environment
<1>3. \A e \in Engines : InHand(e)'
  BY <1>1, <1>2 DEF Shape, TypeOK, InHand, Job, Found
<1> QED BY <1>1, <1>2, <1>3 DEF Shape, Active
-----------------------------------------------------------------------------
(* Cycles are counted.                                                     *)

\* Counts of sets of cycles compare as the sets do.
LEMMA Counts ==
    ASSUME NEW S \in SUBSET Engines, NEW T \in SUBSET Engines
    PROVE  /\ Cardinality(S) \in Nat /\ Cardinality(T) \in Nat
           /\ S \subseteq T => Cardinality(S) <= Cardinality(T)
           /\ \A e : S \subseteq T \cup {e} => Cardinality(S) <= Cardinality(T) + 1
           /\ \A e \in T : S \subseteq T \ {e} => Cardinality(S) <= Cardinality(T) - 1
           /\ \A e \in S \ T : T \subseteq S => Cardinality(S) >= Cardinality(T) + 1
<1>1. IsFiniteSet(S) /\ IsFiniteSet(T) /\ Cardinality(S) \in Nat /\ Cardinality(T) \in Nat
  BY AlertsAssumption, FS_Subset, FS_CardinalityType
<1>2. S \subseteq T => Cardinality(S) <= Cardinality(T)
  BY <1>1, FS_Subset
<1>3. ASSUME NEW e, S \subseteq T \cup {e}
      PROVE  Cardinality(S) <= Cardinality(T) + 1
  <2>1. /\ IsFiniteSet(T \cup {e})
        /\ Cardinality(T \cup {e}) = IF e \in T THEN Cardinality(T) ELSE Cardinality(T) + 1
    BY <1>1, FS_AddElement
  <2>2. Cardinality(S) <= Cardinality(T \cup {e})
    BY <1>3, <2>1, FS_Subset
  <2> QED BY <1>1, <2>1, <2>2
<1>4. ASSUME NEW e \in T, S \subseteq T \ {e}
      PROVE  Cardinality(S) <= Cardinality(T) - 1
  <2>1. IsFiniteSet(T \ {e}) /\ Cardinality(T \ {e}) = Cardinality(T) - 1
    BY <1>1, FS_RemoveElement
  <2>2. Cardinality(S) <= Cardinality(T \ {e})
    BY <1>4, <2>1, FS_Subset
  <2> QED BY <2>1, <2>2
<1>5. ASSUME NEW e \in S \ T, T \subseteq S
      PROVE  Cardinality(S) >= Cardinality(T) + 1
  <2>1. Cardinality(T \cup {e}) = Cardinality(T) + 1
    BY <1>1, FS_AddElement
  <2>2. Cardinality(T \cup {e}) <= Cardinality(S)
    <3>1. T \cup {e} \subseteq S
      BY <1>5
    <3> QED BY <1>1, <3>1, FS_Subset
  <2> QED BY <1>1, <2>1, <2>2
<1> QED BY <1>1, <1>2, <1>3, <1>4, <1>5

\* They are sets of cycles.
LEMMA AreEngines ==
    ASSUME NEW r
    PROVE  /\ Pending(r) \in SUBSET Engines /\ Sent(r) \in SUBSET Engines
           /\ Orphans \in SUBSET Engines /\ Active \in SUBSET Engines
BY DEF Pending, Sent, Orphans, Active

\* Those that know of an alert, and those that are about to mark it, are under way,
\* and all but one of these are orphans.
LEMMA FewCycles ==
    ASSUME Shape, NEW r \in Rules
    PROVE  /\ Cardinality(Pending(r)) \in Nat /\ Cardinality(Sent(r)) \in Nat
           /\ Cardinality(Orphans) \in Nat
           /\ Cardinality(Pending(r)) + Cardinality(Sent(r)) <= Cardinality(Orphans) + 1
<1>1. Pending(r) \cup Sent(r) \subseteq Active /\ Pending(r) \cap Sent(r) = {}
  BY DEF Pending, Sent, Active, Shape, InHand, About
<1>2. Cardinality(Active) <= Cardinality(Orphans) + 1
  <2>1. Active \subseteq Orphans \cup {lock}
    BY DEF Orphans
  <2> QED BY <2>1, Counts, AreEngines
<1>3. /\ IsFiniteSet(Pending(r)) /\ IsFiniteSet(Sent(r)) /\ IsFiniteSet(Active)
      /\ Cardinality(Pending(r)) \in Nat /\ Cardinality(Sent(r)) \in Nat
      /\ Cardinality(Active) \in Nat /\ Cardinality(Orphans) \in Nat
  BY AreEngines, AlertsAssumption, FS_Subset, FS_CardinalityType
<1>4. Cardinality(Pending(r) \cup Sent(r)) = Cardinality(Pending(r)) + Cardinality(Sent(r))
  <2>1. Cardinality(Pending(r) \cup Sent(r)) =
           Cardinality(Pending(r)) + Cardinality(Sent(r)) - Cardinality(Pending(r) \cap Sent(r))
    BY <1>3, FS_Union
  <2>2. Cardinality(Pending(r) \cap Sent(r)) = 0
    BY <1>1, FS_EmptySet
  <2> QED BY <1>3, <2>1, <2>2
<1>5. Cardinality(Pending(r) \cup Sent(r)) <= Cardinality(Active)
  BY <1>1, <1>3, FS_Subset
<1> QED BY <1>2, <1>3, <1>4, <1>5

\* The rule's numbers, and what the invariant says of them.
LEMMA Numbers ==
    ASSUME Shape, NEW r \in Rules
    PROVE  /\ mails[r] \in Nat /\ late[r] \in Nat /\ faults \in Nat /\ alert[r] \in Alert
           /\ alert[r].state \in {"firing", "acknowledged", "resolved"}
BY DEF Shape, TypeOK, Alert

\* A step that mails nothing about the alert and changes neither its state nor
\* when it was notified: there are no more orphans, no more who know of it when
\* that counts, and no fewer who are about to mark it.
LEMMA NothingMailed ==
    ASSUME IInv, Shape', NEW r \in Rules,
           mails'[r] = mails[r], late'[r] = late[r], faults' >= faults,
           alert'[r].notified = alert[r].notified, alert'[r].state = alert[r].state,
           \/ Pending(r)' \subseteq Pending(r)
           \/ alert[r].notified # "recent" /\ alert[r].state # "acknowledged",
           Sent(r) \subseteq Sent(r)', Orphans' \subseteq Orphans
    PROVE  MailsBounded(r)' /\ LateBounded(r)'
<1>1. /\ mails[r] \in Nat /\ late[r] \in Nat /\ faults \in Nat /\ faults' \in Nat
      /\ Cardinality(Orphans) <= faults /\ MailsBounded(r) /\ LateBounded(r)
  BY Numbers DEF IInv, Shape, TypeOK
<1>2. /\ Pending(r)' \in SUBSET Engines /\ Sent(r)' \in SUBSET Engines /\ Orphans' \in SUBSET Engines
      /\ Pending(r) \in SUBSET Engines /\ Sent(r) \in SUBSET Engines /\ Orphans \in SUBSET Engines
  BY DEF Pending, Sent, Orphans, Active
<1>3. /\ Cardinality(Pending(r)') \in Nat /\ Cardinality(Sent(r)') \in Nat
      /\ Cardinality(Pending(r)) \in Nat /\ Cardinality(Sent(r)) \in Nat
      /\ Cardinality(Orphans') \in Nat /\ Cardinality(Orphans) \in Nat
      /\ Pending(r)' \subseteq Pending(r) => Cardinality(Pending(r)') <= Cardinality(Pending(r))
      /\ Cardinality(Sent(r)) <= Cardinality(Sent(r)')
      /\ Cardinality(Orphans') <= Cardinality(Orphans)
  BY <1>2, Counts
<1>4. MailsBounded(r)'
  BY <1>1, <1>3 DEF MailsBounded
<1>5. LateBounded(r)'
  BY <1>1, <1>3 DEF LateBounded
<1> QED BY <1>4, <1>5

\* A fault makes up for one mail that will not be marked, for one mail too many, or
\* for one more orphan.
LEMMA FaultPays ==
    ASSUME IInv, Shape', NEW r \in Rules, faults' = faults + 1,
           alert'[r].notified = alert[r].notified, alert'[r].state = alert[r].state,
           Pending(r)' \subseteq Pending(r),
           \/ /\ mails'[r] = mails[r] /\ late'[r] = late[r]
              /\ \E e : Sent(r) \subseteq Sent(r)' \cup {e}
              /\ Orphans' \subseteq Orphans
           \/ /\ mails'[r] \in {mails[r], mails[r] + 1}
              /\ late'[r] = late[r] \/ (late'[r] = late[r] + 1 /\ alert[r].state = "acknowledged")
              /\ Sent(r) \subseteq Sent(r)' /\ Orphans' \subseteq Orphans
           \/ /\ mails'[r] = mails[r] /\ late'[r] = late[r]
              /\ Sent(r) \subseteq Sent(r)'
              /\ \E e : Orphans' \subseteq Orphans \cup {e}
    PROVE  MailsBounded(r)' /\ LateBounded(r)'
<1>1. /\ mails[r] \in Nat /\ late[r] \in Nat /\ faults \in Nat /\ faults' \in Nat
      /\ Cardinality(Orphans) <= faults /\ MailsBounded(r) /\ LateBounded(r)
  BY Numbers DEF IInv, Shape, TypeOK
<1>2. /\ Pending(r)' \in SUBSET Engines /\ Sent(r)' \in SUBSET Engines /\ Orphans' \in SUBSET Engines
      /\ Pending(r) \in SUBSET Engines /\ Sent(r) \in SUBSET Engines /\ Orphans \in SUBSET Engines
  BY DEF Pending, Sent, Orphans, Active
<1>3. /\ Cardinality(Pending(r)') \in Nat /\ Cardinality(Sent(r)') \in Nat
      /\ Cardinality(Pending(r)) \in Nat /\ Cardinality(Sent(r)) \in Nat
      /\ Cardinality(Orphans') \in Nat /\ Cardinality(Orphans) \in Nat
      /\ Cardinality(Pending(r)') <= Cardinality(Pending(r))
      /\ Sent(r) \subseteq Sent(r)' => Cardinality(Sent(r)) <= Cardinality(Sent(r)')
      /\ Orphans' \subseteq Orphans => Cardinality(Orphans') <= Cardinality(Orphans)
  BY <1>2, Counts
<1>4. /\ (\E e : Sent(r) \subseteq Sent(r)' \cup {e}) => Cardinality(Sent(r)) <= Cardinality(Sent(r)') + 1
      /\ (\E e : Orphans' \subseteq Orphans \cup {e}) => Cardinality(Orphans') <= Cardinality(Orphans) + 1
  BY <1>2, Counts
<1> DEFINE P == Cardinality(Pending(r))
           S == Cardinality(Sent(r))
           O == Cardinality(Orphans)
<1>5. \/ mails'[r] = mails[r] /\ late'[r] = late[r] /\ S <= S' + 1 /\ O' <= O
      \/ /\ mails'[r] \in {mails[r], mails[r] + 1}
         /\ late'[r] = late[r] \/ (late'[r] = late[r] + 1 /\ alert[r].state = "acknowledged")
         /\ S <= S' /\ O' <= O
      \/ mails'[r] = mails[r] /\ late'[r] = late[r] /\ S <= S' /\ O' <= O + 1
  BY <1>3, <1>4
<1>6. P' <= P /\ P \in Nat /\ P' \in Nat /\ S \in Nat /\ S' \in Nat /\ O \in Nat /\ O' \in Nat /\ O <= faults
  BY <1>1, <1>3
<1>7. MailsBounded(r) <=> IF alert[r].notified = "recent" THEN mails[r] + P <= 1 + faults
                          ELSE mails[r] + O <= faults + S
  BY DEF MailsBounded
<1>8. MailsBounded(r)' <=> IF alert'[r].notified = "recent" THEN mails'[r] + P' <= 1 + faults'
                           ELSE mails'[r] + O' <= faults' + S'
  BY DEF MailsBounded
<1>9. LateBounded(r) <=>
         CASE alert[r].state = "firing" -> late[r] = 0
           [] alert[r].state = "acknowledged" -> late[r] + P <= 1 + faults
           [] OTHER -> late[r] <= 1 + faults
  BY DEF LateBounded
<1>10. LateBounded(r)' <=>
         CASE alert'[r].state = "firing" -> late'[r] = 0
           [] alert'[r].state = "acknowledged" -> late'[r] + P' <= 1 + faults'
           [] OTHER -> late'[r] <= 1 + faults'
  BY DEF LateBounded
<1> HIDE DEF P, S, O
<1>11. MailsBounded(r)'
  <2>1. O' <= O + 1 /\ mails'[r] + O' + S <= mails[r] + O + S' + 1
    <3>1. CASE mails'[r] = mails[r] /\ S <= S' + 1 /\ O' <= O
      BY <1>1, <1>6, <3>1
    <3>2. CASE mails'[r] \in {mails[r], mails[r] + 1} /\ S <= S' /\ O' <= O
      BY <1>1, <1>6, <3>2
    <3>3. CASE mails'[r] = mails[r] /\ S <= S' /\ O' <= O + 1
      BY <1>1, <1>6, <3>3
    <3> QED BY <1>5, <3>1, <3>2, <3>3
  <2>2. O' <= faults'
    BY <1>1, <1>6, <2>1
  <2>3. CASE alert[r].notified = "recent"
    <3>1. mails'[r] + P' <= 1 + faults'
      BY <1>1, <1>5, <1>6, <1>7, <2>3
    <3> QED BY <1>8, <2>2, <2>3, <3>1
  <2>4. CASE alert[r].notified # "recent"
    <3>1. mails[r] + O <= faults + S
      BY <1>1, <1>7, <2>4
    <3>2. mails'[r] \in Nat
      BY <1>1, <1>5
    <3>3. mails'[r] + O' <= faults' + S'
      BY <1>1, <1>6, <2>1, <3>1, <3>2
    <3> QED BY <1>8, <2>2, <2>4, <3>3
  <2> QED BY <2>3, <2>4
<1>12. LateBounded(r)'
  BY <1>1, <1>5, <1>6, <1>9, <1>10
<1> QED BY <1>11, <1>12
-----------------------------------------------------------------------------
(* Every step keeps within the bounds.                                     *)

\* Whether cycle x knows of the alert, is about to mark it or is under way depends
\* on its own job and on the id of the alert.
LEMMA SameSets ==
    ASSUME NEW x \in Engines, job'[x] = job[x], NEW r, alert'[r].id = alert[r].id
    PROVE  /\ x \in Pending(r)' <=> x \in Pending(r)
           /\ x \in Sent(r)' <=> x \in Sent(r)
           /\ x \in Active' <=> x \in Active
BY DEF Pending, Sent, Active, About

\* Only one that loses the lock becomes an orphan.
LEMMA OrphansStep ==
    ASSUME IInv, Shape', [Next]_vars
    PROVE  /\ \/ Orphans' \subseteq Orphans /\ faults' \in {faults, faults + 1}
              \/ faults' = faults + 1 /\ \E e : Orphans' \subseteq Orphans \cup {e}
           /\ Cardinality(Orphans') <= faults'
<1>1. \/ Orphans' \subseteq Orphans /\ faults' \in {faults, faults + 1}
      \/ faults' = faults + 1 /\ \E e : Orphans' \subseteq Orphans \cup {e}
  <2>1. ASSUME NEW e \in Engines, Begin(e)
        PROVE  Orphans' \subseteq Orphans /\ faults' = faults
    <3>1. lock = None /\ None \notin Engines /\ lock' = e /\ faults' = faults
      BY <2>1, AlertsAssumption DEF Begin, CanBegin
    <3>2. \A x \in Engines \ {e} : job'[x] = job[x]
      BY <2>1 DEF Begin, IInv, Shape, TypeOK
    <3> QED BY <3>1, <3>2 DEF Orphans, Active
  <2>2. ASSUME NEW e \in Engines,
               \/ Check(e) \/ Evaluate(e) \/ EvaluateFails(e) \/ FindPending(e) \/ Mark(e) \/ MarkFails(e)
               \/ \E p \in job[e].pending : Notify(e, p) \/ PassOver(e, p) \/ NotifyFails(e, p)
        PROVE  Orphans' \subseteq Orphans /\ faults' \in {faults, faults + 1}
    <3>1. /\ lock' = lock /\ faults' \in {faults, faults + 1} /\ job[e].pc # "idle"
          /\ \A x \in Engines \ {e} : job'[x] = job[x]
      BY <2>2 DEF Check, Evaluate, EvaluateFails, FindPending, Mark, MarkFails, Notify, PassOver,
                  NotifyFails, Fault, Step, IInv, Shape, TypeOK
    <3> QED BY <3>1 DEF Orphans, Active
  <2>3. ASSUME NEW e \in Engines, End(e) \/ Abandon(e)
        PROVE  Orphans' \subseteq Orphans /\ faults' \in {faults, faults + 1}
    <3>1. /\ lock' = IF lock = e THEN None ELSE lock
          /\ job' = [job EXCEPT ![e] = Idle] /\ faults' \in {faults, faults + 1}
      BY <2>3 DEF End, Abandon, Released, Fault
    <3>2. Active' = Active \ {e}
      BY <3>1 DEF Active, Idle, IInv, Shape, TypeOK
    <3> QED BY <3>1, <3>2 DEF Orphans
  <2>4. CASE LoseLock
    BY <2>4 DEF LoseLock, Fault, Orphans, Active
  <2>5. CASE \/ UNCHANGED vars \/ \E enabled, key \in BOOLEAN : SaveMail(enabled, key)
             \/ \E r \in Rules : \/ Change(r) \/ QuietPasses(r) \/ Acknowledge(r) \/ ResolveByHand(r)
                                 \/ \E row \in RuleRows : UpdateRule(r, row)
    BY <2>5 DEF SaveMail, Change, QuietPasses, Acknowledge, ResolveByHand, UpdateRule, vars,
                Orphans, Active
  <2> QED BY <2>1, <2>2, <2>3, <2>4, <2>5 DEF Next, Environment, Work, EngineFault
<1>2. /\ Orphans' \in SUBSET Engines /\ Orphans \in SUBSET Engines
      /\ Cardinality(Orphans) <= faults /\ faults \in Nat
  BY AreEngines DEF IInv, Shape, TypeOK, Orphans, Active
<1>3. /\ Cardinality(Orphans') \in Nat /\ Cardinality(Orphans) \in Nat
      /\ Orphans' \subseteq Orphans => Cardinality(Orphans') <= Cardinality(Orphans)
      /\ \A e : Orphans' \subseteq Orphans \cup {e} => Cardinality(Orphans') <= Cardinality(Orphans) + 1
  BY <1>2, Counts
<1>4. Cardinality(Orphans') <= faults'
  BY <1>1, <1>2, <1>3
<1> QED BY <1>1, <1>4

Bounds == \A r \in Rules : MailsBounded(r) /\ LateBounded(r)

\* What a cycle does about no alert.
LEMMA QuietBounds ==
    ASSUME IInv, Shape', NEW e \in Engines,
           Begin(e) \/ Check(e) \/ EvaluateFails(e) \/ FindPending(e) \/ End(e)
             \/ \E p \in job[e].pending : PassOver(e, p)
    PROVE  Bounds'
<1> SUFFICES ASSUME NEW r \in Rules
             PROVE  MailsBounded(r)' /\ LateBounded(r)'
  BY DEF Bounds
<1>1. [Next]_vars
  BY DEF Next, Work, EngineFault
<1>2. /\ UNCHANGED <<alert, mails, late>> /\ faults \in Nat /\ faults' \in {faults, faults + 1}
      /\ \A x \in Engines \ {e} : job'[x] = job[x]
  BY DEF Begin, Check, EvaluateFails, FindPending, End, PassOver, Rows, History, Fault, Step, IInv,
         Shape, TypeOK
<1>3. Orphans' \subseteq Orphans
  <2>1. ASSUME NEW x \in Engines \ {e}
        PROVE  x \in Orphans' => x \in Orphans
    <3>1. lock \in {lock', None, e}
      BY DEF Begin, CanBegin, Check, EvaluateFails, FindPending, End, Released, PassOver
    <3> QED BY <1>2, <2>1, <3>1, SameSets, AlertsAssumption DEF Orphans
  <2>2. e \in Orphans' => e \in Orphans
    BY DEF Orphans, Active, Begin, Check, EvaluateFails, FindPending, End, PassOver, IInv, Shape,
           TypeOK, Idle
  <2> QED BY <2>1, <2>2 DEF Orphans, Active
<1>4. e \notin Sent(r) /\ e \notin Sent(r)'
  <2>1. job[e].pc # "mark" /\ job'[e].pc # "mark"
    <3>1. job[e] \in Job
      BY DEF IInv, Shape, TypeOK
    <3>2. CASE Begin(e) \/ FindPending(e) \/ End(e)
      <4>1. Begin(e) => job'[e].pc = "check"
        BY DEF Begin, IInv, Shape, TypeOK, Idle
      <4>2. FindPending(e) => job'[e].pc = "notify"
        BY DEF FindPending, IInv, Shape, TypeOK, Idle
      <4>3. End(e) => job'[e].pc = "idle"
        BY DEF End, IInv, Shape, TypeOK, Idle
      <4>4. job'[e].pc # "mark"
        BY <3>2, <4>1, <4>2, <4>3
      <4> QED BY <3>2, <4>4 DEF Begin, CanBegin, FindPending, End
    <3>3. CASE Check(e)
      BY <3>1, <3>3 DEF Check, Step, Job, IInv, Shape, TypeOK
    <3>4. CASE EvaluateFails(e)
      <4>1. job' = [job EXCEPT ![e] = [job[e] EXCEPT !.pc = "check", !.todo = Tail(@)]]
        BY <3>4 DEF EvaluateFails, IInv, Shape, TypeOK
      <4> QED BY <3>1, <3>4, <4>1 DEF EvaluateFails, Job, IInv, Shape, TypeOK
    <3>5. CASE \E p \in job[e].pending : PassOver(e, p)
      BY <3>1, <3>5 DEF PassOver, Job, IInv, Shape, TypeOK
    <3> QED BY <3>2, <3>3, <3>4, <3>5
  <2> QED BY <2>1 DEF IInv, Shape, InHand, Sent
<1>5. Sent(r) \subseteq Sent(r)'
  BY <1>2, <1>4, SameSets DEF Sent
<1>6. \/ Pending(r)' \subseteq Pending(r)
      \/ alert[r].notified # "recent" /\ alert[r].state # "acknowledged"
  <2>1. CASE FindPending(e)
    <3>1. job'[e].pending = Awaiting
      BY <2>1 DEF FindPending, Idle, IInv, Shape, TypeOK
    <3>2. e \in Pending(r)' => \E p \in Awaiting : p.rule = r
      BY <1>2, <3>1 DEF Pending, About
    <3>3. e \in Pending(r)' => alert[r].notified # "recent" /\ alert[r].state # "acknowledged"
      BY <3>2, AwaitingFound DEF IInv, Shape
    <3> QED BY <1>2, <3>3, SameSets DEF Pending
  <2>2. CASE ~FindPending(e)
    <3>1. job'[e].pending \subseteq job[e].pending
      <4>1. job[e] \in Job
        BY DEF IInv, Shape, TypeOK
      <4>2. CASE Begin(e) \/ End(e)
        <5>1. Begin(e) => job'[e].pending = {}
          BY DEF Begin, IInv, Shape, TypeOK, Idle
        <5>2. End(e) => job'[e].pending = {}
          BY DEF End, IInv, Shape, TypeOK, Idle
        <5> QED BY <4>2, <5>1, <5>2
      <4>3. CASE Check(e)
        BY <4>1, <4>3 DEF Check, Step, Job, IInv, Shape, TypeOK
      <4>4. CASE EvaluateFails(e)
        <5>1. job' = [job EXCEPT ![e] = [job[e] EXCEPT !.pc = "check", !.todo = Tail(@)]]
          BY <4>4 DEF EvaluateFails, IInv, Shape, TypeOK
        <5> QED BY <4>1, <5>1 DEF Job, IInv, Shape, TypeOK
      <4>5. CASE \E p \in job[e].pending : PassOver(e, p)
        BY <4>1, <4>5 DEF PassOver, Job, IInv, Shape, TypeOK
      <4> QED BY <2>2, <4>2, <4>3, <4>4, <4>5
    <3>2. e \in Pending(r)' => e \in Pending(r)
      BY <1>2, <3>1 DEF Pending, About
    <3> QED BY <1>2, <3>2, SameSets DEF Pending
  <2> QED BY <2>1, <2>2
<1> QED BY <1>2, <1>3, <1>5, <1>6, NothingMailed

\* What goes wrong is paid for.
LEMMA FaultBounds ==
    ASSUME IInv, Shape', NEW e \in Engines,
           Abandon(e) \/ MarkFails(e) \/ \E p \in job[e].pending : NotifyFails(e, p)
    PROVE  Bounds'
<1> SUFFICES ASSUME NEW r \in Rules
             PROVE  MailsBounded(r)' /\ LateBounded(r)'
  BY DEF Bounds
<1>1. /\ UNCHANGED alert /\ faults' = faults + 1 /\ faults \in Nat
      /\ \A x \in Engines \ {e} : job'[x] = job[x]
  BY DEF Abandon, MarkFails, NotifyFails, Rows, Fault, IInv, Shape, TypeOK
<1>2. Orphans' \subseteq Orphans
  <2>1. ASSUME NEW x \in Engines \ {e}
        PROVE  x \in Orphans' => x \in Orphans
    <3>1. lock \in {lock', e}
      BY DEF Abandon, MarkFails, NotifyFails, Released
    <3> QED BY <1>1, <2>1, <3>1, SameSets DEF Orphans
  <2>2. e \in Orphans' => e \in Orphans
    BY DEF Orphans, Active, Abandon, MarkFails, NotifyFails, IInv, Shape, TypeOK, Idle
  <2> QED BY <2>1, <2>2 DEF Orphans, Active
<1>3. Pending(r)' \subseteq Pending(r)
  <2>1. job'[e].pending \subseteq job[e].pending
    <3>1. CASE Abandon(e)
      BY <3>1 DEF Abandon, Idle, IInv, Shape, TypeOK
    <3>2. CASE MarkFails(e)
      <4>1. job' = [job EXCEPT ![e] = [job[e] EXCEPT !.pc = "notify", !.sent = None]]
        BY <3>2 DEF MarkFails, IInv, Shape, TypeOK
      <4> QED BY <4>1 DEF Job, IInv, Shape, TypeOK
    <3>3. CASE \E p \in job[e].pending : NotifyFails(e, p)
      BY <3>3 DEF NotifyFails, Job, IInv, Shape, TypeOK
    <3> QED BY <3>1, <3>2, <3>3
  <2>2. e \in Pending(r)' => e \in Pending(r)
    BY <1>1, <2>1 DEF Pending, About
  <2> QED BY <1>1, <2>2, SameSets DEF Pending
<1>4. CASE Abandon(e) \/ MarkFails(e)
  <2>1. mails'[r] = mails[r] /\ late'[r] = late[r]
    BY <1>4 DEF Abandon, MarkFails, History
  <2>2. Sent(r) \subseteq Sent(r)' \cup {e}
    BY <1>1, SameSets DEF Sent
  <2> QED BY <1>1, <1>2, <1>3, <2>1, <2>2, FaultPays
<1>5. CASE \E p \in job[e].pending : NotifyFails(e, p)
  <2>1. PICK p \in job[e].pending : NotifyFails(e, p)
    BY <1>5
  <2>2. job[e] \in Job /\ p \in Found /\ job[e].sent = None
    BY <2>1 DEF NotifyFails, IInv, Shape, TypeOK, InHand, Job
  <2>3. \A f \in [Rules -> Nat] : Counted(f, p)[r] = f[r] \/ (r = p.rule /\ Counted(f, p)[r] = f[r] + 1)
    BY <2>2 DEF Counted, Found
  <2>4. /\ mails'[r] \in {mails[r], mails[r] + 1}
        /\ late'[r] = late[r] \/ (late'[r] = late[r] + 1 /\ alert[r].state = "acknowledged")
    BY <2>1, <2>3 DEF NotifyFails, Acknowledged, IInv, Shape, TypeOK
  <2>5. Sent(r) \subseteq Sent(r)'
    <3>1. e \notin Sent(r)
      BY <2>2 DEF Sent
    <3> QED BY <1>1, <3>1, SameSets DEF Sent
  <2> QED BY <1>1, <1>2, <1>3, <2>4, <2>5, FaultPays
<1> QED BY <1>4, <1>5

\* A connection that is lost makes one more orphan.
LEMMA LoseLockBounds ==
    ASSUME IInv, Shape', LoseLock
    PROVE  Bounds'
<1> SUFFICES ASSUME NEW r \in Rules
             PROVE  MailsBounded(r)' /\ LateBounded(r)'
  BY DEF Bounds
<1>1. UNCHANGED <<alert, job, mails, late>> /\ faults' = faults + 1
  BY DEF LoseLock, Rows, History, Fault
<1>2. Pending(r)' = Pending(r) /\ Sent(r)' = Sent(r)
  BY <1>1 DEF Pending, Sent, About
<1>3. Orphans' \subseteq Orphans \cup {lock}
  BY <1>1 DEF Orphans, Active
<1> QED BY <1>1, <1>2, <1>3, FaultPays

\* A new alert has not been mailed, and no cycle knows of it.
LEMMA EvaluateBounds ==
    ASSUME IInv, Shape', NEW e \in Engines, Evaluate(e)
    PROVE  Bounds'
<1> SUFFICES ASSUME NEW r \in Rules
             PROVE  MailsBounded(r)' /\ LateBounded(r)'
  BY DEF Bounds
<1>1. job[e] \in Job /\ job[e].todo # <<>> /\ job[e].pc \in {"raise", "resolve"}
  BY DEF IInv, Shape, TypeOK, InHand, Evaluate
<1>2. PICK x \in Rules, s \in Severities :
          /\ RaiseAlert(x, s) \/ (ResolveAlert(x) /\ UNCHANGED History)
          /\ job' = [job EXCEPT ![e].pc = "check", ![e].todo = Tail(@)]
          /\ UNCHANGED <<lock, faults>>
  <2>1. Head(job[e].todo) \in Rules
    BY <1>1 DEF Job
  <2>2. job[e].rules[Head(job[e].todo)].severity \in Severities
    BY <1>1, <2>1 DEF Job, RuleRows
  <2> QED BY <1>1, <2>1, <2>2 DEF Evaluate, Rows, Severities
<1>3. /\ \A y \in Engines : job'[y].pending = job[y].pending /\ job'[y].sent = job[y].sent
      /\ \A y \in Engines \ {e} : job'[y] = job[y]
      /\ job'[e].pc = "check"
  <2>1. job' = [job EXCEPT ![e] = [job[e] EXCEPT !.pc = "check", !.todo = Tail(@)]]
    BY <1>2 DEF IInv, Shape, TypeOK
  <2> QED BY <1>1, <2>1 DEF Job, IInv, Shape, TypeOK
<1>4. Orphans' = Orphans
  BY <1>1, <1>2, <1>3 DEF Orphans, Active
<1>5. Cardinality(Orphans) <= faults /\ faults \in Nat /\ faults' = faults /\ MailsBounded(r) /\ LateBounded(r)
  BY <1>2 DEF IInv, Shape, TypeOK
<1>6. CASE alert'[r].id = alert[r].id /\ mails'[r] = mails[r] /\ late'[r] = late[r]
           /\ alert'[r].notified = alert[r].notified
           /\ (alert'[r].state = alert[r].state \/ alert'[r].state = "resolved")
  <2>1. Pending(r)' = Pending(r) /\ Sent(r)' = Sent(r)
    BY <1>3, <1>6 DEF Pending, Sent, About
  <2>2. MailsBounded(r)'
    BY <1>4, <1>5, <1>6, <2>1 DEF MailsBounded
  <2>3. LateBounded(r)'
    <3>1. Cardinality(Pending(r)) \in Nat /\ late[r] \in Nat
      BY FewCycles, Numbers DEF IInv
    <3> QED BY <1>5, <1>6, <2>1, <3>1 DEF LateBounded
  <2> QED BY <2>2, <2>3
<1>7. CASE alert'[r].notified = "never" /\ alert'[r].state = "firing" /\ mails'[r] = 0 /\ late'[r] = 0
  <2>1. Sent(r)' \in SUBSET Engines /\ Orphans \in SUBSET Engines
    BY DEF Sent, Orphans, Active
  <2>2. Cardinality(Sent(r)') \in Nat /\ Cardinality(Orphans) \in Nat
    BY <2>1, Counts
  <2> QED BY <1>4, <1>5, <1>7, <2>2 DEF MailsBounded, LateBounded
<1>8. \/ /\ alert'[r].id = alert[r].id /\ mails'[r] = mails[r] /\ late'[r] = late[r]
         /\ alert'[r].notified = alert[r].notified
         /\ alert'[r].state = alert[r].state \/ alert'[r].state = "resolved"
      \/ alert'[r].notified = "never" /\ alert'[r].state = "firing" /\ mails'[r] = 0 /\ late'[r] = 0
  <2>1. CASE r # x
    BY <1>2, <2>1 DEF RaiseAlert, ResolveAlert, History, IInv, Shape, TypeOK
  <2>2. CASE r = x /\ Live(x) /\ RaiseAlert(x, s)
    BY <2>2 DEF RaiseAlert, History, IInv, Shape, TypeOK, Alert
  <2>3. CASE r = x /\ ~Live(x) /\ RaiseAlert(x, s)
    BY <2>3 DEF RaiseAlert, IInv, Shape, TypeOK, Alert
  <2>4. CASE r = x /\ ResolveAlert(x) /\ UNCHANGED History
    BY <2>4 DEF ResolveAlert, History, IInv, Shape, TypeOK, Alert
  <2> QED BY <1>2, <2>1, <2>2, <2>3, <2>4
<1> QED BY <1>6, <1>7, <1>8

\* A mail is one more, and one who knows of the alert less; it is about to be marked.
LEMMA NotifyBounds ==
    ASSUME IInv, Shape', NEW e \in Engines, NEW p \in job[e].pending, Notify(e, p)
    PROVE  Bounds'
<1> SUFFICES ASSUME NEW r \in Rules
             PROVE  MailsBounded(r)' /\ LateBounded(r)'
  BY DEF Bounds
<1>1. job[e] \in Job /\ p \in Found /\ p # None /\ job[e].sent = None /\ job[e].pc = "notify"
  BY NoneAssumption DEF Notify, IInv, Shape, TypeOK, InHand, Job
<1>2. /\ alert' = alert /\ lock' = lock /\ faults' = faults
      /\ mails' = Counted(mails, p) /\ late' = IF Acknowledged(p) THEN Counted(late, p) ELSE late
      /\ \A x \in Engines \ {e} : job'[x] = job[x]
      /\ job'[e].pc = "mark" /\ job'[e].pending = job[e].pending \ {p} /\ job'[e].sent = p
  <2>1. job' = [job EXCEPT ![e] = [job[e] EXCEPT !.pc = "mark", !.pending = @ \ {p}, !.sent = p]]
    BY DEF Notify, IInv, Shape, TypeOK
  <2> QED BY <1>1, <2>1 DEF Notify, Rows, Job, IInv, Shape, TypeOK
<1>3. Orphans' = Orphans
  BY <1>1, <1>2 DEF Orphans, Active
<1>4. CASE ~About(p, r)
  <2>1. mails'[r] = mails[r] /\ late'[r] = late[r]
    BY <1>1, <1>2, <1>4 DEF Counted, About, Found, IInv, Shape, TypeOK
  <2>2. e \in Pending(r)' <=> e \in Pending(r)
    BY <1>2, <1>4 DEF Pending, About
  <2>3. e \notin Sent(r)' /\ e \notin Sent(r)
    BY <1>1, <1>2, <1>4 DEF Sent, About
  <2>4. Pending(r)' \subseteq Pending(r) /\ Sent(r) \subseteq Sent(r)'
    BY <1>2, <2>2, <2>3, SameSets DEF Pending, Sent
  <2> QED BY <1>2, <1>3, <2>1, <2>4, NothingMailed, Numbers DEF IInv
<1>5. CASE About(p, r)
  <2>1. /\ mails'[r] = mails[r] + 1
        /\ late'[r] = IF alert[r].state = "acknowledged" THEN late[r] + 1 ELSE late[r]
    BY <1>1, <1>2, <1>5 DEF Counted, About, Found, Acknowledged, IInv, Shape, TypeOK
  <2>2. e \in Pending(r) /\ e \notin Pending(r)'
    <3>1. \A q \in job[e].pending : q.rule = r => q = p
      BY <1>5 DEF IInv, Shape, InHand, About
    <3> QED BY <1>2, <1>5, <3>1 DEF Pending, About
  <2>3. e \in Sent(r)' /\ e \notin Sent(r)
    BY <1>1, <1>2, <1>5 DEF Sent, About
  <2>4. Pending(r)' \subseteq Pending(r) \ {e} /\ Sent(r) \subseteq Sent(r)'
    BY <1>2, <2>2, <2>3, SameSets DEF Pending, Sent
  <2>5. /\ Pending(r)' \in SUBSET Engines /\ Sent(r)' \in SUBSET Engines
        /\ Pending(r) \in SUBSET Engines /\ Sent(r) \in SUBSET Engines
    BY DEF Pending, Sent
  <2>6. /\ Cardinality(Pending(r)') <= Cardinality(Pending(r)) - 1
        /\ Cardinality(Pending(r)') \in Nat /\ Cardinality(Pending(r)) \in Nat
    BY <2>2, <2>4, <2>5, Counts
  <2>7. /\ Cardinality(Sent(r)') >= Cardinality(Sent(r)) + 1
        /\ Cardinality(Sent(r)') \in Nat /\ Cardinality(Sent(r)) \in Nat
    BY <2>3, <2>4, <2>5, Counts
  <2>8. /\ mails[r] \in Nat /\ late[r] \in Nat /\ faults \in Nat
        /\ MailsBounded(r) /\ LateBounded(r) /\ Cardinality(Orphans) \in Nat
    BY Numbers, FewCycles DEF IInv
  <2>9. MailsBounded(r)'
    BY <1>2, <1>3, <2>1, <2>6, <2>7, <2>8 DEF MailsBounded
  <2>10. LateBounded(r)'
    BY <1>2, <2>1, <2>6, <2>8 DEF LateBounded
  <2> QED BY <2>9, <2>10
<1> QED BY <1>4, <1>5

\* Once a mail is marked, the others who know of the alert, and the orphans they are
\* or have seen, are all that is left to mail it.
LEMMA MarkBounds ==
    ASSUME IInv, Shape', NEW e \in Engines, Mark(e)
    PROVE  Bounds'
<1> SUFFICES ASSUME NEW r \in Rules
             PROVE  MailsBounded(r)' /\ LateBounded(r)'
  BY DEF Bounds
<1>1. PICK p \in Found : p = job[e].sent /\ p # None /\ job[e].pc = "mark" /\ job[e] \in Job
  BY DEF Mark, IInv, Shape, TypeOK, InHand, Job
<1>2. /\ alert' = [alert EXCEPT ![p.rule].notified = IF p.id = alert[p.rule].id THEN "recent" ELSE @]
      /\ lock' = lock /\ faults' = faults /\ mails' = mails /\ late' = late
      /\ \A x \in Engines \ {e} : job'[x] = job[x]
      /\ job'[e].pc = "notify" /\ job'[e].pending = job[e].pending
  <2>1. job' = [job EXCEPT ![e] = [job[e] EXCEPT !.pc = "notify", !.sent = None]]
    BY DEF Mark, IInv, Shape, TypeOK
  <2> QED BY <1>1, <2>1 DEF Mark, Marked, Rows, History, Job, IInv, Shape, TypeOK
<1>3. /\ alert'[r].id = alert[r].id /\ alert'[r].state = alert[r].state
      /\ alert'[r].notified = IF About(p, r) THEN "recent" ELSE alert[r].notified
  <2>1. alert[r] \in Alert
    BY DEF IInv, Shape, TypeOK
  <2> QED BY <1>2, <2>1 DEF About, Alert, IInv, Shape, TypeOK
<1>4. Orphans' = Orphans
  BY <1>1, <1>2 DEF Orphans, Active
<1>5. Pending(r)' = Pending(r)
  <2>1. e \in Pending(r)' <=> e \in Pending(r)
    BY <1>2, <1>3 DEF Pending, About
  <2> QED BY <1>2, <1>3, <2>1, SameSets DEF Pending
<1>6. CASE ~About(p, r)
  <2>1. Sent(r) \subseteq Sent(r)'
    <3>1. e \notin Sent(r)
      BY <1>1, <1>6 DEF Sent
    <3> QED BY <1>2, <1>3, <3>1, SameSets DEF Sent
  <2> QED BY <1>2, <1>3, <1>4, <1>5, <1>6, <2>1, NothingMailed, Numbers DEF IInv
<1>7. CASE About(p, r)
  <2>1. /\ mails[r] \in Nat /\ late[r] \in Nat /\ faults \in Nat
        /\ MailsBounded(r) /\ LateBounded(r)
    BY Numbers DEF IInv
  <2>2. /\ Cardinality(Pending(r)) \in Nat /\ Cardinality(Sent(r)) \in Nat
        /\ Cardinality(Orphans) \in Nat
        /\ Cardinality(Pending(r)) + Cardinality(Sent(r)) <= Cardinality(Orphans) + 1
    BY FewCycles DEF IInv
  <2>3. mails[r] + Cardinality(Pending(r)) <= 1 + faults
    BY <2>1, <2>2 DEF MailsBounded
  <2>4. MailsBounded(r)'
    BY <1>2, <1>3, <1>5, <1>7, <2>3 DEF MailsBounded
  <2>5. LateBounded(r)'
    BY <1>2, <1>3, <1>5, <2>1 DEF LateBounded
  <2> QED BY <2>4, <2>5
<1> QED BY <1>6, <1>7

\* Time passes, operators act.
LEMMA EnvironmentBounds ==
    ASSUME IInv, Shape',
           \/ UNCHANGED vars \/ \E enabled, key \in BOOLEAN : SaveMail(enabled, key)
           \/ \E x \in Rules : \/ Change(x) \/ QuietPasses(x) \/ Acknowledge(x) \/ ResolveByHand(x)
                               \/ \E row \in RuleRows : UpdateRule(x, row)
    PROVE  Bounds'
<1> SUFFICES ASSUME NEW r \in Rules
             PROVE  MailsBounded(r)' /\ LateBounded(r)'
  BY DEF Bounds
<1>1. lock' = lock /\ job' = job /\ faults' = faults /\ late' = late
  BY DEF vars, SaveMail, Change, QuietPasses, Acknowledge, ResolveByHand, UpdateRule, History
<1>2. alert[r] \in Alert /\ mails[r] \in Nat /\ late[r] \in Nat /\ faults \in Nat /\ MailsBounded(r) /\ LateBounded(r)
      /\ Cardinality(Orphans) <= faults
  BY Numbers DEF IInv
<1> DEFINE Allowed ==
      /\ alert'[r].id = alert[r].id
      /\ \/ alert'[r].notified = alert[r].notified /\ mails'[r] = mails[r]
         \/ alert'[r].notified = "past" /\ mails'[r] = 0
      /\ \/ alert'[r].state \in {alert[r].state, "resolved"}
         \/ alert[r].state = "firing" /\ alert'[r].state = "acknowledged"
<1>3. Allowed
  <2>1. CASE UNCHANGED <<alert, mails>>
    BY <2>1
  <2>2. ASSUME NEW x \in Rules, QuietPasses(x) \/ Acknowledge(x) \/ ResolveByHand(x)
        PROVE  Allowed
    <3>1. CASE x # r
      BY <2>2, <3>1 DEF QuietPasses, Acknowledge, ResolveByHand, ResolveAlert, History, IInv, Shape, TypeOK
    <3>2. CASE x = r
      BY <1>2, <2>2, <3>2 DEF QuietPasses, Acknowledge, ResolveByHand, ResolveAlert, History, IInv,
                              Shape, TypeOK, Alert
    <3> QED BY <3>1, <3>2
  <2> QED BY <2>1, <2>2 DEF vars, SaveMail, Change, UpdateRule, History
<1>4. Orphans' = Orphans /\ Pending(r)' = Pending(r) /\ Sent(r)' = Sent(r)
  BY <1>1, <1>3 DEF Orphans, Active, Pending, Sent, About
<1>5. /\ Cardinality(Pending(r)) \in Nat /\ Cardinality(Sent(r)) \in Nat
      /\ Cardinality(Orphans) \in Nat
      /\ Cardinality(Pending(r)) + Cardinality(Sent(r)) <= Cardinality(Orphans) + 1
  BY FewCycles DEF IInv
<1>6. MailsBounded(r)'
  BY <1>1, <1>2, <1>3, <1>4, <1>5 DEF MailsBounded
<1>7. LateBounded(r)'
  BY <1>1, <1>2, <1>3, <1>4, <1>5 DEF LateBounded
<1> QED BY <1>6, <1>7

-----------------------------------------------------------------------------
\* At first nothing fires and nobody is at work.
LEMMA InitIInv ==
    ASSUME Init
    PROVE  IInv
<1> USE DEF Init
<1>1. Shape
  BY AlertsAssumption DEF Shape, TypeOK, Alert, Job, Idle, Fresh, RuleRows, Severities, InHand
<1>2. Orphans = {} /\ Cardinality(Orphans) = 0
  <2>1. Orphans = {}
    BY DEF Orphans, Active, Idle
  <2> QED BY <2>1, FS_EmptySet
<1>3. ASSUME NEW r \in Rules
      PROVE  MailsBounded(r) /\ LateBounded(r)
  BY <1>1, <1>2, FewCycles DEF MailsBounded, LateBounded
<1> QED BY <1>1, <1>2, <1>3 DEF IInv

\* Each step keeps within the bounds.
LEMMA NextStep ==
    ASSUME IInv, [Next]_vars
    PROVE  IInv'
<1>1. Shape'
  BY BeginShape, CheckShape, EvaluateShape, EvaluateFailsShape, FindPendingShape, MailShape, MarkShape,
     EndShape, EnvironmentShape DEF Next, Work, EngineFault, IInv
<1>2. Cardinality(Orphans') <= faults'
  BY <1>1, OrphansStep
<1>3. Bounds'
  BY <1>1, QuietBounds, FaultBounds, LoseLockBounds, EvaluateBounds, NotifyBounds, MarkBounds,
     EnvironmentBounds DEF Next, Work, EngineFault, Environment
<1> QED BY <1>1, <1>2, <1>3 DEF IInv, Bounds

\* The invariant is one, for any number of processes, rules, alerts and faults.
LEMMA Invariance == Spec => []IInv
<1>1. Init => IInv
  BY InitIInv
<1>2. IInv /\ [Next]_vars => IInv'
  BY NextStep
<1> QED BY <1>1, <1>2, PTL DEF Spec

\* An alert is mailed once before it is quiet, and once more for each fault, however
\* many processes with the engine there are.
THEOREM AlertsAreMailedOnce == Spec => []MailedOnce
<1>1. IInv => MailedOnce
  <2> SUFFICES ASSUME IInv, NEW r \in Rules
               PROVE  mails[r] <= 1 + faults
    BY DEF MailedOnce
  <2>1. mails[r] \in Nat /\ faults \in Nat /\ MailsBounded(r)
    BY Numbers DEF IInv
  <2>2. /\ Cardinality(Pending(r)) \in Nat /\ Cardinality(Sent(r)) \in Nat
        /\ Cardinality(Orphans) \in Nat
        /\ Cardinality(Pending(r)) + Cardinality(Sent(r)) <= Cardinality(Orphans) + 1
    BY FewCycles DEF IInv
  <2> QED BY <2>1, <2>2 DEF MailsBounded
<1> QED BY <1>1, Invariance, PTL

\* An alert that somebody acknowledged is mailed at most once more, and once more for
\* each fault.
THEOREM AcknowledgedStaysQuiet == Spec => []AcknowledgedIsQuiet
<1>1. IInv => AcknowledgedIsQuiet
  <2> SUFFICES ASSUME IInv, NEW r \in Rules
               PROVE  late[r] <= 1 + faults
    BY DEF AcknowledgedIsQuiet
  <2>1. late[r] \in Nat /\ faults \in Nat /\ LateBounded(r)
    BY Numbers DEF IInv
  <2>2. Cardinality(Pending(r)) \in Nat
    BY FewCycles DEF IInv
  <2> QED BY <2>1, <2>2 DEF LateBounded
<1> QED BY <1>1, Invariance, PTL
=============================================================================
