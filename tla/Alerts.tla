------------------------------- MODULE Alerts -------------------------------
(***************************************************************************)
(* The alert engine: the cycle that every process with the worker role     *)
(* runs under one advisory lock, the alerts and rules operators change     *)
(* meanwhile, and the mail that tells administrators.                      *)
(* alerts/engine.go, db/{alerts,singleton,appsettings}.go,                 *)
(* console/{alerts,mailer}.go.                                             *)
(*                                                                         *)
(* Each statement commits on its own.  The cycle does not run on the       *)
(* connection that holds the lock.  A rule has at most one alert that is   *)
(* not resolved (a partial unique index): only a rule's last row is kept.  *)
(***************************************************************************)
EXTENDS Naturals, Sequences, FiniteSets

CONSTANTS
    Engines,        \* processes with the worker role
    Order,          \* the rules, in the order of their names
    Graded,         \* rules whose check says how severe it is: disk_space
    EnvKey,         \* RESEND_API_KEY is set
    MaxAlerts,      \* bound: alerts raised per rule
    MaxFaults,      \* bound: crashes, lost connections, failed statements and sends
    None

Rules == {Order[i] : i \in 1..Len(Order)}

ASSUME AlertsAssumption ==
    /\ Order \in Seq(Rules) /\ Graded \subseteq Rules
    /\ IsFiniteSet(Engines) /\ None \notin Engines
    /\ EnvKey \in BOOLEAN

VARIABLES
    bad,            \* bad[r]: what the rule is about is the case
    rule,           \* alert_rules
    alert,          \* alerts: the last row of a rule; id 0 is none
    mail,           \* app_settings: the configuration of mail
    lock,           \* the session that holds alertEngineLockID
    job,            \* an engine's cycle
    mails,          \* history: mails about the alert since it was raised or was quiet
    late,           \* history: mails about the alert since it was acknowledged
    faults          \* faults so far

vars == <<bad, rule, alert, mail, lock, job, mails, late, faults>>

Severities == {"info", "warning"}        \* critical is mailed as warning is
RuleRows == [enabled : BOOLEAN, severity : Severities]

\* An alert as a cycle found it, which it may have to mail.
Found == [rule : Rules, id : Nat, severity : Severities]
ASSUME NoneAssumption == None \notin Found

Fresh == [enabled |-> TRUE, severity |-> "warning"]
Idle == [pc |-> "idle", rules |-> [r \in Rules |-> Fresh], todo |-> <<>>,
         pending |-> {}, sent |-> None]

\* SeedRules has run; nothing is saved about mail: the environment's key enables it.
Init ==
    /\ bad = [r \in Rules |-> FALSE]
    /\ rule = [r \in Rules |-> Fresh]
    /\ alert = [r \in Rules |-> [id |-> 0, state |-> "resolved", severity |-> "info",
                                 notified |-> "never"]]
    /\ mail = [enabled |-> EnvKey, key |-> FALSE]
    /\ lock = None
    /\ job = [e \in Engines |-> Idle]
    /\ mails = [r \in Rules |-> 0]
    /\ late = [r \in Rules |-> 0]
    /\ faults = 0

-----------------------------------------------------------------------------
Live(r) == alert[r].state # "resolved"
Fault == faults < MaxFaults /\ faults' = faults + 1
Step(e, to) == job' = [job EXCEPT ![e].pc = to]
Rows == <<bad, rule, mail>>
History == <<mails, late>>

\* Resolve of the mailer, and Configured of what it returns.  A key comes with the
\* sender's address that Configured asks for, too.
Configured == IF mail.key THEN mail.enabled ELSE EnvKey

\* RaiseAlert: a live alert keeps its state, whatever it finds.
RaiseAlert(r, severity) ==
    IF Live(r)
    THEN /\ alert' = [alert EXCEPT ![r].severity = severity]
         /\ UNCHANGED History
    ELSE /\ alert[r].id < MaxAlerts
         /\ alert' = [alert EXCEPT ![r] = [id |-> @.id + 1, state |-> "firing",
                                           severity |-> severity, notified |-> "never"]]
         /\ mails' = [mails EXCEPT ![r] = 0]
         /\ late' = [late EXCEPT ![r] = 0]

ResolveAlert(r) == alert' = [alert EXCEPT ![r].state = "resolved"]

\* Mistake: what is acknowledged is included.
AwaitingLive ==
    {[rule |-> r, id |-> alert[r].id, severity |-> alert[r].severity] :
        r \in {x \in Rules : Live(x) /\ alert[x].notified # "recent"}}

\* AlertsAwaitingNotification, without those that are not worth a mail.
Awaiting ==
    {[rule |-> r, id |-> alert[r].id, severity |-> alert[r].severity] :
        r \in {x \in Rules : alert[x].state = "firing" /\ alert[x].notified # "recent"}}

-----------------------------------------------------------------------------
(* The cycle.                                                              *)

\* Mistake: the lock is not asked for.
CanAlwaysBegin(e) == job[e].pc = "idle"

\* WithSingleton.  Without the lock the engine waits for its next tick.
CanBegin(e) == job[e].pc = "idle" /\ lock = None

\* evaluateAll begins: ListAlertRules.
Begin(e) ==
    /\ CanBegin(e)
    /\ lock' = e
    /\ job' = [job EXCEPT ![e] = [Idle EXCEPT !.pc = "check", !.rules = rule, !.todo = Order]]
    /\ UNCHANGED <<Rows, alert, History, faults>>

\* Mistake: a rule that is disabled is passed over.
CheckEnabled(e) ==
    /\ job[e].pc = "check" /\ job[e].todo # <<>>
    /\ LET r == Head(job[e].todo)
       IN  IF job[e].rules[r].enabled THEN Step(e, IF bad[r] THEN "raise" ELSE "resolve")
           ELSE job' = [job EXCEPT ![e].todo = Tail(@)]
    /\ UNCHANGED <<Rows, alert, lock, History, faults>>

\* evaluate, up to its result: what is the case now, by the rule as it was read.
Check(e) ==
    /\ job[e].pc = "check" /\ job[e].todo # <<>>
    /\ LET r == Head(job[e].todo)
       IN  Step(e, IF job[e].rules[r].enabled /\ bad[r] THEN "raise" ELSE "resolve")
    /\ UNCHANGED <<Rows, alert, lock, History, faults>>

Evaluate(e) ==
    /\ job[e].pc \in {"raise", "resolve"}
    /\ LET r == Head(job[e].todo)
           severity == IF r \in Graded THEN "warning" ELSE job[e].rules[r].severity
       IN  IF job[e].pc = "raise" THEN RaiseAlert(r, severity)
           ELSE ResolveAlert(r) /\ UNCHANGED History
    /\ job' = [job EXCEPT ![e].pc = "check", ![e].todo = Tail(@)]
    /\ UNCHANGED <<Rows, lock, faults>>

\* A statement of evaluate fails: the next rule.
EvaluateFails(e) ==
    /\ Fault
    /\ job[e].pc \in {"raise", "resolve"}
    /\ job' = [job EXCEPT ![e].pc = "check", ![e].todo = Tail(@)]
    /\ UNCHANGED <<Rows, alert, lock, History>>

\* notify begins.
FindPending(e) ==
    /\ job[e].pc = "check" /\ job[e].todo = <<>>
    /\ job' = [job EXCEPT ![e] = [Idle EXCEPT !.pc = "notify", !.pending = Awaiting]]
    /\ UNCHANGED <<Rows, alert, lock, History, faults>>

Counted(f, p) == [f EXCEPT ![p.rule] = IF p.id = alert[p.rule].id THEN @ + 1 ELSE @]
Acknowledged(p) == alert[p.rule].state = "acknowledged"

\* NotifyAlert has mailed every administrator.
Notify(e, p) ==
    /\ job[e].pc = "notify" /\ p \in job[e].pending
    /\ p.severity # "info" /\ Configured
    /\ job' = [job EXCEPT ![e].pc = "mark", ![e].pending = @ \ {p}, ![e].sent = p]
    /\ mails' = Counted(mails, p)
    /\ late' = IF Acknowledged(p) THEN Counted(late, p) ELSE late
    /\ UNCHANGED <<Rows, alert, lock, faults>>

\* An alert that is not worth a mail, or cannot be mailed, is passed over.
PassOver(e, p) ==
    /\ job[e].pc = "notify" /\ p \in job[e].pending
    /\ p.severity = "info" \/ ~Configured
    /\ job' = [job EXCEPT ![e].pending = @ \ {p}]
    /\ UNCHANGED <<Rows, alert, lock, History, faults>>

\* A send fails, when some administrators may have been mailed: it counts as not sent.
NotifyFails(e, p) ==
    /\ Fault
    /\ job[e].pc = "notify" /\ p \in job[e].pending /\ p.severity # "info"
    /\ job' = [job EXCEPT ![e].pending = @ \ {p}]
    /\ \E some \in BOOLEAN :
         /\ mails' = IF some THEN Counted(mails, p) ELSE mails
         /\ late' = IF some /\ Acknowledged(p) THEN Counted(late, p) ELSE late
    /\ UNCHANGED <<Rows, alert, lock>>

\* MarkAlertNotified, by the id of the alert.
Marked(p) == [alert EXCEPT ![p.rule].notified = IF p.id = alert[p.rule].id THEN "recent" ELSE @]

Mark(e) ==
    /\ job[e].pc = "mark"
    /\ alert' = Marked(job[e].sent)
    /\ job' = [job EXCEPT ![e].pc = "notify", ![e].sent = None]
    /\ UNCHANGED <<Rows, lock, History, faults>>

MarkFails(e) ==
    /\ Fault
    /\ job[e].pc = "mark"
    /\ job' = [job EXCEPT ![e].pc = "notify", ![e].sent = None]
    /\ UNCHANGED <<Rows, alert, lock, History>>

\* Mistake: the connection goes back to the pool with the lock.
ReleasedNever(e) == lock

Released(e) == IF lock = e THEN None ELSE lock

\* The cycle is over: the lock is released on its own connection.
End(e) ==
    /\ job[e].pc = "notify" /\ job[e].pending = {}
    /\ lock' = Released(e)
    /\ job' = [job EXCEPT ![e] = Idle]
    /\ UNCHANGED <<Rows, alert, History, faults>>

\* The process dies, or the rules or the pending alerts cannot be read.
Abandon(e) ==
    /\ Fault
    /\ job[e].pc # "idle"
    /\ lock' = Released(e)
    /\ job' = [job EXCEPT ![e] = Idle]
    /\ UNCHANGED <<Rows, alert, History>>

\* The connection that holds the lock is lost; the cycle goes on.
LoseLock ==
    /\ Fault
    /\ lock # None
    /\ lock' = None
    /\ UNCHANGED <<Rows, alert, job, History>>

-----------------------------------------------------------------------------
(* Operators and the world.                                                *)

Change(r) ==
    /\ bad' = [bad EXCEPT ![r] = ~@]
    /\ UNCHANGED <<rule, mail, alert, lock, job, History, faults>>

\* NotifyQuiet has passed; no cycle lasts that long.
QuietPasses(r) ==
    /\ alert[r].notified = "recent"
    /\ \A e \in Engines : (job[e].sent # None => job[e].sent.rule # r)
                          /\ \A p \in job[e].pending : p.rule # r
    /\ alert' = [alert EXCEPT ![r].notified = "past"]
    /\ mails' = [mails EXCEPT ![r] = 0]
    /\ UNCHANGED <<Rows, lock, job, late, faults>>

Acknowledge(r) ==
    /\ alert[r].state = "firing"
    /\ alert' = [alert EXCEPT ![r].state = "acknowledged"]
    /\ UNCHANGED <<Rows, lock, job, History, faults>>

\* By the id of any alert of the rule, an older one too.
ResolveByHand(r) ==
    /\ Live(r)
    /\ ResolveAlert(r)
    /\ UNCHANGED <<Rows, lock, job, History, faults>>

UpdateRule(r, row) ==
    /\ rule' = [rule EXCEPT ![r] = row]
    /\ UNCHANGED <<bad, mail, alert, lock, job, History, faults>>

\* handleSaveAlertEmailSettings: to enable takes a key, a new one or an old one.
SaveMail(enabled, key) ==
    /\ enabled => key \/ mail.key \/ EnvKey
    /\ mail' = [enabled |-> enabled, key |-> mail.key \/ key]
    /\ UNCHANGED <<bad, rule, alert, lock, job, History, faults>>

-----------------------------------------------------------------------------
\* A cycle under way.
Work(e) ==
    \/ Check(e) \/ Evaluate(e) \/ FindPending(e) \/ Mark(e) \/ End(e)
    \/ \E p \in job[e].pending : Notify(e, p) \/ PassOver(e, p)

EngineFault(e) ==
    \/ EvaluateFails(e) \/ MarkFails(e) \/ Abandon(e)
    \/ \E p \in job[e].pending : NotifyFails(e, p)

Environment ==
    \/ LoseLock
    \/ \E r \in Rules :
         \/ Change(r) \/ QuietPasses(r) \/ Acknowledge(r) \/ ResolveByHand(r)
         \/ \E row \in RuleRows : UpdateRule(r, row)
    \/ \E enabled, key \in BOOLEAN : SaveMail(enabled, key)

Next == Environment \/ \E e \in Engines : Begin(e) \/ Work(e) \/ EngineFault(e)

\* Tickers fire, statements and sends end.  Which process gets the lock is open.
Fairness ==
    /\ WF_vars(\E e \in Engines : Begin(e))
    /\ \A e \in Engines : WF_vars(Work(e))

Spec == Init /\ [][Next]_vars /\ Fairness

-----------------------------------------------------------------------------
(* Properties.                                                             *)

\* An alert is mailed once before it is quiet for NotifyQuiet, and once more for
\* each fault: an engine that is killed or cut off between sending and marking,
\* a mark or a later recipient that fails (EvaluateOnce: "an email cannot be
\* un-sent").
MailedOnce == \A r \in Rules : mails[r] <= 1 + faults

\* What was acknowledged is mailed no more, but by a cycle that had found it
\* before (handleAcknowledgeAlert: "will not notify again").
AcknowledgedIsQuiet == \A r \in Rules : late[r] <= 1 + faults

Owed(r) ==
    /\ alert[r].state = "firing" /\ alert[r].notified # "recent"
    /\ alert[r].severity # "info" /\ Configured

\* An alert that fires is mailed, or somebody saw to it: no engine that died holds
\* up the others (WithSingleton: "a crashed engine does not wedge the others").
Mailed == \A r \in Rules : Owed(r) ~> ~Owed(r)

\* An alert ends when what it is about has ended, and when its rule is disabled
\* (evaluateAll: "turning a noisy rule off actually clears it").
Cleared ==
    \A r \in Rules :
        /\ (Live(r) /\ ~bad[r]) ~> (~Live(r) \/ bad[r])
        /\ (Live(r) /\ ~rule[r].enabled) ~> (~Live(r) \/ rule[r].enabled)
=============================================================================
