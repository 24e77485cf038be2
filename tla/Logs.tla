-------------------------------- MODULE Logs --------------------------------
(***************************************************************************)
(* The request log: the sink of each process, its flushes to the database, *)
(* the stream that shows the log as it grows, and the end of a process.    *)
(* logs/{sink,handler}.go, WithAccessLog of s3api/middleware.go,           *)
(* db/logs.go, handleLogStream of console/logs.go, run of cmd/s3d/main.go. *)
(*                                                                         *)
(* Each section under the mutex of a sink and each statement is a step.    *)
(***************************************************************************)
EXTENDS Integers, Sequences, FiniteSets

CONSTANTS
    Nodes,          \* processes
    Requests,
    MaxBuffer,      \* maxBuffer of a sink
    TailLimit,      \* rows that the stream reads at a time
    MaxFaults       \* bound: statements that fail, and warnings that no sink causes

ASSUME LogSizesAssumption == {MaxBuffer, TailLimit} \subseteq Nat \ {0}
ASSUME FiniteAssumption == IsFiniteSet(Requests)
ASSUME LogBoundsAssumption == MaxFaults \in Nat

VARIABLES
    phase,          \* "up"; "draining": ctx is cancelled; "down"
    served,         \* the status of a request, and the process of one that failed
    buffer, events, \* Sink: request logs, and the number of server events
    dropped, droppedTotal,
    reported,       \* history: what the warnings about a full buffer add up to
    flush,          \* a sink's flush: how far it is, and what it has in hand
    row,            \* request_logs: the id of a request's entry, or 0
    visible,        \* entries that are committed
    discarded,      \* history: entries of flushes that failed
    tail,           \* the stream: where it began, lastID
    shown,          \* history: entries the stream has sent
    faults

counters == <<dropped, droppedTotal>>
logRows == <<row, visible, discarded>>
stream == <<tail, shown>>
vars == <<phase, served, buffer, events, counters, reported, flush, logRows, stream, faults>>

Idle == [pc |-> "wait", last |-> FALSE, batch |-> <<>>, events |-> 0]
Off == [Idle EXCEPT !.pc = "off"]
Unserved == [node |-> CHOOSE n \in Nodes : TRUE, status |-> "none"]

Init ==
    /\ phase = [n \in Nodes |-> "up"]
    /\ served = [r \in Requests |-> Unserved]
    /\ buffer = [n \in Nodes |-> <<>>] /\ events = [n \in Nodes |-> 0]
    /\ dropped = [n \in Nodes |-> 0] /\ droppedTotal = [n \in Nodes |-> 0]
    /\ reported = [n \in Nodes |-> 0]
    /\ flush = [n \in Nodes |-> Idle]
    /\ row = [r \in Requests |-> 0] /\ visible = {} /\ discarded = {}
    /\ tail = [from |-> -1, last |-> 0] /\ shown = <<>>
    /\ faults = 0

-----------------------------------------------------------------------------
(* What the sink is offered.                                               *)

Running(n) == phase[n] # "down"
Fault == faults < MaxFaults /\ faults' = faults + 1

Drop(n) ==
    /\ dropped' = [dropped EXCEPT ![n] = @ + 1]
    /\ droppedTotal' = [droppedTotal EXCEPT ![n] = @ + 1]

\* Mistake: a full buffer keeps the newest, and counts nothing.
KeepNewest(r, n) ==
    /\ buffer' = [buffer EXCEPT ![n] = Append(IF Len(@) < MaxBuffer THEN @ ELSE Tail(@), r)]
    /\ UNCHANGED counters

\* RecordRequest of an entry that is kept.
Keep(r, n) ==
    \/ /\ Len(buffer[n]) < MaxBuffer
       /\ buffer' = [buffer EXCEPT ![n] = Append(@, r)]
       /\ UNCHANGED counters
    \/ /\ Len(buffer[n]) >= MaxBuffer
       /\ Drop(n)
       /\ UNCHANGED buffer

\* A request is answered: a failure is kept, a success if it is slow or in the sample.
RecordRequest(r, n, status) ==
    /\ served[r].status = "none" /\ Running(n)
    /\ served' = [served EXCEPT ![r] = [node |-> IF status = "failed" THEN n ELSE @.node,
                                     status |-> status]]
    /\ \/ Keep(r, n)
       \/ status = "ok" /\ UNCHANGED <<buffer, counters>>
    /\ UNCHANGED <<phase, events, reported, flush, logRows, stream, faults>>

\* Handler.Handle: a warning goes to the sink too.
RecordEvent(n) ==
    IF events[n] < MaxBuffer
    THEN events' = [events EXCEPT ![n] = @ + 1] /\ UNCHANGED counters
    ELSE Drop(n) /\ UNCHANGED events

Warn(n) ==
    /\ Running(n) /\ Fault
    /\ RecordEvent(n)
    /\ UNCHANGED <<phase, served, buffer, reported, flush, logRows, stream>>

-----------------------------------------------------------------------------
(* Sink.Flush.  Its own warnings go to the same logger, and so to the sink.*)

\* The ticker fires, or ctx is cancelled: once more, and then no more.
Drain(n) ==
    /\ Running(n) /\ flush[n].pc = "wait"
    /\ Len(buffer[n]) + events[n] + dropped[n] > 0 \/ phase[n] = "draining"
    /\ flush' = [flush EXCEPT ![n] = [pc |-> "insert", last |-> phase[n] = "draining",
                                      batch |-> buffer[n], events |-> events[n]]]
    /\ buffer' = [buffer EXCEPT ![n] = <<>>]
    /\ events' = [events EXCEPT ![n] = IF dropped[n] > 0 THEN 1 ELSE 0]
    /\ reported' = [reported EXCEPT ![n] = @ + dropped[n]]
    /\ dropped' = [dropped EXCEPT ![n] = 0]
    /\ UNCHANGED <<phase, served, droppedTotal, logRows, stream, faults>>

BatchOf(n) == {flush[n].batch[i] : i \in DOMAIN flush[n].batch}
MaxOf(S) == IF S = {} THEN 0 ELSE CHOOSE i \in S : \A j \in S : j <= i
LastId == MaxOf({row[r] : r \in Requests})

\* A flush that the ticker began, with a context that is cancelled now.
Cut(n) == phase[n] = "draining" /\ ~flush[n].last

\* InsertRequestLogs: the rows have their ids before others can see them.
InsertLogs(n) ==
    /\ Running(n) /\ flush[n].pc = "insert" /\ flush[n].batch # <<>> /\ ~Cut(n)
    /\ row' = [r \in Requests |->
                 IF r \in BatchOf(n)
                 THEN LastId + CHOOSE i \in DOMAIN flush[n].batch : flush[n].batch[i] = r
                 ELSE row[r]]
    /\ flush' = [flush EXCEPT ![n].pc = "commit"]
    /\ UNCHANGED <<phase, served, buffer, events, counters, reported, visible, discarded, stream,
                   faults>>

CommitLogs(n) ==
    /\ flush[n].pc = "commit"
    /\ visible' = visible \cup BatchOf(n)
    /\ flush' = [flush EXCEPT ![n].pc = "events", ![n].batch = <<>>]
    /\ UNCHANGED <<phase, served, buffer, events, counters, reported, row, discarded, stream,
                   faults>>

\* A failure discards the batch.
InsertFails(n) ==
    /\ Running(n) /\ flush[n].pc \in {"insert", "commit"} /\ flush[n].batch # <<>>
    /\ Fault \/ (Cut(n) /\ UNCHANGED faults)
    /\ discarded' = discarded \cup BatchOf(n)
    /\ flush' = [flush EXCEPT ![n].pc = "events", ![n].batch = <<>>]
    /\ RecordEvent(n)
    /\ UNCHANGED <<phase, served, buffer, reported, row, visible, stream>>

\* Mistake: the loop ends with its first flush.
FlushedOnce(n) == flush' = [flush EXCEPT ![n] = Off]

\* The last flush of a process ends its sink.
Flushed(n) == flush' = [flush EXCEPT ![n] = IF flush[n].last THEN Off ELSE Idle]
AtEvents(n) == flush[n].pc = "events" \/ (flush[n].pc = "insert" /\ flush[n].batch = <<>>)

\* InsertServerEvents.
InsertEvents(n) ==
    /\ Running(n) /\ AtEvents(n)
    /\ Cut(n) => flush[n].events = 0
    /\ Flushed(n)
    /\ UNCHANGED <<phase, served, buffer, events, counters, reported, logRows, stream, faults>>

InsertEventsFails(n) ==
    /\ Running(n) /\ AtEvents(n) /\ flush[n].events > 0
    /\ Fault \/ (Cut(n) /\ UNCHANGED faults)
    /\ Flushed(n)
    /\ RecordEvent(n)
    /\ UNCHANGED <<phase, served, buffer, reported, logRows, stream>>

-----------------------------------------------------------------------------
(* handleLogStream.                                                        *)

\* It begins at the newest entry, or at the first if it cannot find that out.
OpenStream ==
    /\ tail.from = -1
    /\ \E first \in {0, MaxOf({row[r] : r \in visible})} :
         /\ tail' = [from |-> first, last |-> first]
         /\ (first = 0 /\ visible # {} /\ Fault)
              \/ (first = MaxOf({row[r] : r \in visible}) /\ UNCHANGED faults)
    /\ UNCHANGED <<phase, served, buffer, events, counters, reported, flush, logRows, shown>>

\* Mistake: lastID is included.
UnseenAgain == {r \in visible : row[r] >= tail.last}
Unseen == {r \in visible : row[r] > tail.last}

\* ListRequestLogsSince: of the newest rows, those behind lastID.
Fresh == {r \in Unseen : Cardinality({x \in visible : row[x] > row[r]}) < TailLimit}

Poll ==
    /\ tail.from >= 0 /\ Unseen # {}
    /\ LET fresh == Fresh
           rank(r) == Cardinality({x \in fresh : row[x] <= row[r]})
       IN  /\ shown' = shown \o [i \in 1..Cardinality(fresh) |-> CHOOSE r \in fresh : rank(r) = i]
           /\ tail' = [tail EXCEPT !.last = MaxOf({row[r] : r \in fresh} \cup {@})]
    /\ UNCHANGED <<phase, served, buffer, events, counters, reported, flush, logRows, faults>>

-----------------------------------------------------------------------------
(* The process.                                                            *)

Signal(n) ==
    /\ phase[n] = "up"
    /\ phase' = [phase EXCEPT ![n] = "draining"]
    /\ UNCHANGED <<served, buffer, events, counters, reported, flush, logRows, stream, faults>>

\* run returns when the requests have ended, or after the grace period: pool.Close
\* waits for the statement that runs, and nobody for the flush.  What the sink has
\* in memory is lost.
Exit(n) ==
    /\ phase[n] = "draining" /\ flush[n].pc # "commit"
    /\ phase' = [phase EXCEPT ![n] = "down"]
    /\ flush' = [flush EXCEPT ![n] = Off]
    /\ buffer' = [buffer EXCEPT ![n] = <<>>]
    /\ events' = [events EXCEPT ![n] = 0]
    /\ dropped' = [dropped EXCEPT ![n] = 0]
    /\ droppedTotal' = [droppedTotal EXCEPT ![n] = 0]
    /\ reported' = [reported EXCEPT ![n] = 0]
    /\ UNCHANGED <<served, logRows, stream, faults>>

-----------------------------------------------------------------------------
Flushing(n) ==
    \/ Drain(n) \/ InsertLogs(n) \/ CommitLogs(n) \/ InsertFails(n)
    \/ InsertEvents(n) \/ InsertEventsFails(n)

Next ==
    \/ \E r \in Requests, n \in Nodes, status \in {"ok", "failed"} : RecordRequest(r, n, status)
    \/ \E n \in Nodes : Warn(n) \/ Flushing(n) \/ Signal(n) \/ Exit(n)
    \/ OpenStream \/ Poll

\* Tickers fire, the stream polls, and the grace period ends.
Fairness == WF_vars(Poll) /\ \A n \in Nodes : WF_vars(Flushing(n) \/ Exit(n))

Spec == Init /\ [][Next]_vars /\ Fairness

-----------------------------------------------------------------------------
(* Properties.                                                             *)

InMemory(r) == \E n \in Nodes : r \in BatchOf(n) \/ \E i \in DOMAIN buffer[n] : buffer[n][i] = r
Somewhere(r) == r \in visible \cup discarded \/ InMemory(r)

\* As long as a process runs, each failed request it has served is in the log, on
\* its way there, lost with a flush that failed, or among what the sink says it
\* dropped: to the scraper at once, and in a warning with the next flush ("a log with
\* holes in it must say so").  What it has in hand when it exits is lost, uncounted.
HolesAreCounted ==
    \A n \in Nodes :
        /\ droppedTotal[n] = reported[n] + dropped[n]
        /\ Running(n) =>
             Cardinality({r \in Requests :
               served[r] = [node |-> n, status |-> "failed"] /\ ~Somewhere(r)}) <= droppedTotal[n]
=============================================================================
