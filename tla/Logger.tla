------------------------------- MODULE Logger -------------------------------
(***************************************************************************)
(* The logger (internal/logger): callers add log requests to a linked list *)
(* and start a goroutine that takes them off and writes them, unless one   *)
(* is running.  "Is one running" and "I am running" are separate steps, in *)
(* different goroutines, and a goroutine never ends.                       *)
(***************************************************************************)
EXTENDS Integers, FiniteSets, Sequences

CONSTANTS Writers,   \* the callers of Write
          Logs,      \* the log requests
          NoLog,     \* the nil pointer
          Waited,    \* the requests with a retChan, on which the caller waits
          Debug      \* the requests of LevelDebug

ASSUME LoggerAssumption ==
    /\ NoLog \notin Logs /\ IsFiniteSet(Logs)
    /\ Waited \subseteq Logs /\ Debug \subseteq Logs

VARIABLES
    head, tail, itemCount,  \* LogQueue
    next,                   \* LogReq.next
    logMode,                \* BaobabLogger.logMode, and with it the level of the handler
    running,                \* BaobabLogger.running
    mu,                     \* BaobabLogger.mu is held
    writer,                 \* the calls of Write
    runner,                 \* the goroutines of run, named by the request whose Write started them
    added,                  \* history: the requests in the order in which they were added
    written                 \* the log file

vars == <<head, tail, itemCount, next, logMode, running, mu, writer, runner, added, written>>

Elements(s) == {s[i] : i \in 1..Len(s)}

\* The requests that the handler writes.
Enabled == IF logMode = "PRODUCTION" THEN Logs \ Debug ELSE Logs

\* The goroutines of run that were started.
Runners == {r \in Logs : runner[r].pc # "none"}

TypeOK ==
    /\ head \in Logs \cup {NoLog} /\ tail \in Logs \cup {NoLog}
    /\ itemCount \in Nat
    /\ next \in [Logs -> Logs \cup {NoLog}]
    /\ logMode \in {"DEBUG", "PRODUCTION"}
    /\ running \in BOOLEAN /\ mu \in BOOLEAN
    /\ writer \in [Writers -> [pc : {"idle", "added", "wait"}, log : Logs \cup {NoLog}]]
    /\ runner \in [Logs -> [pc : {"none", "start", "loop", "write", "send"}, log : Logs \cup {NoLog}]]
    /\ added \in Seq(Logs) /\ written \in Seq(Logs)

\* NewLogger, newLogQueue
Init ==
    /\ head = NoLog /\ tail = NoLog /\ itemCount = 0
    /\ next = [l \in Logs |-> NoLog]
    /\ logMode \in {"DEBUG", "PRODUCTION"}
    /\ running = FALSE /\ mu = FALSE
    /\ writer = [w \in Writers |-> [pc |-> "idle", log |-> NoLog]]
    /\ runner = [r \in Logs |-> [pc |-> "none", log |-> NoLog]]
    /\ added = <<>> /\ written = <<>>

-----------------------------------------------------------------------------

\* Mutation: the tail is the new request, but the old tail does not point to it.
addItem_NoLink(w, l) ==
    /\ writer[w].pc = "idle" /\ l \notin Elements(added)
    /\ head' = IF itemCount = 0 THEN l ELSE head
    /\ tail' = l
    /\ itemCount' = itemCount + 1
    /\ added' = Append(added, l)
    /\ writer' = [writer EXCEPT ![w] = [pc |-> "added", log |-> l]]
    /\ UNCHANGED <<next, logMode, running, mu, runner, written>>

\* Write adds a request, under LogQueue.mu.
addItem(w, l) ==
    /\ writer[w].pc = "idle" /\ l \notin Elements(added)
    /\ IF itemCount = 0
         THEN head' = l /\ UNCHANGED next
         ELSE /\ tail # NoLog /\ head # NoLog
              /\ next' = [next EXCEPT ![tail] = l]
              /\ UNCHANGED head
    /\ tail' = l
    /\ itemCount' = itemCount + 1
    /\ added' = Append(added, l)
    /\ writer' = [writer EXCEPT ![w] = [pc |-> "added", log |-> l]]
    /\ UNCHANGED <<logMode, running, mu, runner, written>>

\* Write reads running, starts run if it is false, and returns; a caller that
\* passed a channel then waits on it.
Start(w) ==
    /\ writer[w].pc = "added"
    /\ runner' = IF running THEN runner ELSE [runner EXCEPT ![writer[w].log].pc = "start"]
    /\ writer' = [writer EXCEPT ![w].pc = IF writer[w].log \in Waited THEN "wait" ELSE "idle"]
    /\ UNCHANGED <<head, tail, itemCount, next, logMode, running, mu, added, written>>

run(r) ==
    /\ runner[r].pc = "start"
    /\ running' = TRUE
    /\ runner' = [runner EXCEPT ![r].pc = "loop"]
    /\ UNCHANGED <<head, tail, itemCount, next, logMode, mu, writer, added, written>>

\* Mutation: the list is emptied with its head.
getOldest_All(r) ==
    /\ runner[r].pc = "loop" /\ itemCount > 0
    /\ head' = NoLog /\ tail' = NoLog /\ itemCount' = 0
    /\ runner' = [runner EXCEPT ![r] = [pc |-> "write", log |-> head]]
    /\ UNCHANGED <<next, logMode, running, mu, writer, added, written>>

\* Mutation: the head is not moved.
getOldest_Peek(r) ==
    /\ runner[r].pc = "loop" /\ itemCount > 0
    /\ itemCount' = itemCount - 1
    /\ tail' = IF itemCount = 1 THEN NoLog ELSE tail
    /\ runner' = [runner EXCEPT ![r] = [pc |-> "write", log |-> head]]
    /\ UNCHANGED <<head, next, logMode, running, mu, writer, added, written>>

\* Mutation: the newest request is taken.
getOldest_Newest(r) ==
    /\ runner[r].pc = "loop" /\ itemCount > 0
    /\ LET before == {l \in Logs : next[l] = tail}
           queue == {added[i] : i \in (Len(added) - itemCount + 1)..Len(added)}
       IN  /\ tail' = IF itemCount = 1 THEN NoLog ELSE CHOOSE l \in before \cap queue : TRUE
           /\ next' = [l \in Logs |-> IF l \in before THEN NoLog ELSE next[l]]
    /\ head' = IF itemCount = 1 THEN NoLog ELSE head
    /\ itemCount' = itemCount - 1
    /\ runner' = [runner EXCEPT ![r] = [pc |-> "write", log |-> tail]]
    /\ UNCHANGED <<logMode, running, mu, writer, added, written>>

\* The head of the list is taken, under LogQueue.mu.
getOldest(r) ==
    /\ runner[r].pc = "loop" /\ itemCount > 0
    /\ head # NoLog /\ tail # NoLog
    /\ head' = next[head]
    /\ itemCount' = itemCount - 1
    /\ tail' = IF itemCount = 1 THEN NoLog ELSE tail
    /\ runner' = [runner EXCEPT ![r] = [pc |-> "write", log |-> head]]
    /\ UNCHANGED <<next, logMode, running, mu, writer, added, written>>

\* On an empty list getOldest returns nil, and run goes round its loop.
Spin(r) ==
    /\ runner[r].pc = "loop" /\ itemCount = 0
    /\ UNCHANGED vars

\* Mutation: a request below the level of the handler is not answered.
Output_OnlyEnabled(r) ==
    LET l == runner[r].log
    IN  /\ runner[r].pc = "write" /\ ~mu
        /\ written' = IF l \in Enabled THEN Append(written, l) ELSE written
        /\ mu' = (l \in Waited \cap Enabled)
        /\ runner' = [runner EXCEPT ![r].pc = IF l \in Waited \cap Enabled THEN "send" ELSE "loop"]
        /\ UNCHANGED <<head, tail, itemCount, next, logMode, running, writer, added>>

\* The handler writes the request, under BaobabLogger.mu, which is kept to send on
\* the channel if there is one.
Output(r) ==
    LET l == runner[r].log
    IN  /\ runner[r].pc = "write" /\ ~mu
        /\ written' = IF l \in Enabled THEN Append(written, l) ELSE written
        /\ mu' = (l \in Waited)
        /\ runner' = [runner EXCEPT ![r].pc = IF l \in Waited THEN "send" ELSE "loop"]
        /\ UNCHANGED <<head, tail, itemCount, next, logMode, running, writer, added>>

\* The channel has no buffer: sender and receiver meet.
Send(r, w) ==
    /\ runner[r].pc = "send"
    /\ writer[w].pc = "wait" /\ writer[w].log = runner[r].log
    /\ mu' = FALSE
    /\ writer' = [writer EXCEPT ![w].pc = "idle"]
    /\ runner' = [runner EXCEPT ![r].pc = "loop"]
    /\ UNCHANGED <<head, tail, itemCount, next, logMode, running, added, written>>

RunnerStep(r) == run(r) \/ getOldest(r) \/ Spin(r) \/ Output(r) \/ \E w \in Writers : Send(r, w)

Next == \/ \E w \in Writers : Start(w) \/ \E l \in Logs : addItem(w, l)
        \/ \E r \in Logs : RunnerStep(r)

\* Goroutines are scheduled.
Fairness == /\ \A w \in Writers : WF_vars(Start(w))
            /\ \A r \in Logs : WF_vars(RunnerStep(r))

Spec == Init /\ [][Next]_vars /\ Fairness

-----------------------------------------------------------------------------
(* Properties                                                              *)

\* addItem, getOldest: the requests not yet taken, in the order in which they were
\* added, are the list from head to tail; an empty list has neither, so that the
\* panics about a missing head or tail are out of reach.
QueueIsList ==
    LET first == Len(added) - itemCount + 1
    IN  /\ itemCount <= Len(added)
        /\ itemCount = 0 => head = NoLog /\ tail = NoLog
        /\ itemCount > 0 => head = added[first] /\ tail = added[Len(added)]
        /\ \A i \in first..(Len(added) - 1) : next[added[i]] = added[i + 1]

\* However many goroutines of run there are, a request is taken and written once.
WrittenOnce ==
    /\ \A i, j \in 1..Len(written) : written[i] = written[j] => i = j
    /\ \A r, q \in Runners : /\ runner[r].pc = "write" => runner[r].log \notin Elements(written)
                             /\ runner[r].pc = "write" /\ runner[q].pc = "write"
                                /\ runner[r].log = runner[q].log => r = q

\* The requests that were added before l.
Before(l) == {added[i] : i \in {j \in 1..Len(added) : \E k \in (j + 1)..Len(added) : added[k] = l}}

\* The requests added before the i-th one in the file that come after it in the
\* file, or are not there yet.
Late(i) == (Before(written[i]) \cap Enabled) \ {written[j] : j \in 1..i}

\* "processes them individually to maintain total order" holds up to the goroutines
\* that were started at the same time: when a request is written, fewer requests
\* older than it are missing from the file than there are goroutines.
OrderUpToRunners == \A i \in 1..Len(written) : Cardinality(Late(i)) < Cardinality(Runners)

\* What the comment of BaobabLogger says, "to maintain total order": the file has
\* the requests in the order in which they were added.
TotalOrder == \A i \in 1..Len(written) : Late(i) = {}

\* Write, run: what was added is written, though most calls of Write start no
\* goroutine and rely on one that another call has started or is starting.
EveryLogWritten == \A l \in Logs : (l \in Elements(added) \cap Enabled) ~> (l \in Elements(written))

\* run sends on the channel with BaobabLogger.mu held, and other goroutines wait for
\* the lock: still every caller that waits for its request gets its answer.
EveryCallerAnswered == \A w \in Writers : (writer[w].pc = "wait") ~> (writer[w].pc = "idle")
=============================================================================
