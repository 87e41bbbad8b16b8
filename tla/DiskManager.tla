---------------------------- MODULE DiskManager ----------------------------
(***************************************************************************)
(* The disk manager (pkg/diskmanager/diskmanager.go): the map Queues of    *)
(* per-page job queues, addJob, the run goroutines that drain a queue, and *)
(* the page reads, page writes and fsyncs that the jobs perform.           *)
(*                                                                         *)
(* A call of WriteReq or ReadReq is named by a member of Requests.  A      *)
(* JobQueue object is named by the request that created it, and a run      *)
(* goroutine by the request whose addJob spawned it: a request creates at  *)
(* most one of each.  The content of a page is the sequence of the writes  *)
(* applied to it, so that the last one is what the page holds and the      *)
(* order of application is visible.                                        *)
(***************************************************************************)
EXTENDS Naturals, Sequences

CONSTANTS Requests,   \* the calls of WriteReq and ReadReq
          Offsets,    \* the page offsets of the data file
          Kinds,      \* the kinds of request that are made
          Nil         \* no queue, no job, no reply

ASSUME KindsAssumption == Kinds \subseteq {"read", "write", "flush", "dead"}

ASSUME NilAssumption == Nil \notin Requests /\ Nil \notin {"ok", "err"}

VARIABLES
    req,       \* req[r]: the ioReq of call r, once made
    call,      \* progress of call r: WriteReq/ReadReq and the wait for its reply
    queue,     \* queue[r]: the JobQueue that call r found or created
    Queues,    \* DiskManager.Queues: the JobQueue of each offset
    jobs,      \* jobs[q]: JobQueue.jobs
    running,   \* running[q]: JobQueue.running
    run,       \* progress of the run goroutine g
    job,       \* job[g]: the job that goroutine g executes
    res,       \* res[g]: the error value that execute is about to send
    file,      \* file[o]: the writes applied to the page at offset o, in order
    synced,    \* synced[o]: how many of them the last fsync made durable
    open,      \* the data file has not been closed
    reply      \* reply[r]: what call r received on its errChan

vars == <<req, call, queue, Queues, jobs, running, run, job, res, file, synced,
          open, reply>>

\* What a job asks for: a read, a write, a write that is flushed, or a write of
\* a dead page (for which flushPage ignores flush); its buffer is the request.
IoReq == [off : Offsets, kind : Kinds]

Result == {"ok", "err"}

TypeOK ==
    /\ req \in [Requests -> IoReq \cup {Nil}]
    /\ call \in [Requests -> {"idle", "create", "add", "wait", "answered"}]
    /\ queue \in [Requests -> Requests \cup {Nil}]
    /\ Queues \in [Offsets -> Requests \cup {Nil}]
    /\ jobs \in [Requests -> Seq(Requests)]
    /\ running \in [Requests -> BOOLEAN]
    /\ run \in [Requests -> {"none", "spawned", "loop", "exec", "sync", "reply", "exited"}]
    /\ job \in [Requests -> Requests \cup {Nil}]
    /\ res \in [Requests -> Result]
    /\ file \in [Offsets -> Seq(Requests)]
    /\ synced \in [Offsets -> Nat]
    /\ open \in BOOLEAN
    /\ reply \in [Requests -> Result \cup {Nil}]

\* NewDiskManager: no queue exists until a page is first used.
Init ==
    /\ req = [r \in Requests |-> Nil]
    /\ call = [r \in Requests |-> "idle"]
    /\ queue = [r \in Requests |-> Nil]
    /\ Queues = [o \in Offsets |-> Nil]
    /\ jobs = [q \in Requests |-> <<>>]
    /\ running = [q \in Requests |-> FALSE]
    /\ run = [g \in Requests |-> "none"]
    /\ job = [g \in Requests |-> Nil]
    /\ res = [g \in Requests |-> "ok"]
    /\ file = [o \in Offsets |-> <<>>]
    /\ synced = [o \in Offsets |-> 0]
    /\ open = TRUE
    /\ reply = [r \in Requests |-> Nil]

-----------------------------------------------------------------------------
(* The calling goroutine.                                                  *)

\* Build the ioReq and look the offset up in Queues (a sync.Map: Load and
\* Store are atomic each, not together).
LoadQueue(r, ioReq) ==
    /\ call[r] = "idle"
    /\ req' = [req EXCEPT ![r] = ioReq]
    /\ queue' = [queue EXCEPT ![r] = Queues[ioReq.off]]
    /\ call' = [call EXCEPT ![r] = IF Queues[ioReq.off] = Nil THEN "create" ELSE "add"]
    /\ UNCHANGED <<Queues, jobs, running, run, job, res, file, synced, open, reply>>

WriteReq(r) ==
    \E o \in Offsets, kind \in Kinds \ {"read"} : LoadQueue(r, [off |-> o, kind |-> kind])

ReadReq(r) ==
    \E o \in Offsets, kind \in Kinds \cap {"read"} : LoadQueue(r, [off |-> o, kind |-> kind])

\* newJobQueue and Queues.Store: overwrites a queue stored since the Load.
StoreQueue(r) ==
    /\ call[r] = "create"
    /\ queue' = [queue EXCEPT ![r] = r]
    /\ Queues' = [Queues EXCEPT ![req[r].off] = r]
    /\ call' = [call EXCEPT ![r] = "add"]
    /\ UNCHANGED <<req, jobs, running, run, job, res, file, synced, open, reply>>

\* Mutation: only the call that created the queue starts a goroutine.
addJob_StartOnCreate(r) ==
    /\ call[r] = "add"
    /\ jobs' = [jobs EXCEPT ![queue[r]] = Append(@, r)]
    /\ run' = [run EXCEPT ![r] = IF queue[r] = r THEN "spawned" ELSE @]
    /\ call' = [call EXCEPT ![r] = "wait"]
    /\ UNCHANGED <<req, queue, Queues, running, job, res, file, synced, open, reply>>

\* addJob: append under the queue's mutex; a run goroutine is spawned when
\* the queue was not running.  running itself is left for run to set.
addJob(r) ==
    /\ call[r] = "add"
    /\ jobs' = [jobs EXCEPT ![queue[r]] = Append(@, r)]
    /\ run' = [run EXCEPT ![r] = IF running[queue[r]] THEN @ ELSE "spawned"]
    /\ call' = [call EXCEPT ![r] = "wait"]
    /\ UNCHANGED <<req, queue, Queues, running, job, res, file, synced, open, reply>>

-----------------------------------------------------------------------------
(* The run goroutine g of queue[g].                                        *)

runStart(g) ==
    /\ run[g] = "spawned"
    /\ running' = [running EXCEPT ![queue[g]] = TRUE]
    /\ run' = [run EXCEPT ![g] = "loop"]
    /\ UNCHANGED <<req, call, queue, Queues, jobs, job, res, file, synced, open, reply>>

\* Mutation: the job stays in the queue while it is executed.
runPop_Peek(g) ==
    /\ run[g] = "loop"
    /\ jobs[queue[g]] # <<>>
    /\ job' = [job EXCEPT ![g] = Head(jobs[queue[g]])]
    /\ run' = [run EXCEPT ![g] = "exec"]
    /\ UNCHANGED <<req, call, queue, Queues, jobs, running, res, file, synced, open, reply>>

runPop(g) ==
    /\ run[g] = "loop"
    /\ jobs[queue[g]] # <<>>
    /\ job' = [job EXCEPT ![g] = Head(jobs[queue[g]])]
    /\ jobs' = [jobs EXCEPT ![queue[g]] = Tail(@)]
    /\ run' = [run EXCEPT ![g] = "exec"]
    /\ UNCHANGED <<req, call, queue, Queues, running, res, file, synced, open, reply>>

\* Mutation: running is not reset when the queue is found empty.
runExit_KeepRunning(g) ==
    /\ run[g] = "loop"
    /\ jobs[queue[g]] = <<>>
    /\ run' = [run EXCEPT ![g] = "exited"]
    /\ UNCHANGED <<req, call, queue, Queues, jobs, running, job, res, file, synced, open, reply>>

runExit(g) ==
    /\ run[g] = "loop"
    /\ jobs[queue[g]] = <<>>
    /\ running' = [running EXCEPT ![queue[g]] = FALSE]
    /\ run' = [run EXCEPT ![g] = "exited"]
    /\ UNCHANGED <<req, call, queue, Queues, jobs, job, res, file, synced, open, reply>>

\* What a system call on the data file may return.
IoResult == IF open THEN Result ELSE {"err"}

\* loadPage: one ReadAt under the read lock; io.EOF is not an error.
loadPage(g) ==
    /\ run[g] = "exec"
    /\ req[job[g]].kind = "read"
    /\ \E e \in IoResult : res' = [res EXCEPT ![g] = e]
    /\ run' = [run EXCEPT ![g] = "reply"]
    /\ UNCHANGED <<req, call, queue, Queues, jobs, running, job, file, synced, open, reply>>

\* Mutation: the reply does not wait for the fsync.
flushPage_NoSync(g) ==
    /\ run[g] = "exec"
    /\ req[job[g]].kind # "read"
    /\ file' = [file EXCEPT ![req[job[g]].off] = Append(@, job[g])]
    /\ res' = [res EXCEPT ![g] = "ok"]
    /\ run' = [run EXCEPT ![g] = "reply"]
    /\ UNCHANGED <<req, call, queue, Queues, jobs, running, job, synced, open, reply>>

\* flushPage up to its WriteAt.  A failed WriteAt may have written the page.
\* Only the live page goes on to fsync, and only if asked to.
flushPage(g) ==
    LET r == job[g]
        applied == [file EXCEPT ![req[r].off] = Append(@, r)]
    IN  /\ run[g] = "exec"
        /\ req[r].kind # "read"
        /\ \/ /\ open
              /\ file' = applied
              /\ res' = [res EXCEPT ![g] = "ok"]
              /\ run' = [run EXCEPT ![g] = IF req[r].kind = "flush" THEN "sync" ELSE "reply"]
           \/ /\ open
              /\ file' \in {file, applied}
              /\ res' = [res EXCEPT ![g] = "err"]
              /\ run' = [run EXCEPT ![g] = "reply"]
           \/ /\ ~open
              /\ file' = file
              /\ res' = [res EXCEPT ![g] = "err"]
              /\ run' = [run EXCEPT ![g] = "reply"]
        /\ UNCHANGED <<req, call, queue, Queues, jobs, running, job, synced, open, reply>>

AllSynced == [o \in Offsets |-> Len(file[o])]

\* Mutation: the page is written again when the fsync fails.
flushSync_Rewrite(g) ==
    /\ run[g] = "sync"
    /\ \E e \in IoResult :
        /\ res' = [res EXCEPT ![g] = e]
        /\ synced' = IF e = "ok" THEN AllSynced ELSE synced
        /\ file' = IF e = "ok" THEN file
                   ELSE [file EXCEPT ![req[job[g]].off] = Append(@, job[g])]
    /\ run' = [run EXCEPT ![g] = "reply"]
    /\ UNCHANGED <<req, call, queue, Queues, jobs, running, job, open, reply>>

\* flushPage's fsync, under the write lock: it covers the whole data file.
flushSync(g) ==
    /\ run[g] = "sync"
    /\ \E e \in IoResult :
        /\ res' = [res EXCEPT ![g] = e]
        /\ synced' = IF e = "ok" THEN AllSynced ELSE synced
    /\ run' = [run EXCEPT ![g] = "reply"]
    /\ UNCHANGED <<req, call, queue, Queues, jobs, running, job, file, open, reply>>

\* The end of execute: the unbuffered send on errChan.  The caller (a pager
\* worker, executeJob) does nothing but receive, so the send is a rendezvous.
sendErr(g) ==
    /\ run[g] = "reply"
    /\ call[job[g]] = "wait"
    /\ reply' = [reply EXCEPT ![job[g]] = res[g]]
    /\ call' = [call EXCEPT ![job[g]] = "answered"]
    /\ job' = [job EXCEPT ![g] = Nil]
    /\ res' = [res EXCEPT ![g] = "ok"]
    /\ run' = [run EXCEPT ![g] = "loop"]
    /\ UNCHANGED <<req, queue, Queues, jobs, running, file, synced, open>>

-----------------------------------------------------------------------------
\* ForceFlush: an fsync under the write lock (a failure panics).
ForceFlush ==
    /\ open
    /\ synced' = AllSynced
    /\ UNCHANGED <<req, call, queue, Queues, jobs, running, run, job, res, file, open, reply>>

Close ==
    /\ open
    /\ open' = FALSE
    /\ UNCHANGED <<req, call, queue, Queues, jobs, running, run, job, res, file, synced, reply>>

Caller(r) == WriteReq(r) \/ ReadReq(r) \/ StoreQueue(r) \/ addJob(r)

Runner(g) == \/ runStart(g) \/ runPop(g) \/ runExit(g)
             \/ loadPage(g) \/ flushPage(g) \/ flushSync(g) \/ sendErr(g)

Next == \/ \E r \in Requests : Caller(r) \/ Runner(r)
        \/ ForceFlush
        \/ Close

Spec == Init /\ [][Next]_vars

\* The scheduler runs every goroutine that can run: the rest of a call that
\* has begun, and the steps of every run goroutine.
Fairness == \A r \in Requests : /\ WF_vars(StoreQueue(r)) /\ WF_vars(addJob(r))
                                /\ WF_vars(Runner(r))

FairSpec == Spec /\ Fairness

-----------------------------------------------------------------------------
(* Properties.                                                             *)

\* g is a run goroutine of q that will look at q.jobs again.
Drains(g, q) == run[g] \notin {"none", "exited"} /\ queue[g] = q

\* running is set inside run, not by the addJob that spawned it, and is reset
\* by whichever goroutine finds the queue empty.  Even so, no job is stranded:
\* a non-empty queue always has a goroutine that will look at it again.
NoStrandedJob ==
    \A q \in Requests : jobs[q] # <<>> => \E g \in Requests : Drains(g, q)

\* addJob trusts running: when it is true, some goroutine past its first
\* statement has not yet found the queue empty.
RunningIsDrained ==
    \A q \in Requests :
        running[q] => \E g \in Requests : Drains(g, q) /\ run[g] # "spawned"

Held(r) == \E g \in Requests : job[g] = r

Queued(r) == \E q \in Requests : \E i \in 1..Len(jobs[q]) : jobs[q][i] = r

\* Several run goroutines may drain one queue at the same time, and a queue may
\* be replaced in Queues while it has jobs.  Still every accepted request is in
\* exactly one place: in one position of one queue, or in the hands of one
\* goroutine, or answered.
JobConserved ==
    \A r \in Requests :
        /\ call[r] = "wait" <=> (Queued(r) \/ Held(r))
        /\ ~(Queued(r) /\ Held(r))
        /\ \A g, h \in Requests : job[g] = r /\ job[h] = r => g = h
        /\ \A p, q \in Requests : \A i \in 1..Len(jobs[p]), j \in 1..Len(jobs[q]) :
                jobs[p][i] = r /\ jobs[q][j] = r => p = q /\ i = j

Durable(r) == \E i \in 1..synced[req[r].off] : file[req[r].off][i] = r

\* WriteReq with flush: when such a write has been answered without an error, an
\* fsync has covered it, whatever other goroutines wrote or synced meanwhile.
FlushedIsDurable ==
    \A r \in Requests : reply[r] = "ok" /\ req[r].kind = "flush" => Durable(r)

\* Every call that is made is answered, even if it raced for the creation of
\* the queue or found a goroutine that was about to exit.
EveryRequestAnswered ==
    \A r \in Requests : call[r] # "idle" ~> call[r] = "answered"

\* README.md:20, "A  disk maneger that supports concurrent writes on distinct
\* page IDs.": two writes are on disk at the same time only on distinct pages.
ConcurrentWritesOnDistinctPages ==
    \A g, h \in Requests :
        /\ g # h
        /\ run[g] = "exec" /\ req[job[g]].kind # "read"
        /\ run[h] = "exec" /\ req[job[h]].kind # "read"
        => req[job[g]].off # req[job[h]].off

-----------------------------------------------------------------------------
(* The promise of the disk manager (PageFile), and how it is kept.         *)

\* The system call of r's job has been made.
Performed(r) == \E g \in Requests : job[g] = r /\ run[g] \in {"sync", "reply"}

stage == [r \in Requests |->
            CASE call[r] = "idle" -> "idle"
              [] call[r] = "answered" -> "answered"
              [] OTHER -> IF Performed(r) THEN "performed" ELSE "pending"]

Abstract == INSTANCE PageFile WITH req <- req, stage <- stage, file <- file, reply <- reply

\* Each request is applied exactly once, between its call and its reply.
ImplementsPageFile == Abstract!Spec
=============================================================================
