------------------------- MODULE DiskManager_proofs -------------------------
(***************************************************************************)
(* Proofs about the disk manager, for any set of requests and of offsets:  *)
(* type correctness, no stranded job, every request in exactly one place,  *)
(* and durability of an answered flush.                                    *)
(***************************************************************************)
EXTENDS DiskManager, TLAPS

\* What Append, Head and Tail do to the elements of a queue.
LEMMA AppendFacts ==
    ASSUME NEW S, NEW s \in Seq(S), NEW e \in S
    PROVE  /\ Append(s, e) \in Seq(S)
           /\ Len(Append(s, e)) = Len(s) + 1
           /\ Len(s) \in Nat
           /\ Append(s, e) # <<>>
           /\ Append(s, e)[Len(s) + 1] = e
           /\ \A i \in 1..Len(s) : Append(s, e)[i] = s[i] /\ s[i] \in S
OBVIOUS

\* The same for the removal of the first element.
LEMMA TailFacts ==
    ASSUME NEW S, NEW s \in Seq(S), s # <<>>
    PROVE  /\ Tail(s) \in Seq(S)
           /\ Len(s) \in Nat \ {0}
           /\ Len(Tail(s)) = Len(s) - 1
           /\ Head(s) = s[1]
           /\ Head(s) \in S
           /\ \A i \in 1..(Len(s) - 1) : Tail(s)[i] = s[i + 1]
OBVIOUS

-----------------------------------------------------------------------------
(* The inductive invariant.                                                *)

\* A call past Queues.Load has its ioReq; past the Store it has its queue; a
\* goroutine belongs to a call that has added its job.
CallShape ==
    \A r \in Requests :
        /\ call[r] # "idle" => req[r] \in IoReq
        /\ call[r] \in {"add", "wait", "answered"} => queue[r] \in Requests
        /\ run[r] # "none" => call[r] \in {"wait", "answered"}
        /\ run[r] \in {"exec", "sync", "reply"} <=> job[r] # Nil
        /\ reply[r] # Nil => call[r] = "answered"

\* A queued job is waiting, is queued in its own queue and in one position
\* only, and nobody executes it.
QueuedOnce ==
    \A q \in Requests : \A i \in 1..Len(jobs[q]) :
        /\ call[jobs[q][i]] = "wait"
        /\ queue[jobs[q][i]] = q
        /\ \A g \in Requests : job[g] # jobs[q][i]
        /\ \A j \in 1..Len(jobs[q]) : jobs[q][i] = jobs[q][j] => i = j

\* A job in execution is waiting, and one goroutine executes it.
HeldOnce ==
    \A g \in Requests : job[g] # Nil =>
        /\ call[job[g]] = "wait"
        /\ \A h \in Requests : job[h] = job[g] => h = g

\* A waiting call is queued or in execution.
NotForgotten ==
    \A r \in Requests : call[r] = "wait" =>
        \/ \E g \in Requests : job[g] = r
        \/ \E i \in 1..Len(jobs[queue[r]]) : jobs[queue[r]][i] = r

QueueInv == /\ TypeOK /\ CallShape /\ QueuedOnce /\ HeldOnce /\ NotForgotten
            /\ NoStrandedJob /\ RunningIsDrained

-----------------------------------------------------------------------------
\* Initially there is no call, no job and no goroutine.
LEMMA InitQueueInv == Init => QueueInv
  BY NilAssumption DEF Init, QueueInv, TypeOK, CallShape, QueuedOnce, HeldOnce, NotForgotten,
       NoStrandedJob, RunningIsDrained, Result

\* The types are preserved by every step.
LEMMA TypeStep == TypeOK /\ CallShape /\ HeldOnce /\ [Next]_vars => TypeOK'
<1> SUFFICES ASSUME TypeOK, CallShape, HeldOnce, [Next]_vars
             PROVE  TypeOK'
  OBVIOUS
<1> USE DEF TypeOK, Result
<1>1. ASSUME NEW r \in Requests, WriteReq(r) \/ ReadReq(r)  PROVE TypeOK'
  <2>1. PICK o \in Offsets, kind \in Kinds : LoadQueue(r, [off |-> o, kind |-> kind])
    BY <1>1, ZenonT(60) DEF WriteReq, ReadReq
  <2>2. [off |-> o, kind |-> kind] \in IoReq
    BY DEF IoReq
  <2> QED  BY <2>1, <2>2 DEF LoadQueue
<1>2. ASSUME NEW r \in Requests, StoreQueue(r)  PROVE TypeOK'
  BY <1>2, ZenonT(60) DEF StoreQueue
<1>3. ASSUME NEW r \in Requests, addJob(r)  PROVE TypeOK'
  <2>1. queue[r] \in Requests
    BY <1>3 DEF addJob, CallShape
  <2>2. jobs' \in [Requests -> Seq(Requests)]
    BY <1>3, <2>1, AppendFacts DEF addJob
  <2> QED  BY <1>3, <2>2 DEF addJob
<1>4. ASSUME NEW g \in Requests, runStart(g)  PROVE TypeOK'
  BY <1>4, ZenonT(60) DEF runStart
<1>5. ASSUME NEW g \in Requests, runPop(g)  PROVE TypeOK'
  <2>1. queue[g] \in Requests /\ jobs[queue[g]] \in Seq(Requests) /\ jobs[queue[g]] # <<>>
    BY <1>5 DEF runPop, CallShape
  <2>2. Head(jobs[queue[g]]) \in Requests /\ Tail(jobs[queue[g]]) \in Seq(Requests)
    BY <2>1, TailFacts
  <2> QED  BY <1>5, <2>1, <2>2 DEF runPop
<1>6. ASSUME NEW g \in Requests, runExit(g)  PROVE TypeOK'
  BY <1>6, ZenonT(60) DEF runExit
<1>7. ASSUME NEW g \in Requests, loadPage(g)  PROVE TypeOK'
  BY <1>7 DEF loadPage, IoResult
<1>8. ASSUME NEW g \in Requests, flushPage(g)  PROVE TypeOK'
  <2>1. job[g] \in Requests /\ req[job[g]].off \in Offsets
    <3>1. job[g] \in Requests
      BY <1>8, ZenonT(60) DEF flushPage, CallShape
    <3>2. req[job[g]] \in IoReq
      BY <3>1, NilAssumption DEF CallShape, HeldOnce
    <3> QED  BY <3>1, <3>2 DEF IoReq
  <2>2. [file EXCEPT ![req[job[g]].off] = Append(@, job[g])] \in [Offsets -> Seq(Requests)]
    BY <2>1, AppendFacts
  <2> QED  BY <1>8, <2>2, ZenonT(60) DEF flushPage
<1>9. ASSUME NEW g \in Requests, flushSync(g)  PROVE TypeOK'
  <2>1. AllSynced \in [Offsets -> Nat]
    BY DEF AllSynced
  <2> QED  BY <1>9, <2>1 DEF flushSync, IoResult
<1>10. ASSUME NEW g \in Requests, sendErr(g)  PROVE TypeOK'
  BY <1>10, ZenonT(60) DEF sendErr
<1>11. CASE ForceFlush
  <2>1. AllSynced \in [Offsets -> Nat]
    BY DEF AllSynced
  <2> QED  BY <1>11, <2>1 DEF ForceFlush
<1>12. CASE Close
  BY <1>12, ZenonT(60) DEF Close
<1>13. CASE UNCHANGED vars
  BY <1>13 DEF vars
<1> QED
  BY <1>1, <1>2, <1>3, <1>4, <1>5, <1>6, <1>7, <1>8, <1>9, <1>10, <1>11, <1>12, <1>13
  DEF Next, Caller, Runner

\* The elements of a queue are requests.
LEMMA JobsAreRequests ==
    TypeOK => \A q \in Requests : /\ Len(jobs[q]) \in Nat
                                  /\ \A i \in 1..Len(jobs[q]) : jobs[q][i] \in Requests
<1> SUFFICES ASSUME TypeOK, NEW q \in Requests
             PROVE  /\ Len(jobs[q]) \in Nat
                    /\ \A i \in 1..Len(jobs[q]) : jobs[q][i] \in Requests
  BY ZenonT(60)
<1>1. jobs[q] \in Seq(Requests)
  BY DEF TypeOK
<1> QED  BY <1>1

\* Where each job is depends on the queues, on the jobs in execution and on
\* which calls wait for which queue, and on nothing else.
LEMMA PlacesUnchanged ==
    ASSUME TypeOK, QueuedOnce, HeldOnce, NotForgotten,
           jobs' = jobs, job' = job,
           \A r \in Requests : /\ call'[r] = "wait" <=> call[r] = "wait"
                               /\ call[r] = "wait" => queue'[r] = queue[r]
    PROVE  QueuedOnce' /\ HeldOnce' /\ NotForgotten'
<1>1. QueuedOnce'
  BY JobsAreRequests DEF QueuedOnce
<1>2. HeldOnce'
  <2>1. \A g \in Requests : job[g] # Nil => job[g] \in Requests
    BY DEF TypeOK
  <2> QED  BY <2>1 DEF HeldOnce
<1>3. NotForgotten'
  BY DEF NotForgotten
<1> QED  BY <1>1, <1>2, <1>3

\* Every step keeps each job in exactly one place and every queue drained.
LEMMA QueueStep == QueueInv /\ [Next]_vars => QueueInv'
<1> SUFFICES ASSUME QueueInv, [Next]_vars
             PROVE  QueueInv'
  OBVIOUS
<1> USE NilAssumption
<1> DEFINE Goal == /\ CallShape' /\ QueuedOnce' /\ HeldOnce' /\ NotForgotten'
                   /\ NoStrandedJob' /\ RunningIsDrained'
<1>t. TypeOK'
  BY TypeStep DEF QueueInv
<1>1. ASSUME NEW r \in Requests, WriteReq(r) \/ ReadReq(r)  PROVE Goal
  <2>1. PICK o \in Offsets, kind \in Kinds : LoadQueue(r, [off |-> o, kind |-> kind])
    BY <1>1 DEF WriteReq, ReadReq
  <2>2. [off |-> o, kind |-> kind] \in IoReq
    BY DEF IoReq
  <2>3. CallShape'
    BY <2>1, <2>2 DEF QueueInv, TypeOK, CallShape, LoadQueue
  <2>4. run[r] = "none"
    BY <2>1, ZenonT(60) DEF QueueInv, TypeOK, CallShape, LoadQueue
  <2>5. /\ jobs' = jobs /\ job' = job
        /\ \A t \in Requests : /\ call'[t] = "wait" <=> call[t] = "wait"
                               /\ call[t] = "wait" => queue'[t] = queue[t]
    BY <2>1 DEF QueueInv, TypeOK, LoadQueue
  <2>6. QueuedOnce' /\ HeldOnce' /\ NotForgotten'
    BY <2>5, PlacesUnchanged DEF QueueInv
  <2>7. NoStrandedJob' /\ RunningIsDrained'
    BY <2>1, <2>4 DEF QueueInv, TypeOK, NoStrandedJob, RunningIsDrained, Drains, LoadQueue
  <2> QED  BY <2>3, <2>6, <2>7
<1>2. ASSUME NEW r \in Requests, StoreQueue(r)  PROVE Goal
  <2>1. /\ run[r] = "none"
        /\ jobs' = jobs /\ job' = job
        /\ \A t \in Requests : /\ call'[t] = "wait" <=> call[t] = "wait"
                               /\ call[t] = "wait" => queue'[t] = queue[t]
    BY <1>2, ZenonT(60) DEF QueueInv, TypeOK, CallShape, StoreQueue
  <2>2. CallShape'
    BY <1>2 DEF QueueInv, TypeOK, CallShape, StoreQueue
  <2>3. QueuedOnce' /\ HeldOnce' /\ NotForgotten'
    BY <2>1, PlacesUnchanged DEF QueueInv
  <2>4. NoStrandedJob' /\ RunningIsDrained'
    BY <1>2, <2>1 DEF QueueInv, TypeOK, NoStrandedJob, RunningIsDrained, Drains, StoreQueue
  <2> QED  BY <2>2, <2>3, <2>4
<1>3. ASSUME NEW r \in Requests, addJob(r)  PROVE Goal
  <2> DEFINE q0 == queue[r]
             s  == jobs[q0]
  <2>1. q0 \in Requests /\ s \in Seq(Requests) /\ run[r] = "none" /\ job[r] = Nil
    BY <1>3, ZenonT(60) DEF QueueInv, TypeOK, CallShape, addJob
  <2>2. /\ \A q \in Requests : \A i \in 1..Len(jobs[q]) : jobs[q][i] # r
        /\ \A g \in Requests : job[g] # r
    <3>1. call[r] # "wait"
      BY <1>3 DEF addJob
    <3> QED  BY <3>1 DEF QueueInv, QueuedOnce, HeldOnce
  <2>3. /\ jobs'[q0] = Append(s, r)
        /\ \A q \in Requests : q # q0 => jobs'[q] = jobs[q]
    BY <1>3, <2>1 DEF QueueInv, TypeOK, addJob
  <2>4. /\ Len(jobs'[q0]) = Len(s) + 1 /\ Len(s) \in Nat
        /\ jobs'[q0][Len(s) + 1] = r
        /\ \A i \in 1..Len(s) : jobs'[q0][i] = s[i] /\ s[i] \in Requests
    BY <2>1, <2>3, AppendFacts
  <2>5. CallShape' /\ HeldOnce'
    BY <1>3, <2>1, <2>2 DEF QueueInv, TypeOK, CallShape, HeldOnce, addJob
  <2>6. QueuedOnce'
    <3> SUFFICES ASSUME NEW q \in Requests, NEW i \in 1..Len(jobs'[q])
                 PROVE  /\ call'[jobs'[q][i]] = "wait"
                        /\ queue'[jobs'[q][i]] = q
                        /\ \A g \in Requests : job'[g] # jobs'[q][i]
                        /\ \A j \in 1..Len(jobs'[q]) : jobs'[q][i] = jobs'[q][j] => i = j
      BY DEF QueuedOnce
    <3>1. CASE q # q0
      BY <1>3, <2>2, <2>3, <3>1 DEF QueueInv, TypeOK, QueuedOnce, addJob
    <3>2. CASE q = q0 /\ i \in 1..Len(s)
      BY <1>3, <2>1, <2>2, <2>4, <3>2 DEF QueueInv, TypeOK, QueuedOnce, addJob
    <3>3. CASE q = q0 /\ i = Len(s) + 1
      BY <1>3, <2>1, <2>2, <2>4, <3>3, SMTT(60) DEF QueueInv, TypeOK, QueuedOnce, addJob
    <3> QED  BY <2>4, <3>1, <3>2, <3>3
  <2>7. NotForgotten'
    <3> SUFFICES ASSUME NEW t \in Requests, call'[t] = "wait",
                        ~ \E g \in Requests : job'[g] = t
                 PROVE  \E i \in 1..Len(jobs'[queue'[t]]) : jobs'[queue'[t]][i] = t
      BY DEF NotForgotten
    <3>1. CASE t = r
      BY <1>3, <2>1, <2>4, <3>1 DEF addJob
    <3>2. CASE t # r
      <4>1. PICK i \in 1..Len(jobs[queue[t]]) : jobs[queue[t]][i] = t
        BY <1>3, <3>2, ZenonT(60) DEF QueueInv, TypeOK, NotForgotten, addJob
      <4>2. queue[t] \in Requests /\ queue'[t] = queue[t]
        BY <1>3, <3>2 DEF QueueInv, TypeOK, CallShape, addJob
      <4>3. CASE queue[t] = q0
        BY <2>4, <4>1, <4>2, <4>3, SMTT(60)
      <4>4. CASE queue[t] # q0
        BY <2>3, <4>1, <4>2, <4>4
      <4> QED  BY <4>3, <4>4
    <3> QED  BY <3>1, <3>2
  <2>8. NoStrandedJob'
    <3> SUFFICES ASSUME NEW q \in Requests, jobs'[q] # <<>>
                 PROVE  \E g \in Requests : Drains(g, q)'
      BY DEF NoStrandedJob
    <3>1. \A g \in Requests : Drains(g, q) => Drains(g, q)'
      BY <1>3, <2>1 DEF QueueInv, TypeOK, Drains, addJob
    <3>2. CASE q # q0
      BY <2>3, <3>1, <3>2 DEF QueueInv, NoStrandedJob
    <3>3. CASE q = q0 /\ running[q0]
      BY <2>1, <3>1, <3>3 DEF QueueInv, RunningIsDrained
    <3>4. CASE q = q0 /\ ~running[q0]
      BY <1>3, <2>1, <3>4 DEF QueueInv, TypeOK, Drains, addJob
    <3> QED  BY <3>2, <3>3, <3>4
  <2>9. RunningIsDrained'
    BY <1>3, <2>1 DEF QueueInv, TypeOK, RunningIsDrained, Drains, addJob
  <2> QED  BY <2>5, <2>6, <2>7, <2>8, <2>9
<1>4. ASSUME NEW g \in Requests, runStart(g)  PROVE Goal
  <2>1. queue[g] \in Requests
    BY <1>4 DEF QueueInv, TypeOK, CallShape, runStart
  <2>2. CallShape'
    BY <1>4, ZenonT(60) DEF QueueInv, TypeOK, CallShape, runStart
  <2>4. jobs' = jobs /\ job' = job /\ call' = call /\ queue' = queue
    BY <1>4 DEF runStart
  <2>5. QueuedOnce' /\ HeldOnce' /\ NotForgotten'
    BY <2>4, PlacesUnchanged DEF QueueInv
  <2>3. NoStrandedJob' /\ RunningIsDrained'
    BY <1>4, <2>1 DEF QueueInv, TypeOK, NoStrandedJob, RunningIsDrained, Drains, runStart
  <2> QED  BY <2>2, <2>3, <2>5
<1>5. ASSUME NEW g \in Requests, runPop(g)  PROVE Goal
  <2> DEFINE q0 == queue[g]
             s  == jobs[q0]
             r  == Head(s)
  <2>1. q0 \in Requests /\ s \in Seq(Requests) /\ s # <<>> /\ job[g] = Nil
    BY <1>5, ZenonT(60) DEF QueueInv, TypeOK, CallShape, runPop
  <2>2. /\ Len(s) \in Nat \ {0} /\ r = s[1] /\ r \in Requests
        /\ Len(Tail(s)) = Len(s) - 1
        /\ \A i \in 1..(Len(s) - 1) : Tail(s)[i] = s[i + 1]
    BY <2>1, TailFacts
  <2>3. /\ jobs'[q0] = Tail(s) /\ job'[g] = r
        /\ \A q \in Requests : q # q0 => jobs'[q] = jobs[q]
        /\ \A h \in Requests : h # g => job'[h] = job[h]
        /\ call' = call /\ queue' = queue
    BY <1>5, <2>1 DEF QueueInv, TypeOK, runPop
  <2>4. call[r] = "wait" /\ queue[r] = q0 /\ \A h \in Requests : job[h] # r
    BY <2>1, <2>2 DEF QueueInv, QueuedOnce
  <2>5. CallShape'
    BY <1>5, <2>1, <2>2 DEF QueueInv, TypeOK, CallShape, runPop
  <2>6. HeldOnce'
    <3> SUFFICES ASSUME NEW h \in Requests, job'[h] # Nil
                 PROVE  /\ call[job'[h]] = "wait"
                        /\ \A k \in Requests : job'[k] = job'[h] => k = h
      BY <2>3 DEF HeldOnce
    <3>1. CASE h = g
      BY <2>3, <2>4, <3>1
    <3>2. CASE h # g
      BY <2>3, <2>4, <3>2 DEF QueueInv, HeldOnce
    <3> QED  BY <3>1, <3>2
  <2>7. QueuedOnce'
    <3> SUFFICES ASSUME NEW q \in Requests, NEW i \in 1..Len(jobs'[q])
                 PROVE  /\ call[jobs'[q][i]] = "wait"
                        /\ queue[jobs'[q][i]] = q
                        /\ \A h \in Requests : job'[h] # jobs'[q][i]
                        /\ \A j \in 1..Len(jobs'[q]) : jobs'[q][i] = jobs'[q][j] => i = j
      BY <2>3 DEF QueuedOnce
    <3>1. CASE q # q0
      BY <2>3, <2>4, <3>1, SMTT(60) DEF QueueInv, QueuedOnce
    <3>2. CASE q = q0
      <4>a. \A i1, j1 \in 1..Len(s) : s[i1] = s[j1] => i1 = j1
        BY <2>1 DEF QueueInv, QueuedOnce
      <4>b. \A i1 \in 1..Len(s) : /\ call[s[i1]] = "wait" /\ queue[s[i1]] = q0
                                  /\ \A h \in Requests : job[h] # s[i1]
        BY <2>1 DEF QueueInv, QueuedOnce
      <4> HIDE DEF s, r
      <4>0. \A j \in 1..(Len(s) - 1) : j + 1 \in 1..Len(s)
        BY <2>2
      <4>1. i \in 1..(Len(s) - 1) /\ i + 1 \in 1..Len(s) /\ jobs'[q][i] = s[i + 1]
        BY <2>2, <2>3, <3>2, <4>0
      <4>2. s[i + 1] # r
        <5>1. 1 \in 1..Len(s) /\ i + 1 # 1
          BY <2>2, <4>1
        <5> QED  BY <2>2, <4>1, <4>a, <5>1
      <4>3. \A j \in 1..Len(jobs'[q]) : j + 1 \in 1..Len(s) /\ jobs'[q][j] = s[j + 1]
        BY <2>2, <2>3, <3>2, <4>0, ZenonT(60)
      <4>4. \A j \in 1..Len(jobs'[q]) : jobs'[q][i] = jobs'[q][j] => i = j
        <5> SUFFICES ASSUME NEW j \in 1..Len(jobs'[q]), jobs'[q][i] = jobs'[q][j]
                     PROVE  i = j
          OBVIOUS
        <5>1. i + 1 = j + 1
          BY <4>1, <4>3, <4>a, ZenonT(60)
        <5>2. i \in Nat /\ j \in Nat
          BY <2>2, <2>3, <3>2
        <5> QED  BY <5>1, <5>2
      <4> QED  BY <2>3, <3>2, <4>1, <4>2, <4>4, <4>b
    <3> QED  BY <3>1, <3>2
  <2>8. NotForgotten'
    <3> SUFFICES ASSUME NEW t \in Requests, call[t] = "wait", ~ \E h \in Requests : job'[h] = t
                 PROVE  \E i \in 1..Len(jobs'[queue[t]]) : jobs'[queue[t]][i] = t
      BY <2>3 DEF NotForgotten
    <3>1. ~ \E h \in Requests : job[h] = t
      BY <2>1, <2>3
    <3>2. PICK i \in 1..Len(jobs[queue[t]]) : jobs[queue[t]][i] = t
      BY <3>1 DEF QueueInv, NotForgotten
    <3>3. queue[t] \in Requests
      BY DEF QueueInv, CallShape
    <3>4. CASE queue[t] # q0
      BY <2>3, <3>2, <3>3, <3>4
    <3>5. CASE queue[t] = q0
      <4>1. i # 1
        BY <2>2, <2>3, <3>2, <3>5
      <4>2. i - 1 \in 1..(Len(s) - 1) /\ Tail(s)[i - 1] = t
        BY <2>2, <3>2, <3>5, <4>1
      <4> QED  BY <2>2, <2>3, <3>5, <4>2, ZenonT(60)
    <3> QED  BY <3>4, <3>5
  <2>9. NoStrandedJob' /\ RunningIsDrained'
    <3>1. \A h, q \in Requests : Drains(h, q)' <=> Drains(h, q)
      BY <1>5 DEF QueueInv, TypeOK, Drains, runPop
    <3>2. \A q \in Requests : jobs'[q] # <<>> => jobs[q] # <<>>
      BY <2>1, <2>3
    <3>3. \A h \in Requests : run'[h] = "spawned" => run[h] = "spawned"
      BY <1>5 DEF QueueInv, TypeOK, runPop
    <3>4. running' = running
      BY <1>5 DEF runPop
    <3>5. NoStrandedJob'
      BY <3>1, <3>2 DEF QueueInv, NoStrandedJob
    <3>6. RunningIsDrained'
      BY <3>1, <3>3, <3>4 DEF QueueInv, RunningIsDrained
    <3> QED  BY <3>5, <3>6
  <2> QED  BY <2>5, <2>6, <2>7, <2>8, <2>9
<1>6. ASSUME NEW g \in Requests, runExit(g)  PROVE Goal
  <2>1. queue[g] \in Requests
    BY <1>6 DEF QueueInv, TypeOK, CallShape, runExit
  <2>2. CallShape'
    BY <1>6 DEF QueueInv, TypeOK, CallShape, runExit
  <2>4. jobs' = jobs /\ job' = job /\ call' = call /\ queue' = queue
    BY <1>6 DEF runExit
  <2>5. QueuedOnce' /\ HeldOnce' /\ NotForgotten'
    BY <2>4, PlacesUnchanged DEF QueueInv
  <2>3. NoStrandedJob' /\ RunningIsDrained'
    BY <1>6, <2>1 DEF QueueInv, TypeOK, NoStrandedJob, RunningIsDrained, Drains, runExit
  <2> QED  BY <2>2, <2>3, <2>5
<1>7. ASSUME NEW g \in Requests, loadPage(g) \/ flushPage(g) \/ flushSync(g)  PROVE Goal
  <2>1. /\ run[g] \in {"exec", "sync"}
        /\ run' = [run EXCEPT ![g] = "sync"] \/ run' = [run EXCEPT ![g] = "reply"]
        /\ UNCHANGED <<req, call, queue, Queues, jobs, running, job, reply>>
    BY <1>7, ZenonT(60) DEF loadPage, flushPage, flushSync
  <2>2. CallShape'
    BY <2>1, ZenonT(60) DEF QueueInv, TypeOK, CallShape
  <2>3. QueuedOnce' /\ HeldOnce' /\ NotForgotten'
    BY <2>1, SMTT(60) DEF QueueInv, QueuedOnce, HeldOnce, NotForgotten
  <2>4. NoStrandedJob' /\ RunningIsDrained'
    <3>1. \A h, q \in Requests : Drains(h, q) => Drains(h, q)'
      BY <2>1 DEF QueueInv, TypeOK, Drains
    <3>2. \A h \in Requests : run'[h] = "spawned" => run[h] = "spawned"
      BY <2>1 DEF QueueInv, TypeOK
    <3>3. NoStrandedJob'
      BY <2>1, <3>1 DEF QueueInv, NoStrandedJob
    <3>4. RunningIsDrained'
      BY <2>1, <3>1, <3>2 DEF QueueInv, RunningIsDrained
    <3> QED  BY <3>3, <3>4
  <2> QED  BY <2>2, <2>3, <2>4
<1>8. ASSUME NEW g \in Requests, sendErr(g)  PROVE Goal
  <2> DEFINE r == job[g]
  <2>1. r \in Requests /\ call[r] = "wait" /\ \A h \in Requests : job[h] = r => h = g
    <3>1. job[g] # Nil
      BY <1>8 DEF QueueInv, CallShape, sendErr
    <3>2. r \in Requests
      BY <3>1 DEF QueueInv, TypeOK
    <3> QED  BY <3>1, <3>2 DEF QueueInv, HeldOnce
  <2>2. \A q \in Requests : \A i \in 1..Len(jobs[q]) : jobs[q][i] # r
    BY <1>8 DEF QueueInv, QueuedOnce
  <2>3. CallShape' /\ HeldOnce'
    <3>1. /\ \A t \in Requests : call'[t] = IF t = r THEN "answered" ELSE call[t]
          /\ \A h \in Requests : job'[h] = IF h = g THEN Nil ELSE job[h]
          /\ \A h \in Requests : run'[h] = IF h = g THEN "loop" ELSE run[h]
          /\ \A t \in Requests : t # r => reply'[t] = reply[t]
          /\ req' = req /\ queue' = queue /\ run[g] = "reply"
      BY <1>8, <2>1 DEF QueueInv, TypeOK, sendErr
    <3>2. CallShape'
      <4>1. CallShape
        BY DEF QueueInv
      <4> QED  BY <2>1, <3>1, <4>1 DEF CallShape
    <3>3. HeldOnce'
      <4>1. HeldOnce /\ job \in [Requests -> Requests \cup {Nil}]
        BY DEF QueueInv, TypeOK
      <4> QED  BY <2>1, <3>1, <4>1, NilAssumption, SMTT(60) DEF HeldOnce
    <3> QED  BY <3>2, <3>3
  <2>4. QueuedOnce' /\ NotForgotten'
    <3>1. /\ jobs' = jobs /\ queue' = queue
          /\ \A t \in Requests : t # r => call'[t] = call[t]
          /\ call'[r] = "answered"
          /\ \A h \in Requests : job'[h] = IF h = g THEN Nil ELSE job[h]
      BY <1>8, <2>1 DEF QueueInv, TypeOK, sendErr
    <3>2. QueuedOnce'
      <4>1. QueuedOnce
        BY DEF QueueInv
      <4>2. ASSUME NEW q \in Requests, NEW i \in 1..Len(jobs[q])
            PROVE  jobs[q][i] \in Requests /\ jobs[q][i] # r
        BY <2>2, <4>2, JobsAreRequests DEF QueueInv
      <4>3. \A h \in Requests : job'[h] = Nil \/ job'[h] = job[h]
        BY <3>1
      <4>4. ASSUME NEW q \in Requests, NEW i \in 1..Len(jobs[q])
            PROVE  /\ call'[jobs[q][i]] = "wait" /\ queue'[jobs[q][i]] = q
                   /\ \A h \in Requests : job'[h] # jobs[q][i]
                   /\ \A j \in 1..Len(jobs[q]) : jobs[q][i] = jobs[q][j] => i = j
        <5>1. PICK x \in Requests : x = jobs[q][i] /\ x # r
          BY <4>2
        <5>2. /\ call[x] = "wait" /\ queue[x] = q
              /\ \A h \in Requests : job[h] # x
              /\ \A j \in 1..Len(jobs[q]) : x = jobs[q][j] => i = j
          BY <4>1, <5>1 DEF QueuedOnce
        <5>3. call'[x] = "wait" /\ queue'[x] = q /\ \A h \in Requests : job'[h] # x
          BY <3>1, <4>3, <5>1, <5>2, NilAssumption
        <5> QED  BY <5>1, <5>2, <5>3
      <4>5. jobs' = jobs
        BY <3>1
      <4> QED  BY <4>4, <4>5, SMTT(60) DEF QueuedOnce
    <3>3. NotForgotten'
      BY <2>1, <3>1 DEF QueueInv, NotForgotten
    <3> QED  BY <3>2, <3>3
  <2>5. NoStrandedJob' /\ RunningIsDrained'
    BY <1>8, SMTT(60) DEF QueueInv, TypeOK, NoStrandedJob, RunningIsDrained, Drains, sendErr
  <2> QED  BY <2>3, <2>4, <2>5
<1>9. ASSUME ForceFlush \/ Close \/ UNCHANGED vars  PROVE Goal
  <2>1. UNCHANGED <<req, call, queue, Queues, jobs, running, run, job, reply>>
    BY <1>9 DEF ForceFlush, Close, vars
  <2> QED
    BY <2>1, SMTT(60) DEF QueueInv, CallShape, QueuedOnce, HeldOnce, NotForgotten, NoStrandedJob,
                RunningIsDrained, Drains
<1> QED
  BY <1>t, <1>1, <1>2, <1>3, <1>4, <1>5, <1>6, <1>7, <1>8, <1>9
  DEF Next, Caller, Runner, QueueInv

\* The variables of the disk manager keep their types, for every set of requests,
\* offsets and kinds.
THEOREM TypeCorrect == Spec => []TypeOK
<1>1. QueueInv => TypeOK
  BY DEF QueueInv
<1> QED  BY InitQueueInv, QueueStep, <1>1, PTL DEF Spec

\* No job is ever left in a queue that no run goroutine will look at again, and
\* running never promises a goroutine that is not there: the claim-less start of
\* run (running is set inside the goroutine) loses no wake-up.
THEOREM NoJobStranded == Spec => [](NoStrandedJob /\ RunningIsDrained)
<1>1. QueueInv => NoStrandedJob /\ RunningIsDrained
  BY DEF QueueInv
<1> QED  BY InitQueueInv, QueueStep, <1>1, PTL DEF Spec

\* Every accepted request is queued once, executed by one goroutine, or answered.
THEOREM JobsConserved == Spec => []JobConserved
<1>1. QueueInv => JobConserved
  <2> SUFFICES ASSUME QueueInv, NEW r \in Requests
               PROVE  /\ call[r] = "wait" <=> (Queued(r) \/ Held(r))
                      /\ ~(Queued(r) /\ Held(r))
                      /\ \A g, h \in Requests : job[g] = r /\ job[h] = r => g = h
                      /\ \A p, q \in Requests :
                            \A i \in 1..Len(jobs[p]), j \in 1..Len(jobs[q]) :
                                jobs[p][i] = r /\ jobs[q][j] = r => p = q /\ i = j
    BY ZenonT(60) DEF JobConserved
  <2>1. call[r] = "wait" => Queued(r) \/ Held(r)
    BY DEF QueueInv, CallShape, NotForgotten, Queued, Held
  <2>2. Queued(r) => call[r] = "wait" /\ ~Held(r)
    BY DEF QueueInv, QueuedOnce, Queued, Held
  <2>3. Held(r) => call[r] = "wait"
    BY NilAssumption DEF QueueInv, HeldOnce, Held
  <2>4. \A g, h \in Requests : job[g] = r /\ job[h] = r => g = h
    BY NilAssumption DEF QueueInv, HeldOnce
  <2>5. \A p, q \in Requests : \A i \in 1..Len(jobs[p]), j \in 1..Len(jobs[q]) :
            jobs[p][i] = r /\ jobs[q][j] = r => p = q /\ i = j
    BY DEF QueueInv, QueuedOnce
  <2> QED  BY <2>1, <2>2, <2>3, <2>4, <2>5
<1> QED  BY InitQueueInv, QueueStep, <1>1, PTL DEF Spec

-----------------------------------------------------------------------------
(* Durability.                                                             *)

Applied(r) == \E i \in 1..Len(file[req[r].off]) : file[req[r].off][i] = r

\* The fsync of a goroutine follows its WriteAt, and its reply follows the fsync.
WriteOrder(g) ==
    /\ run[g] = "sync" => Applied(job[g])
    /\ run[g] = "reply" /\ res[g] = "ok" =>
        /\ req[job[g]].kind # "read" => Applied(job[g])
        /\ req[job[g]].kind = "flush" => Durable(job[g])

AnsweredDurable(r) == reply[r] = "ok" /\ req[r].kind = "flush" => Durable(r)

FlushInv ==
    /\ \A o \in Offsets : synced[o] <= Len(file[o])
    /\ \A g \in Requests : WriteOrder(g)
    /\ \A r \in Requests : AnsweredDurable(r)

\* A goroutine that executes a job executes a request with an ioReq.
LEMMA HeldJob ==
    ASSUME QueueInv, NEW g \in Requests, run[g] \in {"exec", "sync", "reply"}
    PROVE  /\ job[g] \in Requests /\ call[job[g]] = "wait"
           /\ req[job[g]] \in IoReq /\ req[job[g]].off \in Offsets
<1>1. job[g] # Nil /\ job[g] \in Requests
  BY DEF QueueInv, TypeOK, CallShape
<1>2. call[job[g]] = "wait"
  BY <1>1 DEF QueueInv, HeldOnce
<1>3. req[job[g]] \in IoReq
  BY <1>1, <1>2 DEF QueueInv, CallShape
<1> QED  BY <1>1, <1>2, <1>3 DEF IoReq

\* A step extends the content of a page and its durable prefix, or leaves them.
LEMMA FileGrows ==
    ASSUME QueueInv, [Next]_vars, NEW o \in Offsets
    PROVE  /\ Len(file[o]) \in Nat /\ Len(file'[o]) \in Nat
           /\ Len(file[o]) <= Len(file'[o])
           /\ \A i \in 1..Len(file[o]) : file'[o][i] = file[o][i]
           /\ synced'[o] = synced[o] \/ synced'[o] = Len(file[o])
<1>1. file[o] \in Seq(Requests) /\ file \in [Offsets -> Seq(Requests)]
  BY DEF QueueInv, TypeOK
<1>2. \/ file' = file
      \/ \E r \in Requests, k \in Offsets : file' = [file EXCEPT ![k] = Append(@, r)]
  <2>1. ASSUME NEW g \in Requests, flushPage(g)
        PROVE  \/ file' = file
               \/ \E r \in Requests, k \in Offsets : file' = [file EXCEPT ![k] = Append(@, r)]
    <3>1. job[g] \in Requests /\ req[job[g]].off \in Offsets
      BY <2>1, HeldJob, ZenonT(60) DEF flushPage
    <3> QED  BY <2>1, <3>1, ZenonT(60) DEF flushPage
  <2> QED
    BY <2>1 DEF Next, Caller, Runner, WriteReq, ReadReq, LoadQueue, StoreQueue, addJob,
         runStart, runPop, runExit, loadPage, flushSync, sendErr, ForceFlush, Close, vars
<1>3. file'[o] = file[o] \/ \E r \in Requests : file'[o] = Append(file[o], r)
  BY <1>1, <1>2
<1>4. synced' = synced \/ synced' = AllSynced
  BY ZenonT(60) DEF Next, Caller, Runner, WriteReq, ReadReq, LoadQueue, StoreQueue, addJob, runStart,
       runPop, runExit, loadPage, flushPage, flushSync, sendErr, ForceFlush, Close, vars
<1> QED  BY <1>1, <1>3, <1>4, AppendFacts DEF AllSynced

\* Once applied, always applied; once durable, always durable.
LEMMA AppliedStable ==
    ASSUME QueueInv, FlushInv, [Next]_vars, NEW r \in Requests, req'[r] = req[r], req[r] \in IoReq
    PROVE  (Applied(r) => Applied(r)') /\ (Durable(r) => Durable(r)')
<1> DEFINE o == req[r].off
<1>1. o \in Offsets
  BY DEF IoReq
<1>2. /\ Len(file[o]) \in Nat /\ Len(file'[o]) \in Nat
      /\ Len(file[o]) <= Len(file'[o])
      /\ \A i \in 1..Len(file[o]) : file'[o][i] = file[o][i]
      /\ synced'[o] = synced[o] \/ synced'[o] = Len(file[o])
  BY <1>1, FileGrows, ZenonT(60)
<1>3. synced[o] <= Len(file[o]) /\ synced[o] \in Nat
  BY <1>1 DEF FlushInv, QueueInv, TypeOK
<1>4. ASSUME Applied(r)  PROVE Applied(r)'
  <2>1. PICK i \in 1..Len(file[o]) : file[o][i] = r
    BY <1>4 DEF Applied
  <2>2. i \in 1..Len(file'[o]) /\ file'[o][i] = r
    BY <1>2, <2>1
  <2> QED  BY <2>2 DEF Applied
<1>5. ASSUME Durable(r)  PROVE Durable(r)'
  <2>1. PICK i \in 1..synced[o] : file[o][i] = r
    BY <1>5 DEF Durable
  <2>2. i \in 1..synced'[o] /\ i \in 1..Len(file[o])
    BY <1>2, <1>3, <2>1, SMTT(60)
  <2>3. file'[o][i] = r
    BY <1>2, <2>1, <2>2
  <2> QED  BY <2>2, <2>3 DEF Durable
<1> QED  BY <1>4, <1>5, ZenonT(60)

\* A call that has its ioReq keeps it.
LEMMA ReqStable ==
    ASSUME QueueInv, [Next]_vars, NEW r \in Requests, call[r] # "idle"
    PROVE  req'[r] = req[r] /\ req[r] \in IoReq
<1>1. req[r] \in IoReq
  BY DEF QueueInv, CallShape
<1>2. req' = req \/ \E t \in Requests, x \in IoReq : call[t] = "idle" /\ req' = [req EXCEPT ![t] = x]
  BY ZenonT(60) DEF Next, Caller, Runner, WriteReq, ReadReq, LoadQueue, StoreQueue, addJob, runStart,
       runPop, runExit, loadPage, flushPage, flushSync, sendErr, ForceFlush, Close, vars, IoReq
<1> QED  BY <1>1, <1>2 DEF QueueInv, TypeOK

\* The order holds on for a goroutine that does not move, and for a reply that
\* was given before.
LEMMA OrderStable ==
    ASSUME QueueInv, FlushInv, [Next]_vars
    PROVE  /\ \A g \in Requests :
                run'[g] = run[g] /\ job'[g] = job[g] /\ res'[g] = res[g] => WriteOrder(g)'
           /\ \A r \in Requests : reply'[r] = reply[r] => AnsweredDurable(r)'
<1>1. ASSUME NEW g \in Requests, run'[g] = run[g], job'[g] = job[g], res'[g] = res[g]
      PROVE  WriteOrder(g)'
  <2>1. CASE run[g] \in {"sync", "reply"}
    <3>1. job[g] \in Requests /\ call[job[g]] # "idle"
      BY <2>1, HeldJob
    <3>2. PICK r \in Requests : r = job[g]
      BY <3>1
    <3>3. req'[r] = req[r] /\ req[r] \in IoReq
      BY <3>1, <3>2, ReqStable
    <3>4. (Applied(r) => Applied(r)') /\ (Durable(r) => Durable(r)')
      BY <3>3, AppliedStable
    <3>5. /\ run[g] = "sync" => Applied(r)
          /\ run[g] = "reply" /\ res[g] = "ok" =>
                /\ req[r].kind # "read" => Applied(r)
                /\ req[r].kind = "flush" => Durable(r)
      BY <3>2 DEF FlushInv, WriteOrder
    <3>6. job'[g] = r
      BY <1>1, <3>2
    <3> HIDE <3>2
    <3> QED  BY <1>1, <3>3, <3>4, <3>5, <3>6 DEF WriteOrder, Applied, Durable
  <2>2. CASE run[g] \notin {"sync", "reply"}
    BY <1>1, <2>2 DEF WriteOrder
  <2> QED  BY <2>1, <2>2
<1>2. ASSUME NEW r \in Requests, reply'[r] = reply[r]
      PROVE  AnsweredDurable(r)'
  <2>1. CASE reply[r] = "ok"
    <3>1. call[r] # "idle"
      BY <2>1, NilAssumption DEF QueueInv, CallShape
    <3>2. req'[r] = req[r] /\ req[r] \in IoReq
      BY <3>1, ReqStable
    <3>3. Durable(r) => Durable(r)'
      BY <3>2, AppliedStable
    <3> QED  BY <1>2, <2>1, <3>2, <3>3 DEF FlushInv, AnsweredDurable
  <2>2. CASE reply[r] # "ok"
    BY <1>2, <2>2 DEF AnsweredDurable
  <2> QED  BY <2>1, <2>2
<1> QED  BY <1>1, <1>2

\* Every step keeps the order of WriteAt, fsync and reply.
LEMMA FlushStep == QueueInv /\ FlushInv /\ [Next]_vars => FlushInv'
<1> SUFFICES ASSUME QueueInv, FlushInv, [Next]_vars
             PROVE  FlushInv'
  OBVIOUS
<1> DEFINE Goal == (\A g \in Requests : WriteOrder(g)') /\ (\A r \in Requests : AnsweredDurable(r)')
<1>s. \A o \in Offsets : synced'[o] <= Len(file'[o])
  <2> SUFFICES ASSUME NEW o \in Offsets  PROVE synced'[o] <= Len(file'[o])
    OBVIOUS
  <2>1. synced[o] \in Nat /\ synced[o] <= Len(file[o])
    BY DEF QueueInv, TypeOK, FlushInv
  <2>2. /\ Len(file[o]) \in Nat /\ Len(file'[o]) \in Nat /\ Len(file[o]) <= Len(file'[o])
        /\ synced'[o] = synced[o] \/ synced'[o] = Len(file[o])
    BY FileGrows, Zenon
  <2> QED  BY <2>1, <2>2, SMTT(60)
<1>1. ASSUME UNCHANGED <<run, job, res, reply>>  PROVE Goal
  BY <1>1, OrderStable
<1>2. ASSUME NEW r \in Requests, addJob(r)  PROVE Goal
  <2>1. run'[r] \notin {"sync", "reply"} /\ UNCHANGED <<job, res, reply>>
        /\ \A h \in Requests \ {r} : run'[h] = run[h]
    BY <1>2, ZenonT(60) DEF addJob, QueueInv, TypeOK, CallShape
  <2>2. WriteOrder(r)'
    BY <2>1 DEF WriteOrder
  <2> QED  BY <2>1, <2>2, OrderStable
<1>3. ASSUME NEW g \in Requests, runStart(g) \/ runPop(g) \/ runExit(g)  PROVE Goal
  <2>1. run'[g] \notin {"sync", "reply"} /\ UNCHANGED <<res, reply>>
        /\ \A h \in Requests \ {g} : run'[h] = run[h] /\ job'[h] = job[h]
    BY <1>3 DEF runStart, runPop, runExit, QueueInv, TypeOK
  <2>2. WriteOrder(g)'
    BY <2>1 DEF WriteOrder
  <2> QED  BY <2>1, <2>2, OrderStable
<1>4. ASSUME NEW g \in Requests, loadPage(g)  PROVE Goal
  <2>1. req'[job'[g]].kind = "read" /\ run'[g] = "reply" /\ UNCHANGED <<job, reply>>
        /\ \A h \in Requests \ {g} : run'[h] = run[h] /\ res'[h] = res[h]
    BY <1>4 DEF loadPage, QueueInv, TypeOK
  <2>2. WriteOrder(g)'
    BY <2>1 DEF WriteOrder
  <2> QED  BY <2>1, <2>2, OrderStable
<1>5. ASSUME NEW g \in Requests, flushPage(g)  PROVE Goal
  <2>1. UNCHANGED <<job, req, reply>> /\ \A h \in Requests \ {g} : run'[h] = run[h] /\ res'[h] = res[h]
    BY <1>5, ZenonT(60) DEF flushPage, QueueInv, TypeOK
  <2>2. PICK r \in Requests : r = job[g] /\ req[r].off \in Offsets
    BY <1>5, HeldJob, ZenonT(60) DEF flushPage
  <2>3. CASE res'[g] = "ok"
    <3>1. /\ run'[g] = (IF req[r].kind = "flush" THEN "sync" ELSE "reply")
          /\ file'[req[r].off] = Append(file[req[r].off], r)
          /\ file[req[r].off] \in Seq(Requests)
      BY <1>5, <2>2, <2>3, ZenonT(60) DEF flushPage, QueueInv, TypeOK
    <3>2. Applied(r)'
      <4>1. Len(file'[req[r].off]) \in 1..Len(file'[req[r].off])
            /\ file'[req[r].off][Len(file'[req[r].off])] = r
        BY <3>1, AppendFacts
      <4> QED  BY <2>1, <4>1 DEF Applied
    <3>3. job'[g] = r
      BY <2>1, <2>2
    <3> HIDE <2>2
    <3>4. WriteOrder(g)'
      BY <2>1, <3>1, <3>2, <3>3, ZenonT(60) DEF WriteOrder, Applied
    <3> QED  BY <2>1, <3>4, OrderStable
  <2>4. CASE res'[g] # "ok"
    <3>1. run'[g] = "reply"
      BY <1>5, <2>4, ZenonT(60) DEF flushPage, QueueInv, TypeOK
    <3>2. WriteOrder(g)'
      BY <2>4, <3>1 DEF WriteOrder
    <3> QED  BY <2>1, <3>2, OrderStable
  <2> QED  BY <2>3, <2>4
<1>6. ASSUME NEW g \in Requests, flushSync(g)  PROVE Goal
  <2>1. UNCHANGED <<job, req, file, reply>> /\ run'[g] = "reply"
        /\ \A h \in Requests \ {g} : run'[h] = run[h] /\ res'[h] = res[h]
    BY <1>6 DEF flushSync, QueueInv, TypeOK
  <2>2. PICK r \in Requests : r = job[g] /\ req[r].off \in Offsets /\ Applied(r)
    BY <1>6, HeldJob DEF flushSync, FlushInv, WriteOrder
  <2>3. res'[g] = "ok" => synced' = AllSynced
    BY <1>6 DEF flushSync, QueueInv, TypeOK
  <2>4. res'[g] = "ok" => Applied(r)' /\ Durable(r)'
    BY <2>1, <2>2, <2>3 DEF Applied, Durable, AllSynced
  <2>5. job'[g] = r
    BY <2>1, <2>2
  <2>6. WriteOrder(g)'
    <3> HIDE <2>2
    <3> QED  BY <2>1, <2>4, <2>5, ZenonT(60) DEF WriteOrder, Applied, Durable
  <2> QED  BY <2>1, <2>6, OrderStable
<1>7. ASSUME NEW g \in Requests, sendErr(g)  PROVE Goal
  <2>1. PICK r \in Requests : r = job[g] /\ req[r] \in IoReq
    BY <1>7, HeldJob DEF sendErr
  <2>2. /\ run'[g] = "loop" /\ req' = req /\ reply'[r] = res[g]
        /\ \A h \in Requests \ {g} : run'[h] = run[h] /\ res'[h] = res[h] /\ job'[h] = job[h]
        /\ \A t \in Requests \ {r} : reply'[t] = reply[t]
    BY <1>7, <2>1 DEF sendErr, QueueInv, TypeOK
  <2>3. WriteOrder(g)'
    BY <2>2 DEF WriteOrder
  <2>4. res[g] = "ok" /\ req[r].kind = "flush" => Durable(r)
    BY <1>7, <2>1 DEF sendErr, FlushInv, WriteOrder
  <2>5. AnsweredDurable(r)'
    BY <2>1, <2>2, <2>4, AppliedStable DEF AnsweredDurable
  <2> QED  BY <2>2, <2>3, <2>5, OrderStable
<1>8. ASSUME \/ \E r \in Requests : WriteReq(r) \/ ReadReq(r) \/ StoreQueue(r)
             \/ ForceFlush \/ Close \/ UNCHANGED vars
      PROVE  Goal
  BY <1>1, <1>8 DEF WriteReq, ReadReq, LoadQueue, StoreQueue, ForceFlush, Close, vars
<1> QED
  <2>1. Goal
    BY <1>1, <1>2, <1>3, <1>4, <1>5, <1>6, <1>7, <1>8 DEF Next, Caller, Runner
  <2> QED  BY <1>s, <2>1 DEF FlushInv

\* Nothing has been written at first.
LEMMA InitFlushInv == Init => FlushInv
<1> SUFFICES ASSUME Init  PROVE FlushInv
  OBVIOUS
<1>1. \A r \in Requests : run[r] = "none" /\ reply[r] = Nil
  BY ZenonT(60) DEF Init
<1>2. \A o \in Offsets : synced[o] = 0 /\ file[o] = <<>>
  BY DEF Init
<1>3. \A g \in Requests : WriteOrder(g)
  BY <1>1 DEF WriteOrder
<1>4. \A r \in Requests : AnsweredDurable(r)
  BY <1>1, NilAssumption DEF AnsweredDurable
<1> QED  BY <1>2, <1>3, <1>4 DEF FlushInv

\* A flushed write that was answered "ok" is covered by an fsync.
THEOREM AnsweredFlushIsDurable == Spec => []FlushedIsDurable
<1>1. FlushInv => FlushedIsDurable
  BY DEF FlushInv, AnsweredDurable, FlushedIsDurable
<1> QED  BY InitQueueInv, QueueStep, InitFlushInv, FlushStep, <1>1, PTL DEF Spec

-----------------------------------------------------------------------------
(* The disk manager implements PageFile.                                   *)

\* The stage of one request, by itself.
StageOf(r) == IF call[r] = "idle" THEN "idle"
              ELSE IF call[r] = "answered" THEN "answered"
              ELSE IF Performed(r) THEN "performed" ELSE "pending"

\* The refinement mapping, request by request.
LEMMA StageIsStageOf == stage = [r \in Requests |-> StageOf(r)]
  BY DEF stage, StageOf

\* A step after which every request but r has the same stage.
LEMMA StageStep ==
    ASSUME NEW r \in Requests, \A t \in Requests \ {r} : StageOf(t)' = StageOf(t)
    PROVE  stage' = [stage EXCEPT ![r] = StageOf(r)']
<1>1. stage' = [t \in Requests |-> StageOf(t)']
  BY DEF stage, StageOf
<1> QED  BY <1>1, StageIsStageOf

\* A step after which every request has the same stage.
LEMMA StageSame ==
    ASSUME \A t \in Requests : StageOf(t)' = StageOf(t)
    PROVE  stage' = stage
<1>1. stage' = [t \in Requests |-> StageOf(t)']
  BY DEF stage, StageOf
<1> QED  BY <1>1, StageIsStageOf

\* Every step of the disk manager is a step of PageFile or leaves it unchanged.
LEMMA StepImplements ==
    QueueInv /\ FlushInv /\ [Next]_vars => [Abstract!Next]_(Abstract!vars)
<1> SUFFICES ASSUME QueueInv, FlushInv, [Next]_vars
             PROVE  Abstract!Next \/ Abstract!vars' = Abstract!vars
  OBVIOUS
<1> USE NilAssumption
<1>1. ASSUME NEW r \in Requests, WriteReq(r) \/ ReadReq(r)  PROVE Abstract!Submit(r)
  <2>1. PICK o \in Offsets, kind \in Kinds : LoadQueue(r, [off |-> o, kind |-> kind])
    BY <1>1 DEF WriteReq, ReadReq
  <2>2. \A g \in Requests : job[g] # r
    BY <2>1 DEF LoadQueue, QueueInv, HeldOnce
  <2>3. StageOf(r) = "idle" /\ StageOf(r)' = "pending"
    BY <2>1, <2>2 DEF LoadQueue, StageOf, Performed, QueueInv, TypeOK
  <2>4. \A t \in Requests \ {r} : StageOf(t)' = StageOf(t)
    BY <2>1 DEF LoadQueue, StageOf, Performed, QueueInv, TypeOK
  <2>5. stage' = [stage EXCEPT ![r] = "pending"] /\ stage[r] = "idle"
    BY <2>3, <2>4, StageStep, StageIsStageOf
  <2> QED  BY <2>1, <2>5, ZenonT(60) DEF LoadQueue, Abstract!Submit
<1>2. ASSUME NEW r \in Requests, StoreQueue(r) \/ addJob(r)  PROVE Abstract!vars' = Abstract!vars
  <2>1. UNCHANGED <<req, file, reply, job>>
        /\ \A t \in Requests : call'[t] # call[t] => /\ call[t] \in {"create", "add"}
                                                     /\ call'[t] \in {"add", "wait"}
    BY <1>2 DEF StoreQueue, addJob, QueueInv, TypeOK
  <2>2. \A t \in Requests : run'[t] \in {"sync", "reply"} <=> run[t] \in {"sync", "reply"}
    <3>1. CASE StoreQueue(r)
      BY <3>1 DEF StoreQueue
    <3>2. CASE addJob(r)
      <4>1. run[r] = "none" /\ run' = [run EXCEPT ![r] = IF running[queue[r]] THEN @ ELSE "spawned"]
        BY <3>2, ZenonT(60) DEF addJob, QueueInv, TypeOK, CallShape
      <4> QED  BY <4>1 DEF QueueInv, TypeOK
    <3> QED  BY <1>2, <3>1, <3>2
  <2>3. \A t \in Requests : StageOf(t)' = StageOf(t)
    BY <2>1, <2>2 DEF StageOf, Performed
  <2> QED  BY <2>1, <2>3, StageSame DEF Abstract!vars
<1>3. ASSUME NEW g \in Requests, runStart(g) \/ runPop(g) \/ runExit(g) \/ flushSync(g)
      PROVE  Abstract!vars' = Abstract!vars
  <2>1. UNCHANGED <<req, call, file, reply>>
    BY <1>3 DEF runStart, runPop, runExit, flushSync
  <2>2. \A h \in Requests : /\ run'[h] \in {"sync", "reply"} <=> run[h] \in {"sync", "reply"}
                            /\ run[h] \in {"sync", "reply"} => job'[h] = job[h]
    <3>1. run \in [Requests -> {"none", "spawned", "loop", "exec", "sync", "reply", "exited"}]
          /\ job \in [Requests -> Requests \cup {Nil}]
      BY DEF QueueInv, TypeOK
    <3>2. CASE runStart(g)
      BY <3>1, <3>2 DEF runStart
    <3>3. CASE runPop(g)
      BY <3>1, <3>3 DEF runPop
    <3>4. CASE runExit(g)
      BY <3>1, <3>4 DEF runExit
    <3>5. CASE flushSync(g)
      BY <3>1, <3>5 DEF flushSync
    <3> QED  BY <1>3, <3>2, <3>3, <3>4, <3>5
  <2>3. \A t \in Requests : StageOf(t)' = StageOf(t)
    BY <2>1, <2>2 DEF StageOf, Performed
  <2> QED  BY <2>1, <2>3, StageSame DEF Abstract!vars
<1>4. ASSUME NEW g \in Requests, loadPage(g) \/ flushPage(g)  PROVE Abstract!Perform(job[g])
  <2>1. PICK r \in Requests : r = job[g] /\ call[r] = "wait" /\ req[r].off \in Offsets
    BY <1>4, HeldJob, ZenonT(60) DEF loadPage, flushPage
  <2>2. /\ run[g] = "exec" /\ run'[g] \in {"sync", "reply"}
        /\ \A h \in Requests \ {g} : run'[h] = run[h]
        /\ UNCHANGED <<req, call, job, reply>>
    BY <1>4, ZenonT(60) DEF loadPage, flushPage, QueueInv, TypeOK
  <2>3. \A h \in Requests : job[h] = r => h = g
    BY <2>1 DEF QueueInv, HeldOnce
  <2>4. StageOf(r) = "pending" /\ StageOf(r)' = "performed"
    BY <2>1, <2>2, <2>3 DEF StageOf, Performed
  <2>5. \A t \in Requests \ {r} : StageOf(t)' = StageOf(t)
    BY <2>1, <2>2 DEF StageOf, Performed
  <2>6. stage' = [stage EXCEPT ![r] = "performed"] /\ stage[r] = "pending"
    BY <2>4, <2>5, StageStep, StageIsStageOf
  <2>7. \/ file' = file
        \/ req[r].kind # "read" /\ file' = [file EXCEPT ![req[r].off] = Append(@, r)]
    BY <1>4, <2>1, ZenonT(60) DEF loadPage, flushPage
  <2>8. Abstract!Perform(r)
    BY <2>2, <2>6, <2>7 DEF Abstract!Perform
  <2> QED  BY <2>1, <2>8
<1>5. ASSUME NEW g \in Requests, sendErr(g)  PROVE Abstract!Answer(job[g])
  <2>1. PICK r \in Requests : r = job[g] /\ call[r] = "wait"
    BY <1>5, HeldJob DEF sendErr
  <2>2. /\ run[g] = "reply" /\ run'[g] = "loop" /\ call'[r] = "answered"
        /\ \A h \in Requests \ {g} : run'[h] = run[h] /\ job'[h] = job[h]
        /\ \A t \in Requests \ {r} : call'[t] = call[t]
        /\ UNCHANGED <<req, file>> /\ reply' = [reply EXCEPT ![r] = res[g]]
        /\ res[g] \in {"ok", "err"}
    BY <1>5, <2>1 DEF sendErr, QueueInv, TypeOK, Result
  <2>3. StageOf(r) = "performed" /\ StageOf(r)' = "answered"
    BY <2>1, <2>2 DEF StageOf, Performed
  <2>4. \A t \in Requests \ {r} : StageOf(t)' = StageOf(t)
    BY <2>1, <2>2 DEF StageOf, Performed
  <2>5. stage' = [stage EXCEPT ![r] = "answered"] /\ stage[r] = "performed"
    BY <2>3, <2>4, StageStep, StageIsStageOf
  <2>6. res[g] = "ok" /\ req[r].kind # "read" => Applied(r)
    BY <2>1, <2>2 DEF FlushInv, WriteOrder
  <2>7. Abstract!Answer(r)
    BY <2>2, <2>5, <2>6, ZenonT(60) DEF Abstract!Answer, Abstract!Applied, Applied
  <2> QED  BY <2>1, <2>7
<1>6. ASSUME ForceFlush \/ Close \/ UNCHANGED vars  PROVE Abstract!vars' = Abstract!vars
  <2>1. UNCHANGED <<req, call, run, job, file, reply>>
    BY <1>6 DEF ForceFlush, Close, vars
  <2>2. \A t \in Requests : StageOf(t)' = StageOf(t)
    BY <2>1 DEF StageOf, Performed
  <2> QED  BY <2>1, <2>2, StageSame DEF Abstract!vars
<1>7. \A g \in Requests : loadPage(g) \/ flushPage(g) \/ sendErr(g) => job[g] \in Requests
  BY HeldJob, ZenonT(60) DEF loadPage, flushPage, sendErr
<1> QED
  BY <1>1, <1>2, <1>3, <1>4, <1>5, <1>6, <1>7 DEF Next, Caller, Runner, Abstract!Next

\* Every behaviour of the disk manager is one of PageFile: each request takes
\* effect once, in one step, between its call and its reply.
THEOREM Implementation == Spec => ImplementsPageFile
<1>1. Init => Abstract!Init
  <2> SUFFICES ASSUME Init  PROVE Abstract!Init
    OBVIOUS
  <2>1. stage = [r \in Requests |-> "idle"]
    BY DEF Init, stage
  <2> QED  BY <2>1 DEF Init, Abstract!Init
<1> QED
  BY InitQueueInv, QueueStep, InitFlushInv, FlushStep, StepImplements, <1>1, PTL
  DEF Spec, ImplementsPageFile, Abstract!Spec
=============================================================================
