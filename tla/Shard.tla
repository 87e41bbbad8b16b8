------------------------------- MODULE Shard -------------------------------
(***************************************************************************)
(* One shard of the buffer manager (pkg/buffermanager): the hash table     *)
(* CacheMap, the frames of the clock with their pins and marks, the three  *)
(* segments of W-TinyLFU, the workers that run GET, NEW and DELETE jobs    *)
(* for their callers, and the background writer.                           *)
(*                                                                         *)
(* EvictWithoutClearing is represented by what it returns: an entry of the *)
(* segment that is neither accessed nor marked, or nil when there is none  *)
(* or others are at work, who may have pinned each entry just when the     *)
(* hand passed it.  Module Clock has the sweep.  The TinyLFU counts decide *)
(* between two victims; here either may lose.  A page is its version; the  *)
(* pager writes and reads it in one step, as module PageFile promises.     *)
(***************************************************************************)
EXTENDS Naturals, FiniteSets

CONSTANTS Frames,      \* the clock entries that are not reserved
          Pages,       \* page ids other than 0
          Procs,       \* callers, each with the worker that runs its job
          Nil,
          OnDisk,      \* the pages that the data file holds at the start
          Ops,         \* which of get, new, delete are called
          Errors,      \* whether reads and writes of the data file may fail
          BgWriters,   \* whether the background writer runs
          WindowCap, ProbationCap, ProtectedCap,
          MaxJobs,     \* bound on the jobs
          MaxWrites    \* bound on the writes into frames

ASSUME CapAssumption ==
    /\ WindowCap \in Nat \ {0} /\ ProbationCap \in Nat /\ ProtectedCap \in Nat
    /\ IsFiniteSet(Frames)
    /\ WindowCap + ProbationCap + ProtectedCap = Cardinality(Frames)

ASSUME ShardAssumption ==
    /\ OnDisk \subseteq Pages
    /\ Ops \subseteq {"get", "new", "delete"}
    /\ Errors \in BOOLEAN /\ BgWriters \in BOOLEAN
    /\ MaxJobs \in Nat /\ MaxWrites \in Nat
    /\ Nil \notin Frames \cup Pages \cup Procs

VARIABLES
    CacheMap,   \* page id -> entry
    en,         \* the clock entries and their frames
    latch,      \* who holds the exclusive latch of a frame across steps
    windowCount, probationCount, protectedCount,
    wmu,        \* who holds WTinyLfu.mu
    proc,       \* the callers and their jobs
    bg,         \* the background writer
    disk,       \* the version of each page in the data file, 0 for none
    freeList,   \* the page ids that the pager may issue
    latest,     \* the last version written to each page by a caller
    jobs, writes,
    panic       \* some goroutine has panicked

vars == <<CacheMap, en, latch, windowCount, probationCount, protectedCount, wmu,
          proc, bg, disk, freeList, latest, jobs, writes, panic>>

counts == <<windowCount, probationCount, protectedCount>>
history == <<latest, jobs, writes>>

Segments == {"unassigned", "window", "probation", "protected"}

Versions == 0..(MaxWrites + 1)

\* pins is pinCount - unpinCount.
Entry == [occ : BOOLEAN, marked : BOOLEAN, acc : BOOLEAN, pins : Nat, seg : Segments,
          key : Pages \cup {Nil}, dirty : BOOLEAN, dead : BOOLEAN, data : Versions]

\* fr: the frame of the job; inc: the entry passed to Increment, and where it
\* returns to; wind, main: the victims of evictWindow or promoteToProtected; vic:
\* the one of them that is evicted.
Proc == [pc : {"idle", "load", "ref", "hit", "promote", "swap", "getFree", "evict",
               "move", "pickMain", "writeVictim", "unmap", "reset", "take", "latch",
               "read", "put", "putInc", "store", "hold", "reference", "markDead",
               "unref"},
         op : {"get", "new", "delete"}, pid : Pages \cup {Nil}, fr : Frames \cup {Nil},
         inc : Frames \cup {Nil}, ret : {"hold", "store"},
         wind : Frames \cup {Nil}, main : Frames \cup {Nil}, vic : Frames \cup {Nil}]

TypeOK ==
    /\ CacheMap \in [Pages -> Frames \cup {Nil}]
    /\ en \in [Frames -> Entry]
    /\ latch \in [Frames -> Procs \cup {Nil}]
    /\ windowCount \in Nat /\ probationCount \in Nat /\ protectedCount \in Nat
    /\ wmu \in Procs \cup {Nil}
    /\ proc \in [Procs -> Proc]
    /\ bg \in [pc : {"idle", "copy", "write"}, fr : Frames \cup {Nil},
               key : Pages \cup {Nil}, data : Versions, dead : BOOLEAN]
    /\ disk \in [Pages -> Versions]
    /\ freeList \subseteq Pages
    /\ latest \in [Pages -> Versions]
    /\ jobs \in 0..MaxJobs /\ writes \in 0..MaxWrites
    /\ panic \in BOOLEAN

Vacant == [occ |-> FALSE, marked |-> FALSE, acc |-> FALSE, pins |-> 0,
           seg |-> "unassigned", key |-> Nil, dirty |-> FALSE, dead |-> FALSE, data |-> 0]

Idle == [pc |-> "idle", op |-> "get", pid |-> Nil, fr |-> Nil, inc |-> Nil, ret |-> "hold",
         wind |-> Nil, main |-> Nil, vic |-> Nil]

BgIdle == [pc |-> "idle", fr |-> Nil, key |-> Nil, data |-> 0, dead |-> FALSE]

Init ==
    /\ CacheMap = [k \in Pages |-> Nil]
    /\ en = [f \in Frames |-> Vacant]
    /\ latch = [f \in Frames |-> Nil]
    /\ windowCount = 0 /\ probationCount = 0 /\ protectedCount = 0
    /\ wmu = Nil
    /\ proc = [w \in Procs |-> Idle]
    /\ bg = BgIdle
    /\ disk = [k \in Pages |-> IF k \in OnDisk THEN 1 ELSE 0]
    /\ freeList = Pages \ OnDisk
    /\ latest = [k \in Pages |-> IF k \in OnDisk THEN 1 ELSE 0]
    /\ jobs = 0 /\ writes = 0
    /\ panic = FALSE

-----------------------------------------------------------------------------
(* Pins and victims (clock.go).                                            *)

\* reference().
Pinned(e) == [e EXCEPT !.acc = TRUE, !.pins = @ + 1]

\* unref() of an entry that has a pin.
Unpinned(e) == [e EXCEPT !.acc = @ /\ e.pins # 1, !.pins = IF @ = 0 THEN 0 ELSE @ - 1]

\* unref() panics when pinCount <= unpinCount.
CanUnref(e) == e.pins > 0

\* Mutation: an accessed entry may be a victim.
Eligible_Accessed(f, s) == ~en[f].marked /\ en[f].seg = s

\* EvictWithoutClearing(s) may return f.
Eligible(f, s) == ~en[f].acc /\ ~en[f].marked /\ en[f].seg = s

NoVictim(s) == \A f \in Frames : ~Eligible(f, s)

\* Another caller or the background writer is at work.
OthersActive(w) == bg.pc # "idle" \/ \E v \in Procs \ {w} : proc[v].pc # "idle"

\* It may return nil to w: the sweep looks at the entries one after the other, and what others
\* pin and unpin meanwhile can escape it although it is eligible at every end of a step.
FindsNone(w, s) == NoVictim(s) \/ OthersActive(w)

\* A victim is pinned and marked.
Victim(e) == [Pinned(e) EXCEPT !.marked = TRUE]

\* updateSegmentCAS.
Moved(e, old, s) == IF e.seg = old THEN [e EXCEPT !.seg = s] ELSE e

\* resetEntry and Frame.Clear; clearEntry is the same but for the mark.
Cleared(e) == [Vacant EXCEPT !.marked = e.marked, !.dead = e.dead]

\* A panic in any goroutine ends the program.
At(w, pc) == ~panic /\ proc[w].pc = pc

BgAt(pc) == ~panic /\ bg.pc = pc

Goto(w, pc) == proc' = [proc EXCEPT ![w].pc = pc]

\* The job is answered, or the frame given back.
Done(w) == proc' = [proc EXCEPT ![w] = Idle]

-----------------------------------------------------------------------------
(* GET, and DELETE of a cached page (runJob).                              *)

\* A caller sends a job to the worker pool.  NewFrame has taken its page id from
\* the pager.
Start(w) ==
    /\ At(w, "idle")
    /\ jobs < MaxJobs
    /\ jobs' = jobs + 1
    /\ \E op \in Ops, k \in Pages :
        /\ op = "new" => k \in freeList
        /\ freeList' = IF op = "new" THEN freeList \ {k} ELSE freeList
        /\ proc' = [proc EXCEPT ![w] = [Idle EXCEPT !.op = op, !.pid = k,
                        !.pc = IF op = "new" THEN "getFree" ELSE "load"]]
    /\ UNCHANGED <<CacheMap, en, latch, counts, wmu, bg, disk, latest, writes, panic>>

\* CacheMap.Load.
Load(w) ==
    LET val == CacheMap[proc[w].pid]
    IN  /\ At(w, "load")
        /\ proc' = [proc EXCEPT ![w].fr = val,
                        ![w].pc = IF val = Nil THEN "getFree"
                                  ELSE IF proc[w].op = "get" THEN "ref" ELSE "reference"]
        /\ UNCHANGED <<CacheMap, en, latch, counts, wmu, bg, disk, freeList, history, panic>>

\* Mutation: the entry is handed out without a pin.
refIfOccupied_NoPin(w) ==
    LET e == en[proc[w].fr]
    IN  /\ At(w, "ref")
        /\ \/ /\ e.occ /\ ~e.marked
              /\ en' = [en EXCEPT ![proc[w].fr].acc = TRUE]
              /\ Goto(w, "hit")
           \/ /\ ~e.occ \/ e.marked
              /\ en' = en
              /\ proc' = [proc EXCEPT ![w].pc = "getFree", ![w].fr = Nil]
        /\ UNCHANGED <<CacheMap, latch, counts, wmu, bg, disk, freeList, history, panic>>

\* A vacant or marked entry counts as a miss.
refIfOccupied(w) ==
    LET e == en[proc[w].fr]
    IN  /\ At(w, "ref")
        /\ \/ /\ e.occ /\ ~e.marked
              /\ en' = [en EXCEPT ![proc[w].fr] = Pinned(@)]
              /\ Goto(w, "hit")
           \/ /\ ~e.occ \/ e.marked
              /\ en' = en
              /\ proc' = [proc EXCEPT ![w].pc = "getFree", ![w].fr = Nil]
        /\ UNCHANGED <<CacheMap, latch, counts, wmu, bg, disk, freeList, history, panic>>

\* A dead frame is given back and, once written, unmapped.
HitDead(w) ==
    LET f == proc[w].fr
    IN  /\ At(w, "hit")
        /\ en[f].dead
        /\ CacheMap' = IF en[f].dirty THEN CacheMap ELSE [CacheMap EXCEPT ![proc[w].pid] = Nil]
        /\ en' = [en EXCEPT ![f] = Unpinned(@)]
        /\ panic' = ~CanUnref(en[f])
        /\ Done(w)
        /\ UNCHANGED <<latch, counts, wmu, bg, disk, freeList, history>>

\* Increment(e): an entry on probation is to be promoted, one without a segment
\* joins the window.  Its result is ignored.
Increment(w, e, ret) ==
    /\ en' = [en EXCEPT ![e] = Moved(@, "unassigned", "window")]
    /\ proc' = [proc EXCEPT ![w].inc = e, ![w].ret = ret,
                            ![w].pc = IF en[e].seg = "probation" THEN "promote" ELSE ret]

Hit(w) ==
    /\ At(w, "hit")
    /\ ~en[proc[w].fr].dead
    /\ Increment(w, proc[w].fr, "hold")
    /\ UNCHANGED <<CacheMap, latch, counts, wmu, bg, disk, freeList, history, panic>>

\* promoteToProtected, under WTinyLfu.mu: nothing to do any more, or room for the
\* entry, or no victim to exchange it with, or one that is pinned and marked ...
promoteToProtected(w) ==
    LET e == proc[w].inc
    IN  /\ At(w, "promote")
        /\ wmu = Nil
        /\ \/ /\ en[e].seg # "probation"
              /\ Goto(w, proc[w].ret)
              /\ UNCHANGED <<en, counts, wmu>>
           \/ /\ en[e].seg = "probation" /\ protectedCount < ProtectedCap
              /\ en' = [en EXCEPT ![e].seg = "protected"]
              /\ probationCount' = probationCount - 1
              /\ protectedCount' = protectedCount + 1
              /\ Goto(w, proc[w].ret)
              /\ UNCHANGED <<windowCount, wmu>>
           \/ /\ en[e].seg = "probation" /\ protectedCount >= ProtectedCap
              /\ FindsNone(w, "protected")
              /\ Goto(w, proc[w].ret)
              /\ UNCHANGED <<en, counts, wmu>>
           \/ /\ en[e].seg = "probation" /\ protectedCount >= ProtectedCap
              /\ \E f \in Frames :
                    /\ Eligible(f, "protected")
                    /\ en' = [en EXCEPT ![f] = Victim(@)]
                    /\ proc' = [proc EXCEPT ![w].main = f, ![w].pc = "swap"]
              /\ wmu' = w
              /\ UNCHANGED counts
        /\ UNCHANGED <<CacheMap, latch, bg, disk, freeList, history, panic>>

\* ... exchanged with the entry, and released.
swapProtected(w) ==
    LET v == proc[w].main
    IN  /\ At(w, "swap")
        /\ en' = [en EXCEPT ![v] = [Unpinned(Moved(@, "protected", "probation"))
                                        EXCEPT !.marked = FALSE],
                            ![proc[w].inc] = Moved(@, "probation", "protected")]
        /\ panic' = ~CanUnref(en[v])
        /\ wmu' = Nil
        /\ proc' = [proc EXCEPT ![w].main = Nil, ![w].pc = proc[w].ret]
        /\ UNCHANGED <<CacheMap, latch, counts, bg, disk, freeList, history>>

-----------------------------------------------------------------------------
(* getFreeFrame and evictWindow (wtinylfu.go), under WTinyLfu.mu.          *)

\* Mutation: WTinyLfu.mu is not released on an error.
Fail_KeepLock(w) == Done(w) /\ wmu' = wmu

\* An error is returned to the caller.
Fail(w) == Done(w) /\ wmu' = Nil

getFreeFrame(w) ==
    /\ At(w, "getFree")
    /\ wmu = Nil
    /\ panic' = (windowCount > WindowCap)
    /\ wmu' = w
    /\ Goto(w, IF windowCount = WindowCap THEN "evict" ELSE "take")
    /\ UNCHANGED <<CacheMap, en, latch, counts, bg, disk, freeList, history>>

\* The victim of the window segment, or nil.
evictWindow(w) ==
    /\ At(w, "evict")
    /\ panic' = (probationCount > ProbationCap)
    /\ \/ \E f \in Frames :
            /\ Eligible(f, "window")
            /\ en' = [en EXCEPT ![f] = Victim(@)]
            /\ proc' = [proc EXCEPT ![w].wind = f,
                            ![w].pc = IF probationCount >= ProbationCap THEN "pickMain" ELSE "move"]
            /\ wmu' = wmu
       \/ /\ FindsNone(w, "window")
          /\ en' = en
          /\ IF probationCount >= ProbationCap THEN Goto(w, "pickMain") /\ wmu' = wmu
             ELSE Fail(w)
    /\ UNCHANGED <<CacheMap, latch, counts, bg, disk, freeList, history>>

\* Mutation: probationCount is not adjusted.
moveToProbation_NoCount(w) ==
    LET f == proc[w].wind
    IN  /\ At(w, "move")
        /\ en' = [en EXCEPT ![f] = [Unpinned(Moved(@, "window", "probation"))
                                        EXCEPT !.marked = FALSE]]
        /\ panic' = ~CanUnref(en[f])
        /\ windowCount' = windowCount - 1
        /\ proc' = [proc EXCEPT ![w].wind = Nil, ![w].pc = "take"]
        /\ UNCHANGED <<CacheMap, latch, probationCount, protectedCount, wmu, bg, disk, freeList, history>>

\* Probation has room: the window victim moves there.
moveToProbation(w) ==
    LET f == proc[w].wind
    IN  /\ At(w, "move")
        /\ en' = [en EXCEPT ![f] = [Unpinned(Moved(@, "window", "probation"))
                                        EXCEPT !.marked = FALSE]]
        /\ panic' = ~CanUnref(en[f])
        /\ probationCount' = probationCount + 1
        /\ windowCount' = windowCount - 1
        /\ proc' = [proc EXCEPT ![w].wind = Nil, ![w].pc = "take"]
        /\ UNCHANGED <<CacheMap, latch, protectedCount, wmu, bg, disk, freeList, history>>

\* Probation is full: a victim of it, too.  If either is missing the other loses
\* its pin, but not its mark.  Otherwise the TinyLFU counts decide.
pickMain(w) ==
    LET v == proc[w].wind
    IN  /\ At(w, "pickMain")
        /\ \/ \E f \in Frames :
                /\ Eligible(f, "probation")
                /\ \/ /\ v # Nil
                      /\ en' = [en EXCEPT ![f] = Victim(@)]
                      /\ \E vic \in {v, f} : proc' = [proc EXCEPT ![w].main = f, ![w].vic = vic,
                                                                  ![w].pc = "writeVictim"]
                      /\ wmu' = wmu
                   \/ /\ v = Nil
                      /\ en' = [en EXCEPT ![f].marked = TRUE]
                      /\ Fail(w)
              /\ panic' = panic
           \/ /\ FindsNone(w, "probation")
              /\ en' = IF v = Nil THEN en ELSE [en EXCEPT ![v] = Unpinned(@)]
              /\ panic' = (v # Nil /\ ~CanUnref(en[v]))
              /\ Fail(w)
        /\ UNCHANGED <<CacheMap, latch, counts, bg, disk, freeList, history>>

\* Pager.WritePage: a dead page is zeroed and its id freed.
WritePage(k, data, isDead) ==
    /\ disk' = IF k = Nil THEN disk ELSE [disk EXCEPT ![k] = IF isDead THEN 0 ELSE data]
    /\ freeList' = IF isDead /\ k # Nil THEN freeList \cup {k} ELSE freeList

\* Mutation: the victim is dropped without being written.
writeVictim_Skip(w) ==
    /\ At(w, "writeVictim")
    /\ Goto(w, "unmap")
    /\ UNCHANGED <<CacheMap, en, latch, counts, wmu, bg, disk, freeList, history, panic>>

\* A dirty victim is written; if that fails both victims keep pin and mark.
writeVictim(w) ==
    LET e == en[proc[w].vic]
    IN  /\ At(w, "writeVictim")
        /\ \/ /\ ~e.dirty
              /\ Goto(w, "unmap")
              /\ UNCHANGED <<disk, freeList, wmu>>
           \/ /\ e.dirty /\ latch[proc[w].vic] = Nil
              /\ WritePage(e.key, e.data, e.dead)
              /\ Goto(w, "unmap")
              /\ wmu' = wmu
           \/ /\ e.dirty /\ latch[proc[w].vic] = Nil /\ Errors
              /\ Fail(w)
              /\ UNCHANGED <<disk, freeList>>
        /\ UNCHANGED <<CacheMap, en, latch, counts, bg, history, panic>>

\* Mutation: the victim stays in the hash table.
unmapVictim_Skip(w) ==
    /\ At(w, "unmap")
    /\ Goto(w, "reset")
    /\ UNCHANGED <<CacheMap, en, latch, counts, wmu, bg, disk, freeList, history, panic>>

\* It is removed from the hash table before ...
unmapVictim(w) ==
    LET k == en[proc[w].vic].key
    IN  /\ At(w, "unmap")
        /\ CacheMap' = IF k = Nil THEN CacheMap ELSE [CacheMap EXCEPT ![k] = Nil]
        /\ Goto(w, "reset")
        /\ UNCHANGED <<en, latch, counts, wmu, bg, disk, freeList, history, panic>>

\* ... its entry is reset; the other victim is released, into probation.
resetVictim(w) ==
    LET v == proc[w].vic
        o == IF v = proc[w].wind THEN proc[w].main ELSE proc[w].wind
    IN  /\ At(w, "reset")
        /\ en' = [en EXCEPT ![v] = [Cleared(@) EXCEPT !.marked = FALSE],
                            ![o] = [Unpinned(Moved(@, "window", "probation"))
                                        EXCEPT !.marked = FALSE]]
        /\ panic' = ~CanUnref(en[o])
        /\ windowCount' = windowCount - 1
        /\ proc' = [proc EXCEPT ![w].wind = Nil, ![w].main = Nil, ![w].vic = Nil,
                                ![w].pc = "take"]
        /\ UNCHANGED <<CacheMap, latch, probationCount, protectedCount, wmu, bg, disk,
                       freeList, history>>

\* A free frame joins the window.
takeFrame(w) ==
    /\ At(w, "take")
    /\ \/ \E f \in Frames :
            /\ Eligible(f, "unassigned")
            /\ en' = [en EXCEPT ![f] = [Victim(@) EXCEPT !.seg = "window"]]
            /\ windowCount' = windowCount + 1
            /\ proc' = [proc EXCEPT ![w].fr = f, ![w].pc = "latch"]
            /\ wmu' = Nil
       \/ /\ FindsNone(w, "unassigned")
          /\ Fail(w)
          /\ UNCHANGED <<en, windowCount>>
    /\ UNCHANGED <<CacheMap, latch, probationCount, protectedCount, bg, disk, freeList,
                   history, panic>>

-----------------------------------------------------------------------------
(* The rest of a miss, and NEW (runJob).                                   *)

Acquire(w) ==
    LET f == proc[w].fr
    IN  /\ At(w, "latch")
        /\ latch[f] = Nil
        /\ latch' = [latch EXCEPT ![f] = w]
        /\ en' = [en EXCEPT ![f].marked = FALSE]
        /\ Goto(w, "read")
        /\ UNCHANGED <<CacheMap, counts, wmu, bg, disk, freeList, history, panic>>

\* ReadPage, UpdatePageMeta and SetData; a failed read, or bytes of another page,
\* give the frame back with readdFrameToPool.
ReadPage(w) ==
    LET f == proc[w].fr
        k == proc[w].pid
    IN  /\ At(w, "read") /\ proc[w].op # "new"
        /\ \/ /\ disk[k] # 0
              /\ en' = [en EXCEPT ![f].data = disk[k], ![f].key = k, ![f].occ = TRUE,
                                  ![f].dead = FALSE]
              /\ Goto(w, "put")
              /\ latch' = latch
           \/ /\ disk[k] = 0 \/ Errors
              /\ en' = [en EXCEPT ![f] = Cleared(@)]
              /\ latch' = [latch EXCEPT ![f] = Nil]
              /\ Done(w)
        /\ UNCHANGED <<CacheMap, counts, wmu, bg, disk, freeList, history, panic>>

\* NewPage and SetData.
NewPage(w) ==
    LET f == proc[w].fr
        k == proc[w].pid
    IN  /\ At(w, "read") /\ proc[w].op = "new"
        /\ en' = [en EXCEPT ![f].data = 1, ![f].key = k, ![f].occ = TRUE, ![f].dead = FALSE,
                            ![f].dirty = TRUE]
        /\ latest' = [latest EXCEPT ![k] = 1]
        /\ Goto(w, "put")
        /\ UNCHANGED <<CacheMap, latch, counts, wmu, bg, disk, freeList, jobs, writes, panic>>

\* put: an entry that is already mapped is counted as accessed ...
put(w) ==
    LET val == CacheMap[proc[w].pid]
    IN  /\ At(w, "put")
        /\ proc' = [proc EXCEPT ![w].inc = val, ![w].pc = IF val = Nil THEN "store" ELSE "putInc"]
        /\ UNCHANGED <<CacheMap, en, latch, counts, wmu, bg, disk, freeList, history, panic>>

putIncrement(w) ==
    /\ At(w, "putInc")
    /\ Increment(w, proc[w].inc, "store")
    /\ UNCHANGED <<CacheMap, latch, counts, wmu, bg, disk, freeList, history, panic>>

\* ... and replaced.  The frame is latched until the job is answered.
Store(w) ==
    /\ At(w, "store")
    /\ CacheMap' = [CacheMap EXCEPT ![proc[w].pid] = proc[w].fr]
    /\ IF proc[w].op = "delete"
       THEN Goto(w, "markDead") /\ latch' = latch
       ELSE Goto(w, "hold") /\ latch' = [latch EXCEPT ![proc[w].fr] = Nil]
    /\ UNCHANGED <<en, counts, wmu, bg, disk, freeList, history, panic>>

\* DELETE pins the entry it found whatever the entry has become since ...
reference(w) ==
    /\ At(w, "reference")
    /\ en' = [en EXCEPT ![proc[w].fr] = Pinned(@)]
    /\ Goto(w, "markDead")
    /\ UNCHANGED <<CacheMap, latch, counts, wmu, bg, disk, freeList, history, panic>>

MarkDead(w) ==
    LET f == proc[w].fr
    IN  /\ At(w, "markDead")
        /\ latch[f] \in {Nil, w}
        /\ en' = [en EXCEPT ![f].dead = TRUE, ![f].dirty = TRUE]
        /\ Goto(w, "unref")
        /\ UNCHANGED <<CacheMap, latch, counts, wmu, bg, disk, freeList, history, panic>>

\* ... and unpins it.
unref(w) ==
    LET f == proc[w].fr
    IN  /\ At(w, "unref")
        /\ en' = [en EXCEPT ![f] = Unpinned(@)]
        /\ panic' = ~CanUnref(en[f])
        /\ latch' = [latch EXCEPT ![f] = IF @ = w THEN Nil ELSE @]
        /\ Done(w)
        /\ UNCHANGED <<CacheMap, counts, wmu, bg, disk, freeList, history>>

-----------------------------------------------------------------------------
(* The caller that was handed a frame.                                     *)

Write(w) ==
    LET f == proc[w].fr
    IN  /\ At(w, "hold")
        /\ latch[f] = Nil
        /\ writes < MaxWrites
        /\ writes' = writes + 1
        /\ en' = [en EXCEPT ![f].data = writes + 2, ![f].dirty = TRUE]
        /\ latest' = [latest EXCEPT ![proc[w].pid] = writes + 2]
        /\ UNCHANGED <<CacheMap, latch, counts, wmu, proc, bg, disk, freeList, jobs, panic>>

Unreference(w) ==
    LET f == proc[w].fr
    IN  /\ At(w, "hold")
        /\ en' = [en EXCEPT ![f] = Unpinned(@)]
        /\ panic' = ~CanUnref(en[f])
        /\ Done(w)
        /\ UNCHANGED <<CacheMap, latch, counts, wmu, bg, disk, freeList, history>>

-----------------------------------------------------------------------------
(* The background writer (bgwriter.go), which visits the entries in turn.  *)

refIfNotReferenced ==
    /\ BgWriters /\ BgAt("idle")
    /\ \E f \in Frames :
        /\ en[f].occ /\ ~en[f].acc /\ ~en[f].marked
        /\ en' = [en EXCEPT ![f] = Pinned(@)]
        /\ bg' = [bg EXCEPT !.pc = "copy", !.fr = f]
    /\ UNCHANGED <<CacheMap, latch, counts, wmu, proc, disk, freeList, history, panic>>

\* Mutation: the pin is given up before the copy is written.
bgCopy_Unpin ==
    LET e == en[bg.fr]
    IN  /\ BgAt("copy") /\ latch[bg.fr] = Nil
        /\ en' = [en EXCEPT ![bg.fr] = [Unpinned(@) EXCEPT !.dirty = FALSE]]
        /\ bg' = IF e.dirty
                 THEN [bg EXCEPT !.pc = "write", !.key = e.key, !.data = e.data, !.dead = e.dead]
                 ELSE BgIdle
        /\ UNCHANGED <<CacheMap, latch, counts, wmu, proc, disk, freeList, history, panic>>

\* A clean frame is released, a dirty one copied and marked clean ...
bgCopy ==
    LET e == en[bg.fr]
    IN  /\ BgAt("copy")
        /\ \/ /\ ~e.dirty
              /\ en' = [en EXCEPT ![bg.fr] = Unpinned(@)]
              /\ panic' = ~CanUnref(e)
              /\ bg' = BgIdle
           \/ /\ e.dirty /\ latch[bg.fr] = Nil
              /\ en' = [en EXCEPT ![bg.fr].dirty = FALSE]
              /\ bg' = [bg EXCEPT !.pc = "write", !.key = e.key, !.data = e.data, !.dead = e.dead]
              /\ panic' = panic
        /\ UNCHANGED <<CacheMap, latch, counts, wmu, proc, disk, freeList, history>>

\* ... before the copy is written.
bgWrite ==
    /\ BgAt("write")
    /\ \/ WritePage(bg.key, bg.data, bg.dead)
       \/ Errors /\ UNCHANGED <<disk, freeList>>
    /\ en' = [en EXCEPT ![bg.fr] = Unpinned(@)]
    /\ panic' = ~CanUnref(en[bg.fr])
    /\ bg' = BgIdle
    /\ UNCHANGED <<CacheMap, latch, counts, wmu, proc, history>>

-----------------------------------------------------------------------------
Worker(w) ==
    \/ Load(w) \/ refIfOccupied(w) \/ HitDead(w) \/ Hit(w)
    \/ promoteToProtected(w) \/ swapProtected(w)
    \/ getFreeFrame(w) \/ evictWindow(w) \/ moveToProbation(w) \/ pickMain(w)
    \/ writeVictim(w) \/ unmapVictim(w) \/ resetVictim(w) \/ takeFrame(w)
    \/ Acquire(w) \/ ReadPage(w) \/ NewPage(w) \/ put(w) \/ putIncrement(w) \/ Store(w)
    \/ reference(w) \/ MarkDead(w) \/ unref(w)

BgWriter == refIfNotReferenced \/ bgCopy \/ bgWrite

Next == \/ \E w \in Procs : Start(w) \/ Worker(w) \/ Write(w) \/ Unreference(w)
        \/ BgWriter

Spec == Init /\ [][Next]_vars

\* Workers and the background writer keep running, and a caller gives back its frame.
FairSpec == /\ Spec
            /\ \A w \in Procs : WF_vars(Worker(w)) /\ WF_vars(Unreference(w))
            /\ WF_vars(bgCopy \/ bgWrite)

-----------------------------------------------------------------------------
(* Properties.                                                             *)

\* No goroutine panics: unref is never called on an entry without pins, and no
\* segment exceeds its capacity.
NoPanic == ~panic

InSegment(s) == {f \in Frames : en[f].seg = s}

\* The counters of the main segments are those of the entries in them and stay
\* within capacity, whatever jobs, promotions and evictions interleave.
MainCountsExact ==
    /\ probationCount = Cardinality(InSegment("probation")) /\ probationCount <= ProbationCap
    /\ protectedCount = Cardinality(InSegment("protected")) /\ protectedCount <= ProtectedCap

\* Those who rely on frame f staying what it is.
Holders(f) ==
    {w \in Procs : \/ /\ proc[w].fr = f
                      /\ proc[w].pc \in {"hit", "promote", "swap", "latch", "read", "put",
                                         "putInc", "store", "hold", "markDead", "unref"}
                   \/ f \in {proc[w].wind, proc[w].main}}
    \cup {b \in {Nil} : bg.fr = f}

\* An entry is pinned at least as often as there are callers, evictions and writers
\* at work on it: a frame is never evicted under any of them.
PinsCoverHolders ==
    \A f \in Frames : /\ Cardinality(Holders(f)) <= en[f].pins
                      /\ en[f].acc <=> en[f].pins > 0

\* A frame that was handed to a caller holds the same page until it is given back.
HeldIsStable ==
    [][\A w \in Procs : proc[w].pc = "hold" /\ proc'[w].pc = "hold"
            => /\ en'[proc[w].fr].key = en[proc[w].fr].key
               /\ en'[proc[w].fr].occ]_vars

\* The job of w fills a frame for page k and will map it.
WillMap(w, k, f) ==
    /\ proc[w].pid = k /\ proc[w].fr = f
    /\ proc[w].pc \in {"put", "putInc", "promote", "swap", "store"}

\* An eviction that found one victim out of two has left f marked (pickMain).
LeftMarked(f) == en[f].marked /\ \A w \in Procs : f \notin {proc[w].wind, proc[w].main}

\* With one caller the last write to a page is not lost to evictions and the background
\* writer, which clears the dirty bit before it writes: the data file has the page, or
\* the copy that the background writer is about to write has it, or a dirty frame with it
\* is mapped or about to be.  Excepted is a frame left marked by evictWindow, which the
\* next GET takes for a miss: it keeps the write, but is mapped only until then.
NoLostWrite ==
    \A k \in Pages :
        \/ latest[k] = disk[k]
        \/ \E f \in Frames :
            /\ en[f].key = k /\ en[f].data = latest[k] /\ en[f].dirty
            /\ CacheMap[k] = f \/ LeftMarked(f) \/ \E w \in Procs : WillMap(w, k, f)
        \/ bg.pc = "write" /\ bg.key = k /\ bg.data = latest[k]

\* Every job ends, unless the program does: nobody waits for ever for WTinyLfu.mu
\* or a latch.
EveryJobEnds == \A w \in Procs : proc[w].pc # "idle" ~> (proc[w].pc = "idle" \/ panic)

\* shard.go:128, "A new frame is automatically referenced/pinned to ensure it is not
\* evicted when initializing so the caller has to ensure they unreference it": the frame
\* of a caller, new or not, stays pinned until the caller gives it back.
HeldIsPinned == \A w \in Procs : proc[w].pc = "hold" => en[proc[w].fr].pins > 0

\* With one caller the frame that GET or NEW returns holds the page until it is given back:
\* evictWindow removes a victim from the hash table before it resets the entry, so that a
\* later lookup finds no entry that was reused.
GetReturnsPage == \A w \in Procs : proc[w].pc = "hold" => en[proc[w].fr].key = proc[w].pid

\* wtinylfu.go:302, "getEmptyFrame returns a free frame from the circular buffer. If no
\* frame is available, evict from window cache": when nothing is going on and no frame
\* is in use, the next miss is served.
IdlePoolServes ==
    (\A w \in Procs : proc[w].pc = "idle") /\ bg.pc = "idle"
        => \/ windowCount < WindowCap /\ ~NoVictim("unassigned")
           \/ /\ windowCount = WindowCap /\ ~NoVictim("window")
              /\ probationCount = ProbationCap => ~NoVictim("probation")
=============================================================================
