------------------------------- MODULE Clock -------------------------------
(***************************************************************************)
(* The clock of the buffer manager (pkg/buffermanager/clock.go): the sweep *)
(* of EvictWithoutClearing over the entries, entry by entry, while other   *)
(* goroutines pin and unpin them.  Its callers hold WTinyLfu.mu, also      *)
(* while it sleeps, so there is one sweep at a time; it takes the mutex of *)
(* one entry at a time, so what it has passed may change behind it.        *)
(***************************************************************************)
EXTENDS Naturals, FiniteSets

CONSTANTS N,            \* capacity
          Segs,         \* segment types
          MAX_LOOP, MAX_RETRIES,
          MaxPins,      \* bound on the pins of an entry
          MaxRefs       \* bound on the DELETE jobs that hold an entry

ASSUME ClockAssumption ==
    /\ N \in Nat \ {0} /\ MAX_LOOP \in Nat \ {0, 1} /\ MAX_RETRIES \in Nat \ {0}
    /\ MaxPins \in Nat /\ MaxRefs \in Nat
    /\ Segs # {}

VARIABLES hand,     \* clock.Head: index the clock hand points to
          bPool,    \* the entries
          sweep,    \* the progress of EvictWithoutClearing
          victims,  \* entries returned by it and not yet released
          steady,   \* history: eligible ever since the sweep began
          holds,    \* how often unref is still to be called by those that pinned an entry
          refs,     \* ... and by the DELETE jobs that called reference
          torn      \* history: entries that were reset while one of these was left

users == <<holds, refs, torn>>
clockVars == <<hand, bPool, sweep, victims, steady, users>>

Index == 0..(N - 1)

\* acc holds iff pins, which is pinCount - unpinCount, is positive.
Entry == [ref : BOOLEAN, pins : Nat, marked : BOOLEAN, seg : Segs, reserved : BOOLEAN]

ClockTypeOK ==
    /\ hand \in Index
    /\ bPool \in [Index -> Entry]
    /\ sweep \in [pc : {"idle", "sweep", "sleep"}, seg : Segs, i : 0..(N * MAX_LOOP),
                  retry : 0..MAX_RETRIES]
    /\ victims \subseteq Index
    /\ steady \subseteq Index
    /\ holds \in [Index -> Nat] /\ refs \in [Index -> Nat]
    /\ torn \subseteq Index

\* NewClock; the metadata page may have an entry reserved, which stays pinned
\* and marked.  Entries are then in any segment.
ClockInit ==
    /\ hand \in Index
    /\ \E r \in SUBSET Index, s \in [Index -> Segs] :
        /\ Cardinality(r) <= 1
        /\ bPool = [k \in Index |-> [ref |-> k \in r, pins |-> IF k \in r THEN 1 ELSE 0,
                                     marked |-> k \in r, seg |-> s[k], reserved |-> k \in r]]
    /\ \E s \in Segs : sweep = [pc |-> "idle", seg |-> s, i |-> 0, retry |-> 0]
    /\ victims = {}
    /\ steady = {}
    /\ holds = [k \in Index |-> 0] /\ refs = [k \in Index |-> 0]
    /\ torn = {}

-----------------------------------------------------------------------------
(* EvictWithoutClearing.                                                   *)

Skipped(e, seg) == e.reserved \/ e.pins > 0 \/ e.marked \/ e.seg # seg

EligibleNow(pool, seg) == {k \in Index : ~Skipped(pool[k], seg)}

\* clock.mu is taken.
beginSweep(seg) ==
    /\ sweep.pc = "idle"
    /\ sweep' = [pc |-> "sweep", seg |-> seg, i |-> 0, retry |-> 0]
    /\ steady' = EligibleNow(bPool, seg)
    /\ UNCHANGED <<hand, bPool, victims, users>>

Advanced == (hand + 1) % N

\* The entry is passed over.
skipEntry ==
    /\ sweep.pc = "sweep" /\ sweep.i < N * MAX_LOOP
    /\ Skipped(bPool[hand], sweep.seg)
    /\ hand' = Advanced
    /\ sweep' = [sweep EXCEPT !.i = @ + 1]
    /\ UNCHANGED <<bPool, victims, steady, users>>

\* It is given a second chance.
clearRef ==
    /\ sweep.pc = "sweep" /\ sweep.i < N * MAX_LOOP
    /\ ~Skipped(bPool[hand], sweep.seg) /\ bPool[hand].ref
    /\ bPool' = [bPool EXCEPT ![hand].ref = FALSE]
    /\ hand' = Advanced
    /\ sweep' = [sweep EXCEPT !.i = @ + 1]
    /\ UNCHANGED <<victims, steady, users>>

\* Mutation: the victim is pinned but not marked.
returnVictim_NoMark ==
    /\ sweep.pc = "sweep" /\ sweep.i < N * MAX_LOOP
    /\ ~Skipped(bPool[hand], sweep.seg) /\ ~bPool[hand].ref
    /\ bPool' = [bPool EXCEPT ![hand].ref = TRUE, ![hand].pins = @ + 1]
    /\ victims' = victims \cup {hand}
    /\ hand' = Advanced
    /\ sweep' = [sweep EXCEPT !.pc = "idle", !.i = 0, !.retry = 0]
    /\ steady' = {}
    /\ UNCHANGED users

\* It is pinned, marked and returned.
returnVictim ==
    /\ sweep.pc = "sweep" /\ sweep.i < N * MAX_LOOP
    /\ ~Skipped(bPool[hand], sweep.seg) /\ ~bPool[hand].ref
    /\ bPool' = [bPool EXCEPT ![hand].ref = TRUE, ![hand].pins = @ + 1, ![hand].marked = TRUE]
    /\ victims' = victims \cup {hand}
    /\ hand' = Advanced
    /\ sweep' = [sweep EXCEPT !.pc = "idle", !.i = 0, !.retry = 0]
    /\ steady' = {}
    /\ UNCHANGED users

\* Mutation: one loop only.
endSweep_OneLoop ==
    /\ sweep.pc = "sweep" /\ sweep.i = N
    /\ sweep' = [sweep EXCEPT !.pc = "sleep", !.retry = @ + 1]
    /\ UNCHANGED <<hand, bPool, victims, steady, users>>

\* Mutation: retries are not counted.
endSweep_NoCount ==
    /\ sweep.pc = "sweep" /\ sweep.i = N * MAX_LOOP
    /\ sweep' = [sweep EXCEPT !.pc = "sleep"]
    /\ UNCHANGED <<hand, bPool, victims, steady, users>>

\* All loops are done: clock.mu is released, and after a sleep the sweep is
\* repeated or given up.
endSweep ==
    /\ sweep.pc = "sweep" /\ sweep.i = N * MAX_LOOP
    /\ sweep' = [sweep EXCEPT !.pc = "sleep", !.retry = @ + 1]
    /\ UNCHANGED <<hand, bPool, victims, steady, users>>

retrySweep ==
    /\ sweep.pc = "sleep"
    /\ \/ /\ sweep.retry < MAX_RETRIES
          /\ sweep' = [sweep EXCEPT !.pc = "sweep", !.i = 0]
          /\ steady' = EligibleNow(bPool, sweep.seg)
       \/ /\ sweep.retry = MAX_RETRIES
          /\ sweep' = [sweep EXCEPT !.pc = "idle", !.i = 0, !.retry = 0]
          /\ steady' = {}
    /\ UNCHANGED <<hand, bPool, victims, users>>

-----------------------------------------------------------------------------
(* Other goroutines, each step under the mutex of one entry.               *)

\* refIfOccupied and refIfNotReferenced of an occupied entry.
refEntry(k) ==
    /\ ~bPool[k].marked /\ bPool[k].pins < MaxPins
    /\ bPool' = [bPool EXCEPT ![k].ref = TRUE, ![k].pins = @ + 1]
    /\ steady' = steady \ {k}
    /\ holds' = [holds EXCEPT ![k] = @ + 1]
    /\ UNCHANGED <<hand, sweep, victims, refs, torn>>

\* reference by a DELETE job that found the entry in CacheMap, whatever its state.
\* Bound: none comes to an entry that is torn already.
reference(k) ==
    /\ refs[k] < MaxRefs /\ k \notin torn
    /\ bPool' = [bPool EXCEPT ![k].ref = TRUE, ![k].pins = @ + 1]
    /\ steady' = steady \ {k}
    /\ refs' = [refs EXCEPT ![k] = @ + 1]
    /\ UNCHANGED <<hand, sweep, victims, holds, torn>>

\* unref by one of these.  If there is no pin left it panics, which ends the process.
unref(k) ==
    /\ bPool[k].pins > 0
    /\ bPool' = [bPool EXCEPT ![k].pins = @ - 1]
    /\ \/ holds[k] > 0 /\ holds' = [holds EXCEPT ![k] = @ - 1] /\ UNCHANGED refs
       \/ refs[k] > 0 /\ refs' = [refs EXCEPT ![k] = @ - 1] /\ UNCHANGED holds
    /\ UNCHANGED <<hand, sweep, victims, steady, torn>>

\* The owner of a victim moves it to a segment and unmarks it (updateSegmentCAS,
\* unMarkForEviction); its pin is left to unref.
unMarkForEviction(k) ==
    /\ k \in victims
    /\ \E s \in Segs : bPool' = [bPool EXCEPT ![k].seg = s, ![k].marked = FALSE]
    /\ victims' = victims \ {k}
    /\ holds' = [holds EXCEPT ![k] = @ + 1]
    /\ UNCHANGED <<hand, sweep, steady, refs, torn>>

\* It resets the victim and unmarks it (resetEntry, unMarkForEviction).  The counters
\* of its pins are set to 0, also if a DELETE job has yet to call unref.
resetEntry(k) ==
    /\ k \in victims
    /\ \E s \in Segs :
        bPool' = [bPool EXCEPT ![k] = [ref |-> FALSE, pins |-> 0, marked |-> FALSE, seg |-> s,
                                       reserved |-> bPool[k].reserved]]
    /\ victims' = victims \ {k}
    /\ torn' = IF holds[k] + refs[k] > 0 THEN torn \cup {k} ELSE torn
    /\ UNCHANGED <<hand, sweep, steady, holds, refs>>

\* The other victim was nil: this one is unpinned and stays marked.
abandonVictim(k) ==
    /\ k \in victims /\ bPool[k].pins > 0
    /\ bPool' = [bPool EXCEPT ![k].pins = @ - 1]
    /\ victims' = victims \ {k}
    /\ UNCHANGED <<hand, sweep, steady, users>>

\* updateSegmentCAS outside an eviction (Increment, promoteToProtected).
updateSegmentCAS(k) ==
    /\ k \notin victims
    /\ \E s \in Segs \ {bPool[k].seg} : bPool' = [bPool EXCEPT ![k].seg = s]
    /\ steady' = steady \ {k}
    /\ UNCHANGED <<hand, sweep, victims, users>>

Sweep == skipEntry \/ clearRef \/ returnVictim \/ endSweep \/ retrySweep

ClockNext ==
    \/ \E s \in Segs : beginSweep(s)
    \/ Sweep
    \/ \E k \in Index :
            \/ refEntry(k) \/ reference(k) \/ unref(k) \/ updateSegmentCAS(k)
            \/ unMarkForEviction(k) \/ resetEntry(k) \/ abandonVictim(k)

ClockSpec == ClockInit /\ [][ClockNext]_clockVars

\* The sweep runs on; what the other goroutines do is up to them.
FairSpec == ClockSpec /\ WF_clockVars(Sweep)

-----------------------------------------------------------------------------
(* Properties.                                                             *)

\* clock.go:72: a returned victim stays marked, so that no other sweep returns it, and
\* pinned until its owner unmarks, resets or abandons it.  Nobody else holds it but DELETE
\* jobs, whose reference() ignores the mark.  Only after such a job kept an entry over a
\* reset are the pins of the entry no longer those of its users.
VictimIsExclusive ==
    \A k \in victims :
        /\ bPool[k].marked
        /\ k \notin torn => holds[k] = 0 /\ bPool[k].pins = 1 + refs[k]

\* Second chance is enough: a sweep that comes back empty-handed has passed no
\* entry that was eligible all the time, although pins elsewhere came and went.
NoEligibleMissed == sweep.pc = "sleep" => steady = {}

\* EvictWithoutClearing returns, with a victim or with nil.
SweepEnds == sweep.pc # "idle" ~> sweep.pc = "idle"
=============================================================================
