--------------------------- MODULE Eviction_proofs ---------------------------
(***************************************************************************)
(* Theorems about what the buffer manager evicts: the clock (module Clock),*)
(* for any number of entries, segments, loops (at least two) and retries,  *)
(* and the admission filter (module TinyLfu), for any tables, hash         *)
(* functions, keys and goroutines.                                         *)
(***************************************************************************)
EXTENDS Clock, TinyLfu, TLAPS

-----------------------------------------------------------------------------
(* The clock.                                                              *)

\* The hand moves to the next entry, from the last to the first.
LEMMA HandMoves ==
    ASSUME hand \in Index
    PROVE  /\ hand < N - 1 => Advanced = hand + 1
           /\ hand = N - 1 => Advanced = 0
<1>1. N \in Nat \ {0}
    BY ClockAssumption
<1>2. ASSUME hand < N - 1 PROVE Advanced = hand + 1
    BY <1>1, <1>2 DEF Index, Advanced
<1>3. ASSUME hand = N - 1 PROVE Advanced = 0
    <2>1. Advanced = N % N
        BY <1>1, <1>3 DEF Advanced
    <2>2. \A n \in Nat \ {0} : n % n = 0
        OBVIOUS
    <2> QED
        BY <1>1, <2>1, <2>2
<1> QED
    BY <1>2, <1>3

\* Every sweep has at least two loops.
LEMMA TwoLoops == N \in Nat \ {0} /\ N * MAX_LOOP \in Nat /\ 2 * N <= N * MAX_LOOP
<1>1. \A n, m \in Nat : m >= 2 => n * m \in Nat /\ 2 * n <= n * m
    <2> TAKE n, m \in Nat
    <2> HAVE m >= 2
    <2>1. n * m = n * (m - 2) + 2 * n /\ n * (m - 2) \in Nat
        OBVIOUS
    <2> QED
        BY <2>1
<1> QED
    BY <1>1, ClockAssumption

-----------------------------------------------------------------------------
\* The number of entries the hand has to pass until it points to k.
Dist(k) == IF hand <= k THEN k - hand ELSE k - hand + N

\* Where the sweep stands with the entries that were eligible all the time.
\* sweep.i + Dist(k) stays the same until the hand passes k, and grows by N
\* when it does; so k has been passed when the sum has reached N, and then its
\* ref is cleared.
SteadyInv ==
    \A k \in steady :
        /\ ~Skipped(bPool[k], sweep.seg)
        /\ sweep.pc = "sweep" => /\ sweep.i + Dist(k) < 2 * N
                                 /\ sweep.i + Dist(k) >= N => ~bPool[k].ref

\* A sweep that runs may still be repeated.
RetriesLeft == sweep.pc = "sweep" => sweep.retry < MAX_RETRIES

\* The pins of an entry that was never reset under a user are those of its users, of the
\* owner of a victim and of the metadata page.
PinsInv ==
    \A k \in Index : k \notin torn =>
        bPool[k].pins = holds[k] + refs[k] + (IF k \in victims \/ bPool[k].reserved THEN 1 ELSE 0)

\* The entry of the metadata page is no victim.
VictimInv == \A k \in victims : ~bPool[k].reserved

IInv == ClockTypeOK /\ VictimIsExclusive /\ VictimInv /\ PinsInv /\ SteadyInv /\ NoEligibleMissed /\ RetriesLeft

\* The invariant holds of an idle clock without victims.
LEMMA InitIInv == ClockInit => IInv
<1> SUFFICES ASSUME ClockInit PROVE IInv
    OBVIOUS
<1>1. ClockTypeOK
    <2>1. 0 \in 0..(N * MAX_LOOP) /\ 0 \in 0..MAX_RETRIES
        BY TwoLoops, ClockAssumption
    <2>2. bPool \in [Index -> Entry]
        BY DEF ClockInit, Entry
    <2> QED
        BY <2>1, <2>2 DEF ClockInit, ClockTypeOK
<1>2. VictimIsExclusive /\ VictimInv /\ SteadyInv /\ NoEligibleMissed /\ RetriesLeft
    BY DEF ClockInit, VictimIsExclusive, VictimInv, SteadyInv, NoEligibleMissed, RetriesLeft
<1>3. PinsInv
    <2>1. PICK r \in SUBSET Index, s \in [Index -> Segs] :
            bPool = [k \in Index |-> [ref |-> k \in r, pins |-> IF k \in r THEN 1 ELSE 0,
                                      marked |-> k \in r, seg |-> s[k], reserved |-> k \in r]]
        BY ZenonT(60) DEF ClockInit
    <2>2. ASSUME NEW k \in Index
          PROVE  bPool[k].pins = holds[k] + refs[k]
                                    + (IF k \in victims \/ bPool[k].reserved THEN 1 ELSE 0)
        <3>1. holds[k] = 0 /\ refs[k] = 0 /\ k \notin victims
            BY DEF ClockInit
        <3>2. CASE k \in r
            <4>1. bPool[k].pins = 1 /\ bPool[k].reserved
                BY <2>1, <3>2
            <4> QED
                BY <3>1, <4>1
        <3>3. CASE k \notin r
            <4>1. bPool[k].pins = 0 /\ ~bPool[k].reserved
                BY <2>1, <3>3
            <4> QED
                BY <3>1, <4>1
        <3> QED
            BY <3>2, <3>3
    <2> QED
        BY <2>2 DEF PinsInv
<1> QED
    BY <1>1, <1>2, <1>3 DEF IInv
-----------------------------------------------------------------------------
\* One step of the hand: the sum of SteadyInv stays the same for an entry it
\* does not point to, and grows by N for the one it passes.
LEMMA HandPasses ==
    ASSUME hand \in Index, hand' = Advanced, NEW k \in Index
    PROVE  /\ hand' \in Index /\ Dist(k) \in 0..(N - 1)
           /\ k # hand => Dist(k)' + 1 = Dist(k)
           /\ k = hand => Dist(k) = 0 /\ Dist(k)' = N - 1
BY HandMoves, ClockAssumption DEF Index, Dist

\* The two steps of the sweep that pass an entry without returning it.
LEMMA PassEntry ==
    ASSUME IInv, skipEntry \/ clearRef
    PROVE  IInv'
<1> USE ClockAssumption, TwoLoops
<1>0. /\ hand \in Index /\ hand' = Advanced /\ sweep.pc = "sweep"
      /\ sweep.i \in Nat /\ sweep.i < N * MAX_LOOP
      /\ sweep' = [sweep EXCEPT !.i = @ + 1]
      /\ victims' = victims /\ steady' = steady /\ UNCHANGED <<holds, refs, torn>>
      /\ steady \subseteq Index /\ bPool \in [Index -> Entry]
    BY DEF IInv, ClockTypeOK, skipEntry, clearRef, users
<1>1. /\ sweep'.pc = "sweep" /\ sweep'.seg = sweep.seg /\ sweep'.i = sweep.i + 1
      /\ sweep' \in [pc : {"idle", "sweep", "sleep"}, seg : Segs, i : 0..(N * MAX_LOOP),
                     retry : 0..MAX_RETRIES]
    BY <1>0 DEF IInv, ClockTypeOK
<1>2. /\ bPool' \in [Index -> Entry]
      /\ \A k \in Index : /\ bPool'[k].pins = bPool[k].pins /\ bPool'[k].marked = bPool[k].marked
                          /\ bPool'[k].seg = bPool[k].seg
                          /\ bPool'[k].reserved = bPool[k].reserved
                          /\ ~bPool[k].ref => ~bPool'[k].ref
    <2>1. CASE skipEntry
        BY <1>0, <2>1 DEF skipEntry
    <2>2. CASE clearRef
        <3>1. bPool' = [bPool EXCEPT ![hand].ref = FALSE]
            BY <2>2 DEF clearRef
        <3> QED
            BY <1>0, <3>1, ZenonT(60) DEF Entry
    <2> QED
        BY <2>1, <2>2
<1>3. ClockTypeOK'
    BY <1>0, <1>1, <1>2, HandPasses DEF IInv, ClockTypeOK
<1>4. VictimIsExclusive' /\ VictimInv' /\ PinsInv'
    BY <1>0, <1>2 DEF IInv, ClockTypeOK, VictimIsExclusive, VictimInv, PinsInv
<1>5. SteadyInv'
    <2> SUFFICES ASSUME NEW k \in steady
                 PROVE  /\ ~Skipped(bPool'[k], sweep'.seg)
                        /\ sweep'.i + Dist(k)' < 2 * N
                        /\ sweep'.i + Dist(k)' >= N => ~bPool'[k].ref
        BY <1>0, <1>1 DEF SteadyInv, Dist
    <2>1. k \in Index
        BY <1>0
    <2>2. /\ ~Skipped(bPool[k], sweep.seg) /\ sweep.i + Dist(k) < 2 * N
          /\ sweep.i + Dist(k) >= N => ~bPool[k].ref
        BY <1>0 DEF IInv, SteadyInv
    <2>3. ~Skipped(bPool'[k], sweep'.seg)
        BY <1>1, <1>2, <2>1, <2>2 DEF Skipped
    <2>4. /\ Dist(k) \in 0..(N - 1)
          /\ k # hand => Dist(k)' + 1 = Dist(k)
          /\ k = hand => Dist(k) = 0 /\ Dist(k)' = N - 1
        BY <1>0, <2>1, HandPasses
    <2>5. CASE k # hand
        <3>1. Dist(k)' \in Int
            BY <1>0, <1>3, <2>1, SMTT(60) DEF Dist, Index, ClockTypeOK
        <3>2. sweep'.i + Dist(k)' = sweep.i + Dist(k)
            BY <1>0, <1>1, <2>4, <2>5, <3>1
        <3> QED
            BY <1>2, <2>1, <2>2, <2>3, <3>2
    <2>6. CASE k = hand
        <3>1. clearRef
            BY <2>2, <2>6 DEF skipEntry
        <3>2. bPool[k].ref /\ ~bPool'[k].ref
            BY <1>0, <2>1, <2>6, <3>1 DEF clearRef, Entry
        <3>3. sweep.i < N
            BY <1>0, <2>2, <2>4, <2>6, <3>2
        <3> QED
            BY <1>0, <1>1, <2>3, <2>4, <2>6, <3>2, <3>3
    <2> QED
        BY <2>5, <2>6
<1>6. NoEligibleMissed' /\ RetriesLeft'
    BY <1>0, <1>1 DEF NoEligibleMissed, RetriesLeft, IInv, ClockTypeOK
<1> QED
    BY <1>3, <1>4, <1>5, <1>6 DEF IInv

\* The other steps of EvictWithoutClearing.
LEMMA SweepStep ==
    ASSUME IInv, (\E s \in Segs : beginSweep(s)) \/ returnVictim \/ endSweep \/ retrySweep
    PROVE  IInv'
<1> USE ClockAssumption, TwoLoops
<1> DEFINE Sweeps == [pc : {"idle", "sweep", "sleep"}, seg : Segs, i : 0..(N * MAX_LOOP),
                      retry : 0..MAX_RETRIES]
<1>0. /\ hand \in Index /\ bPool \in [Index -> Entry] /\ steady \subseteq Index
      /\ sweep \in Sweeps
      /\ sweep.i \in 0..(N * MAX_LOOP) /\ sweep.retry \in 0..MAX_RETRIES /\ sweep.seg \in Segs
      /\ 0 \in 0..(N * MAX_LOOP) /\ 0 \in 0..MAX_RETRIES
    BY DEF IInv, ClockTypeOK
<1>1. \A k \in Index : hand \in 0..(N - 1) /\ Dist(k) \in 0..(N - 1)
    BY <1>0 DEF Index, Dist
<1>2. ASSUME NEW s \in Segs, beginSweep(s) PROVE IInv'
    <2>1. ClockTypeOK'
        BY <1>2 DEF beginSweep, IInv, ClockTypeOK, EligibleNow, users
    <2>2. VictimIsExclusive' /\ VictimInv' /\ PinsInv' /\ NoEligibleMissed' /\ RetriesLeft'
        BY <1>2 DEF beginSweep, IInv, VictimIsExclusive, VictimInv, PinsInv, NoEligibleMissed, RetriesLeft, users
    <2>3. SteadyInv'
        BY <1>0, <1>1, <1>2 DEF beginSweep, SteadyInv, EligibleNow, Dist
    <2> QED
        BY <2>1, <2>2, <2>3 DEF IInv
<1>3. CASE returnVictim
    <2>1. /\ bPool[hand].pins = 0 /\ bPool[hand].pins \in Nat
          /\ ~bPool[hand].reserved /\ ~bPool[hand].marked
        BY <1>0, <1>3 DEF returnVictim, Skipped, Entry
    <2>2. /\ bPool' \in [Index -> Entry] /\ bPool'[hand].marked /\ bPool'[hand].pins = 1
          /\ \A k \in Index \ {hand} : bPool'[k] = bPool[k]
          /\ victims' = victims \cup {hand} /\ UNCHANGED <<holds, refs, torn>>
        BY <1>0, <1>3, <2>1 DEF returnVictim, Entry, users
    <2>6. hand \notin torn => holds[hand] = 0 /\ refs[hand] = 0
        <3>1. holds[hand] \in Nat /\ refs[hand] \in Nat
            BY <1>0 DEF IInv, ClockTypeOK
        <3>2. hand \notin torn => \E b \in {0, 1} : 0 = holds[hand] + refs[hand] + b
            BY <1>0, <2>1 DEF IInv, PinsInv
        <3> QED
            BY <3>1, <3>2
    <2>3. ClockTypeOK'
        <3>1. sweep' \in Sweeps
            BY <1>0, <1>3, ZenonT(60) DEF returnVictim
        <3>2. hand' \in Index
            BY <1>0, <1>3, HandPasses DEF returnVictim
        <3> QED
            BY <1>0, <1>3, <2>2, <3>1, <3>2 DEF returnVictim, IInv, ClockTypeOK
    <2>4. VictimIsExclusive' /\ VictimInv' /\ PinsInv'
        <3>1. VictimIsExclusive'
            BY <1>0, <2>2, <2>6 DEF IInv, ClockTypeOK, VictimIsExclusive
        <3>2. ASSUME NEW k \in Index, k \notin torn
              PROVE  bPool'[k].pins = holds[k] + refs[k]
                                        + (IF k \in victims' \/ bPool'[k].reserved THEN 1 ELSE 0)
            BY <2>2, <2>6, <3>2 DEF IInv, PinsInv
        <3>3. VictimInv'
            <4>1. ~bPool'[hand].reserved
                BY <1>0, <1>3, <2>1 DEF returnVictim, Entry
            <4> QED
                BY <1>0, <2>2, <4>1 DEF IInv, ClockTypeOK, VictimInv
        <3> QED
            BY <2>2, <3>1, <3>2, <3>3 DEF PinsInv
    <2>5. SteadyInv' /\ NoEligibleMissed' /\ RetriesLeft'
        BY <1>3 DEF returnVictim, SteadyInv, NoEligibleMissed, RetriesLeft, IInv, ClockTypeOK
    <2> QED
        BY <2>3, <2>4, <2>5 DEF IInv
<1>4. CASE endSweep
    <2>1. steady = {}
        <3> SUFFICES ASSUME NEW k \in steady PROVE FALSE
            OBVIOUS
        <3>1. sweep.i + Dist(k) < 2 * N /\ Dist(k) \in 0..(N - 1)
            BY <1>0, <1>1, <1>4 DEF endSweep, IInv, SteadyInv
        <3> QED
            BY <1>0, <1>4, <3>1 DEF endSweep
    <2>2. sweep.retry + 1 \in 0..MAX_RETRIES
        BY <1>0, <1>4 DEF endSweep, IInv, RetriesLeft
    <2>3. sweep' \in Sweeps /\ sweep'.pc = "sleep"
        BY <1>0, <1>4, <2>2, ZenonT(60) DEF endSweep
    <2>4. ClockTypeOK'
        BY <1>4, <2>3 DEF endSweep, IInv, ClockTypeOK, users
    <2>5. VictimIsExclusive' /\ VictimInv' /\ PinsInv'
        BY <1>4 DEF endSweep, IInv, VictimIsExclusive, VictimInv, PinsInv, users
    <2>6. NoEligibleMissed' /\ SteadyInv' /\ RetriesLeft'
        BY <1>4, <2>1, <2>3 DEF endSweep, NoEligibleMissed, SteadyInv, RetriesLeft
    <2> QED
        BY <2>4, <2>5, <2>6 DEF IInv
<1>5. CASE retrySweep
    <2>1. UNCHANGED <<hand, bPool, victims, holds, refs, torn>>
        BY <1>5 DEF retrySweep, users
    <2>2. VictimIsExclusive' /\ VictimInv' /\ PinsInv'
        BY <2>1 DEF IInv, VictimIsExclusive, VictimInv, PinsInv
    <2>3. ASSUME sweep.retry < MAX_RETRIES, sweep' = [sweep EXCEPT !.pc = "sweep", !.i = 0],
                 steady' = EligibleNow(bPool, sweep.seg)
          PROVE  IInv'
        <3>1. /\ sweep' \in Sweeps /\ sweep'.pc = "sweep" /\ sweep'.i = 0
              /\ sweep'.seg = sweep.seg /\ sweep'.retry = sweep.retry
            BY <1>0, <2>3, ZenonT(60)
        <3>2. ClockTypeOK'
            BY <2>1, <2>3, <3>1 DEF IInv, ClockTypeOK, EligibleNow
        <3>3. NoEligibleMissed' /\ RetriesLeft'
            BY <2>3, <3>1 DEF NoEligibleMissed, RetriesLeft
        <3>4. SteadyInv'
            BY <1>0, <1>1, <2>1, <2>3, <3>1 DEF SteadyInv, EligibleNow, Dist
        <3> QED
            BY <2>2, <3>2, <3>3, <3>4 DEF IInv
    <2>4. ASSUME sweep' = [sweep EXCEPT !.pc = "idle", !.i = 0, !.retry = 0], steady' = {}
          PROVE  IInv'
        <3>1. sweep' \in Sweeps /\ sweep'.pc = "idle"
            BY <1>0, <2>4, ZenonT(60)
        <3>2. ClockTypeOK'
            BY <2>1, <2>4, <3>1 DEF IInv, ClockTypeOK
        <3>3. NoEligibleMissed' /\ RetriesLeft' /\ SteadyInv'
            BY <2>4, <3>1 DEF NoEligibleMissed, RetriesLeft, SteadyInv
        <3> QED
            BY <2>2, <3>2, <3>3 DEF IInv
    <2> QED
        BY <1>5, <2>3, <2>4 DEF retrySweep
<1> QED
    BY <1>2, <1>3, <1>4, <1>5

\* The steps of the other goroutines.
LEMMA OtherStep ==
    ASSUME IInv, NEW k \in Index,
           \/ refEntry(k) \/ reference(k) \/ unref(k) \/ updateSegmentCAS(k)
           \/ unMarkForEviction(k) \/ resetEntry(k) \/ abandonVictim(k)
    PROVE  IInv'
<1>0. /\ bPool \in [Index -> Entry] /\ victims \subseteq Index /\ steady \subseteq Index
      /\ holds \in [Index -> Nat] /\ refs \in [Index -> Nat] /\ torn \subseteq Index
      /\ bPool[k].pins \in Nat /\ holds[k] \in Nat /\ refs[k] \in Nat
    BY DEF IInv, ClockTypeOK, Entry
<1>1. UNCHANGED <<hand, sweep>>
    BY DEF refEntry, reference, unref, updateSegmentCAS, unMarkForEviction, resetEntry, abandonVictim
<1>2. \A j \in Index \ {k} : bPool'[j] = bPool[j] /\ holds'[j] = holds[j] /\ refs'[j] = refs[j]
    <2>1. CASE refEntry(k)
        BY <1>0, <2>1, ZenonT(60) DEF refEntry
    <2>2. CASE reference(k)
        BY <1>0, <2>2, ZenonT(60) DEF reference
    <2>3. CASE unref(k)
        BY <1>0, <2>3, ZenonT(60) DEF unref
    <2>4. CASE updateSegmentCAS(k)
        BY <1>0, <2>4, ZenonT(60) DEF updateSegmentCAS, users
    <2>5. CASE unMarkForEviction(k)
        BY <1>0, <2>5, ZenonT(60) DEF unMarkForEviction
    <2>6. CASE resetEntry(k)
        BY <1>0, <2>6, ZenonT(60) DEF resetEntry
    <2>7. CASE abandonVictim(k)
        BY <1>0, <2>7, ZenonT(60) DEF abandonVictim, users
    <2> QED
        BY <2>1, <2>2, <2>3, <2>4, <2>5, <2>6, <2>7
\* What happens to k takes it out of steady, or it was not there.
<1>3. steady' = steady \ {k}
    <2>1. k \in steady => ~(bPool[k].pins > 0) /\ ~bPool[k].marked
        BY DEF IInv, SteadyInv, Skipped
    <2>2. k \in victims => bPool[k].marked
        BY DEF IInv, VictimIsExclusive
    <2>3. unref(k) => bPool[k].pins > 0
        BY DEF unref
    <2> QED
        BY <2>1, <2>2, <2>3 DEF refEntry, reference, unref, updateSegmentCAS, unMarkForEviction,
                                resetEntry, abandonVictim
<1>4. /\ victims' \subseteq victims /\ \A j \in Index \ {k} : j \in victims' <=> j \in victims
      /\ torn \subseteq torn' /\ torn' \subseteq torn \cup {k}
    BY DEF refEntry, reference, unref, updateSegmentCAS, unMarkForEviction, resetEntry, abandonVictim, users
\* What becomes of k.
<1>5. /\ bPool' \in [Index -> Entry] /\ holds' \in [Index -> Nat] /\ refs' \in [Index -> Nat]
      /\ bPool'[k].reserved = bPool[k].reserved
      /\ k \in victims' => /\ bPool'[k].marked
                           /\ k \notin torn' => holds'[k] = 0 /\ bPool'[k].pins = 1 + refs'[k]
      /\ k \notin torn' =>
            bPool'[k].pins = holds'[k] + refs'[k]
                                + (IF k \in victims' \/ bPool'[k].reserved THEN 1 ELSE 0)
    <2>0. /\ k \in victims => /\ bPool[k].marked
                              /\ k \notin torn => holds[k] = 0 /\ bPool[k].pins = 1 + refs[k]
          /\ k \notin torn =>
                bPool[k].pins = holds[k] + refs[k]
                                    + (IF k \in victims \/ bPool[k].reserved THEN 1 ELSE 0)
        BY DEF IInv, VictimIsExclusive, PinsInv
    <2>1. CASE refEntry(k)
        <3>1. /\ bPool' \in [Index -> Entry] /\ holds' \in [Index -> Nat] /\ refs' = refs
              /\ bPool'[k].pins = bPool[k].pins + 1 /\ bPool'[k].reserved = bPool[k].reserved
              /\ holds'[k] = holds[k] + 1 /\ victims' = victims /\ torn' = torn /\ ~bPool[k].marked
            BY <1>0, <2>1 DEF refEntry, Entry
        <3> QED
            BY <1>0, <2>0, <3>1
    <2>2. CASE reference(k)
        <3>1. /\ bPool' \in [Index -> Entry] /\ refs' \in [Index -> Nat] /\ holds' = holds
              /\ bPool'[k].pins = bPool[k].pins + 1 /\ bPool'[k].reserved = bPool[k].reserved
              /\ bPool'[k].marked = bPool[k].marked
              /\ refs'[k] = refs[k] + 1 /\ victims' = victims /\ torn' = torn
            BY <1>0, <2>2 DEF reference, Entry
        <3> QED
            BY <1>0, <2>0, <3>1
    <2>3. CASE unref(k)
        <3>1. /\ bPool' \in [Index -> Entry] /\ bPool[k].pins > 0
              /\ bPool'[k].pins = bPool[k].pins - 1 /\ bPool'[k].reserved = bPool[k].reserved
              /\ bPool'[k].marked = bPool[k].marked /\ victims' = victims /\ torn' = torn
            BY <1>0, <2>3 DEF unref, Entry
        <3>2. ASSUME holds[k] > 0, holds' = [holds EXCEPT ![k] = @ - 1], refs' = refs
              PROVE  holds' \in [Index -> Nat] /\ holds'[k] = holds[k] - 1
            BY <1>0, <3>2
        <3>3. ASSUME refs[k] > 0, refs' = [refs EXCEPT ![k] = @ - 1], holds' = holds
              PROVE  refs' \in [Index -> Nat] /\ refs'[k] = refs[k] - 1
            BY <1>0, <3>3
        <3>4. CASE holds[k] > 0 /\ holds' = [holds EXCEPT ![k] = @ - 1] /\ refs' = refs
            BY <1>0, <2>0, <3>1, <3>2, <3>4
        <3>5. CASE refs[k] > 0 /\ refs' = [refs EXCEPT ![k] = @ - 1] /\ holds' = holds
            BY <1>0, <2>0, <3>1, <3>3, <3>5
        <3> QED
            BY <2>3, <3>4, <3>5 DEF unref
    <2>4. CASE updateSegmentCAS(k)
        <3>1. PICK s \in Segs : bPool' = [bPool EXCEPT ![k].seg = s]
            BY <2>4, ZenonT(60) DEF updateSegmentCAS
        <3>2. /\ bPool' \in [Index -> Entry] /\ bPool'[k].pins = bPool[k].pins
              /\ bPool'[k].reserved = bPool[k].reserved /\ bPool'[k].marked = bPool[k].marked
            BY <1>0, <3>1, ZenonT(60) DEF Entry
        <3> QED
            BY <1>0, <2>0, <2>4, <3>2 DEF updateSegmentCAS, users
    <2>5. CASE unMarkForEviction(k)
        <3>1. PICK s \in Segs : bPool' = [bPool EXCEPT ![k].seg = s, ![k].marked = FALSE]
            BY <2>5, ZenonT(60) DEF unMarkForEviction
        <3>2. /\ bPool' \in [Index -> Entry] /\ bPool'[k].pins = bPool[k].pins
              /\ bPool'[k].reserved = bPool[k].reserved
            BY <1>0, <3>1, ZenonT(60) DEF Entry
        <3>3. /\ k \in victims /\ victims' = victims \ {k} /\ torn' = torn /\ refs' = refs
              /\ holds' = [holds EXCEPT ![k] = @ + 1]
            BY <2>5, ZenonT(60) DEF unMarkForEviction
        <3>5. holds' \in [Index -> Nat] /\ holds'[k] = holds[k] + 1
            BY <1>0, <3>3
        <3>4. k \notin torn => ~bPool[k].reserved
            BY <3>3 DEF IInv, VictimInv
        <3> QED
            BY <1>0, <2>0, <3>2, <3>3, <3>4, <3>5
    <2>6. CASE resetEntry(k)
        <3>1. PICK s \in Segs : bPool' = [bPool EXCEPT ![k] = [ref |-> FALSE, pins |-> 0,
                                    marked |-> FALSE, seg |-> s, reserved |-> bPool[k].reserved]]
            BY <2>6, ZenonT(60) DEF resetEntry
        <3>2. /\ bPool' \in [Index -> Entry] /\ bPool'[k].pins = 0
              /\ bPool'[k].reserved = bPool[k].reserved
            BY <1>0, <3>1 DEF Entry
        <3>3. /\ k \in victims /\ victims' = victims \ {k} /\ refs' = refs /\ holds' = holds
              /\ k \notin torn' => holds[k] = 0 /\ refs[k] = 0
            BY <1>0, <2>6 DEF resetEntry
        <3>4. ~bPool[k].reserved
            BY <3>3 DEF IInv, VictimInv
        <3> QED
            BY <1>0, <3>2, <3>3, <3>4
    <2>7. CASE abandonVictim(k)
        <3>1. /\ bPool' \in [Index -> Entry] /\ bPool[k].pins > 0
              /\ bPool'[k].pins = bPool[k].pins - 1 /\ bPool'[k].reserved = bPool[k].reserved
              /\ k \in victims /\ victims' = victims \ {k}
              /\ refs' = refs /\ holds' = holds /\ torn' = torn
            BY <1>0, <2>7 DEF abandonVictim, Entry, users
        <3>2. ~bPool[k].reserved
            BY <3>1 DEF IInv, VictimInv
        <3> QED
            BY <1>0, <2>0, <3>1, <3>2
    <2> QED
        BY <2>1, <2>2, <2>3, <2>4, <2>5, <2>6, <2>7
<1>6. VictimInv'
    BY <1>0, <1>2, <1>4, <1>5 DEF IInv, VictimInv
<1>7. ClockTypeOK'
    BY <1>0, <1>1, <1>3, <1>4, <1>5 DEF IInv, ClockTypeOK
<1>8. VictimIsExclusive' /\ PinsInv'
    <2>1. ASSUME NEW j \in victims'
          PROVE  /\ bPool'[j].marked
                 /\ j \notin torn' => holds'[j] = 0 /\ bPool'[j].pins = 1 + refs'[j]
        <3>1. CASE j = k
            <4>1. k \in victims'
                BY <3>1
            <4>2. /\ bPool'[k].marked
                  /\ k \notin torn' => holds'[k] = 0 /\ bPool'[k].pins = 1 + refs'[k]
                BY <1>5, <4>1
            <4> QED
                BY <3>1, <4>2, ZenonT(60)
        <3>2. CASE j # k
            BY <1>0, <1>2, <1>4, <3>2 DEF IInv, VictimIsExclusive
        <3> QED
            BY <3>1, <3>2
    <2>2. ASSUME NEW j \in Index, j \notin torn'
          PROVE  bPool'[j].pins = holds'[j] + refs'[j]
                                    + (IF j \in victims' \/ bPool'[j].reserved THEN 1 ELSE 0)
        <3>1. CASE j = k
            BY <1>5, <2>2, <3>1
        <3>2. CASE j # k
            BY <1>2, <1>4, <2>2, <3>2 DEF IInv, PinsInv
        <3> QED
            BY <3>1, <3>2
    <2> QED
        BY <2>1, <2>2 DEF VictimIsExclusive, PinsInv
<1>9. SteadyInv'
    BY <1>0, <1>1, <1>2, <1>3 DEF IInv, SteadyInv, Dist
<1>10. NoEligibleMissed' /\ RetriesLeft'
    BY <1>1, <1>3 DEF IInv, NoEligibleMissed, RetriesLeft
<1> QED
    BY <1>6, <1>7, <1>8, <1>9, <1>10 DEF IInv

\* Every step of the sweep and of the frames' users keeps the invariant.
LEMMA NextIInv == IInv /\ [ClockNext]_clockVars => IInv'
<1> SUFFICES ASSUME IInv, [ClockNext]_clockVars PROVE IInv'
    OBVIOUS
<1>1. CASE \E s \in Segs : beginSweep(s)
    BY <1>1, SweepStep
<1>2. CASE Sweep
    BY <1>2, PassEntry, SweepStep DEF Sweep
<1>3. ASSUME NEW k \in Index,
             \/ refEntry(k) \/ reference(k) \/ unref(k) \/ updateSegmentCAS(k)
             \/ unMarkForEviction(k) \/ resetEntry(k) \/ abandonVictim(k)
      PROVE  IInv'
    BY <1>3, OtherStep
<1>4. CASE UNCHANGED clockVars
    BY <1>4 DEF clockVars, users, IInv, ClockTypeOK, VictimIsExclusive, VictimInv, PinsInv, SteadyInv,
                NoEligibleMissed, RetriesLeft, Dist
<1> QED
    BY <1>1, <1>2, <1>3, <1>4 DEF ClockNext

\* So the invariant always holds.
LEMMA Inductive == ClockSpec => []IInv
BY InitIInv, NextIInv, PTL DEF ClockSpec

\* A victim of EvictWithoutClearing stays marked for the caller that got it, and is held
\* by nobody else but DELETE jobs until one of them kept the entry over a reset, however
\* many entries there are and whatever the other goroutines do.
THEOREM VictimsAreExclusive == ClockSpec => []VictimIsExclusive
<1>1. IInv => VictimIsExclusive
    BY DEF IInv
<1> QED
    BY Inductive, <1>1, PTL

\* Two loops are enough: when EvictWithoutClearing gives up a round, no entry
\* was eligible from its start to its end.
THEOREM NoneMissed == ClockSpec => []NoEligibleMissed
<1>1. IInv => NoEligibleMissed
    BY DEF IInv
<1> QED
    BY Inductive, <1>1, PTL
-----------------------------------------------------------------------------
(* The admission filter.                                                   *)

INSTANCE FiniteSetTheorems

Goroutines == Cardinality(Procs)

\* A goroutine that has begun Check has a bit left to read.
IndexInv == \A p \in Procs : proc[p].pc = "check" => proc[p].i < Len(Bit[proc[p].key])

\* Every counter of a key, not only the smallest one, is large enough.
SketchInv == \A k \in Keys, r \in Rows : count[k] <= arr[r][Cell[k][r]]

\* The goroutines that will let an access to k pass.
Passing(k) ==
    {p \in Procs : /\ proc[p].key = k
                   /\ proc[p].pc = "add" \/ (proc[p].pc = "check" /\ ~proc[p].exists)}

\* Once an access has passed, the bits are set, and only those who pass already will.
DoorInv ==
    \A k \in Keys : \/ passed[k] = 0
                    \/ /\ \A i \in 1..Len(Bit[k]) : Bit[k][i] \in bitArray
                       /\ passed[k] + Cardinality(Passing(k)) <= Goroutines

\* The goroutines that have found the sample full and have not reset it yet.
Full == {p \in Procs : proc[p].pc = "sample" /\ proc[p].opCount >= SAMPLE_SIZE}

SampleInv ==
    /\ op_counter < SAMPLE_SIZE + Cardinality(Full)
    /\ resets + Cardinality(Full) <= Goroutines
    /\ op_counter >= SAMPLE_SIZE => resets = 0

\* The facts about finite sets of goroutines that the proofs use.
LEMMA ProcSets ==
    /\ Goroutines \in Nat
    /\ \A S \in SUBSET Procs : Cardinality(S) \in Nat /\ Cardinality(S) <= Goroutines
    /\ \A S, T \in SUBSET Procs : S \subseteq T => Cardinality(S) <= Cardinality(T)
    /\ \A S \in SUBSET Procs, p \in Procs :
            /\ p \in S => Cardinality(S \ {p}) = Cardinality(S) - 1
            /\ p \notin S => Cardinality(S \cup {p}) = Cardinality(S) + 1
<1>1. IsFiniteSet(Procs) /\ Goroutines \in Nat
    BY TinyLfuAssumption, FS_CardinalityType DEF Goroutines
<1>2. \A S \in SUBSET Procs : IsFiniteSet(S) /\ Cardinality(S) \in Nat /\ Cardinality(S) <= Goroutines
    BY <1>1, FS_Subset, FS_CardinalityType DEF Goroutines
<1>3. ASSUME NEW S \in SUBSET Procs, NEW p \in Procs
      PROVE  /\ p \in S => Cardinality(S \ {p}) = Cardinality(S) - 1
             /\ p \notin S => Cardinality(S \cup {p}) = Cardinality(S) + 1
    BY <1>2, FS_AddElement, FS_RemoveElement
<1>4. \A S, T \in SUBSET Procs : S \subseteq T => Cardinality(S) <= Cardinality(T)
    BY <1>2, FS_Subset
<1> QED
    BY <1>1, <1>2, <1>3, <1>4

\* What the constants are.
LEMMA Constants ==
    /\ SAMPLE_SIZE \in Nat \ {0}
    /\ \A k \in Keys : Len(Bit[k]) \in Nat \ {0}
    /\ \A k \in Keys : \A i \in 1..Len(Bit[k]) : Bit[k][i] \in Bits
    /\ \A k \in Keys, r \in Rows : Cell[k][r] \in Columns
BY TinyLfuAssumption

-----------------------------------------------------------------------------

\* Type correctness is inductive.
LEMMA TypeStep == TypeOK /\ [Next]_vars => TypeOK'
<1> SUFFICES ASSUME TypeOK, [Next]_vars PROVE TypeOK'
    OBVIOUS
<1>1. ASSUME NEW p \in Procs, NEW k \in Keys, IncrementItem(p, k) PROVE TypeOK'
    <2>1. proc' \in [Procs -> Proc]
        BY <1>1, ZenonT(60) DEF TypeOK, IncrementItem, Proc
    <2> QED
        BY <1>1, <2>1 DEF TypeOK, IncrementItem, Proc
<1>2. ASSUME NEW p \in Procs, isSet(p) PROVE TypeOK'
    <2>1. proc' \in [Procs -> Proc]
        <3>1. proc[p] \in Proc /\ proc[p].i + 1 \in Nat
            BY DEF TypeOK, Proc
        <3>2. PICK n \in Nat, e \in BOOLEAN, pc \in {"check", "increment", "add"} :
                proc' = [proc EXCEPT ![p] = [@ EXCEPT !.i = n, !.exists = e, !.pc = pc]]
            BY <1>2, <3>1, ZenonT(60) DEF isSet
        <3>3. [proc[p] EXCEPT !.i = n, !.exists = e, !.pc = pc] \in Proc
            BY <3>1, <3>2, ZenonT(60) DEF Proc
        <3> QED
            BY <3>2, <3>3 DEF TypeOK
    <2> QED
        BY <1>2, <2>1 DEF TypeOK, isSet, Proc
<1>3. ASSUME NEW p \in Procs, setBit(p) PROVE TypeOK'
    <2>1. proc' \in [Procs -> Proc]
        BY <1>3, ZenonT(60) DEF TypeOK, setBit, Proc
    <2> QED
        BY <1>3, <2>1, Constants, SMTT(60) DEF TypeOK, setBit, Proc
<1>4. ASSUME NEW p \in Procs, Increment(p) PROVE TypeOK'
    <2>1. proc' \in [Procs -> Proc]
        <3>1. op_counter + 1 \in Nat
            BY DEF TypeOK
        <3>2. PICK n \in Nat : proc' = [proc EXCEPT ![p] = [@ EXCEPT !.pc = "sample", !.opCount = n]]
            BY <1>4, <3>1, ZenonT(60) DEF Increment
        <3> QED
            BY <3>2, ZenonT(60) DEF TypeOK, Proc
    <2> QED
        BY <1>4, <2>1 DEF TypeOK, Increment, Proc
<1>5. ASSUME NEW p \in Procs, Sampled(p) PROVE TypeOK'
    <2>1. proc' \in [Procs -> Proc]
        BY <1>5 DEF TypeOK, Sampled, Proc
    <2> QED
        BY <1>5, <2>1 DEF TypeOK, Sampled, Proc
<1>6. ASSUME NEW p \in Procs, reset(p) PROVE TypeOK'
    <2>1. proc' \in [Procs -> Proc]
        BY <1>6 DEF TypeOK, reset, Proc
    <2> QED
        BY <1>6, <2>1 DEF TypeOK, reset, Proc
<1>7. ASSUME NEW p \in Procs, Clear(p) PROVE TypeOK'
    <2>1. proc' \in [Procs -> Proc]
        BY <1>7 DEF TypeOK, Clear, Proc
    <2> QED
        BY <1>7, <2>1, ZenonT(60) DEF TypeOK, Clear, Proc
<1>8. CASE UNCHANGED vars
    BY <1>8 DEF TypeOK, vars
<1> QED
    BY <1>1, <1>2, <1>3, <1>4, <1>5, <1>6, <1>7, <1>8 DEF Next, Step

\* So is IndexInv.
LEMMA IndexStep == TypeOK /\ IndexInv /\ [Next]_vars => IndexInv'
<1> SUFFICES ASSUME TypeOK, IndexInv, [Next]_vars PROVE IndexInv'
    OBVIOUS
<1>1. ASSUME NEW p \in Procs, NEW k \in Keys, IncrementItem(p, k) PROVE IndexInv'
    BY <1>1, Constants, SMTT(60) DEF TypeOK, IndexInv, IncrementItem, Proc
<1>2. ASSUME NEW p \in Procs, isSet(p) PROVE IndexInv'
    <2>1. PICK e \in BOOLEAN, pc \in {"check", "increment", "add"} :
            /\ proc' = [proc EXCEPT ![p] = [@ EXCEPT !.i = proc[p].i + 1, !.exists = e, !.pc = pc]]
            /\ pc = "check" => proc[p].i + 1 # Len(Bit[proc[p].key])
        BY <1>2, ZenonT(60) DEF isSet
    <2>2. proc[p].i < Len(Bit[proc[p].key]) /\ proc[p].i \in Nat /\ proc[p].key \in Keys
        BY <1>2 DEF isSet, IndexInv, TypeOK, Proc
    <2>3. proc'[p].pc = pc /\ proc'[p].i = proc[p].i + 1 /\ proc'[p].key = proc[p].key
        BY <2>1 DEF TypeOK, Proc
    <2>4. proc'[p].pc = "check" => proc'[p].i < Len(Bit[proc'[p].key])
        BY <2>1, <2>2, <2>3, Constants
    <2>5. \A q \in Procs \ {p} : proc'[q] = proc[q]
        BY <2>1 DEF TypeOK
    <2> QED
        BY <2>4, <2>5 DEF IndexInv
<1>3. ASSUME NEW p \in Procs, setBit(p) PROVE IndexInv'
    BY <1>3, Constants DEF TypeOK, IndexInv, setBit, Proc
<1>4. ASSUME NEW p \in Procs, Increment(p) PROVE IndexInv'
    BY <1>4, Constants DEF TypeOK, IndexInv, Increment, Proc
<1>5. ASSUME NEW p \in Procs, Sampled(p) PROVE IndexInv'
    BY <1>5, Constants DEF TypeOK, IndexInv, Sampled, Proc
<1>6. ASSUME NEW p \in Procs, reset(p) PROVE IndexInv'
    BY <1>6, Constants DEF TypeOK, IndexInv, reset, Proc
<1>7. ASSUME NEW p \in Procs, Clear(p) PROVE IndexInv'
    BY <1>7, Constants DEF TypeOK, IndexInv, Clear, Proc
<1>8. CASE UNCHANGED vars
    BY <1>8 DEF IndexInv, vars
<1> QED
    BY <1>1, <1>2, <1>3, <1>4, <1>5, <1>6, <1>7, <1>8 DEF Next, Step

\* Counting raises all counters of a key, and halving keeps the order of numbers.
LEMMA SketchStep == TypeOK /\ SketchInv /\ [Next]_vars => SketchInv'
<1> SUFFICES ASSUME TypeOK, SketchInv, [Next]_vars PROVE SketchInv'
    OBVIOUS
<1>1. ASSUME NEW p \in Procs, NEW k \in Keys, IncrementItem(p, k) PROVE SketchInv'
    BY <1>1, Constants DEF TypeOK, SketchInv, IncrementItem, Proc
<1>2. ASSUME NEW p \in Procs, isSet(p) PROVE SketchInv'
    BY <1>2, Constants DEF TypeOK, SketchInv, isSet, Proc
<1>3. ASSUME NEW p \in Procs, setBit(p) PROVE SketchInv'
    BY <1>3, Constants DEF TypeOK, SketchInv, setBit, Proc
<1>4. ASSUME NEW p \in Procs, Increment(p) PROVE SketchInv'
    BY <1>4, Constants, SMTT(60) DEF TypeOK, SketchInv, Increment, Proc
<1>5. ASSUME NEW p \in Procs, Sampled(p) PROVE SketchInv'
    BY <1>5, Constants DEF TypeOK, SketchInv, Sampled, Proc
<1>6. ASSUME NEW p \in Procs, reset(p) PROVE SketchInv'
    BY <1>6, Constants, SMTT(60) DEF TypeOK, SketchInv, reset, Proc
<1>7. ASSUME NEW p \in Procs, Clear(p) PROVE SketchInv'
    BY <1>7, Constants DEF TypeOK, SketchInv, Clear, Proc
<1>8. CASE UNCHANGED vars
    BY <1>8 DEF SketchInv, vars
<1> QED
    BY <1>1, <1>2, <1>3, <1>4, <1>5, <1>6, <1>7, <1>8 DEF Next, Step

\* A step that sets no counter of passed accesses, unsets no bit and lets no other
\* goroutine pass keeps DoorInv for a key.
LEMMA DoorKept ==
    ASSUME TypeOK, NEW k \in Keys, DoorInv, passed'[k] = passed[k], bitArray \subseteq bitArray',
           passed[k] # 0 => Passing(k)' \subseteq Passing(k)
    PROVE  \/ passed'[k] = 0
           \/ /\ \A i \in 1..Len(Bit[k]) : Bit[k][i] \in bitArray'
              /\ passed'[k] + Cardinality(Passing(k)') <= Goroutines
<1> SUFFICES ASSUME passed[k] # 0
             PROVE  /\ \A i \in 1..Len(Bit[k]) : Bit[k][i] \in bitArray'
                    /\ passed[k] + Cardinality(Passing(k)') <= Goroutines
    OBVIOUS
<1>1. /\ \A i \in 1..Len(Bit[k]) : Bit[k][i] \in bitArray
      /\ passed[k] + Cardinality(Passing(k)) <= Goroutines
    BY DEF DoorInv
<1>2. Passing(k) \in SUBSET Procs /\ Passing(k)' \in SUBSET Procs
    BY DEF Passing
<1>3. /\ Cardinality(Passing(k)') <= Cardinality(Passing(k))
      /\ Cardinality(Passing(k)) \in Nat /\ Cardinality(Passing(k)') \in Nat /\ Goroutines \in Nat
    BY <1>2, ProcSets
<1>4. passed[k] \in Nat
    BY DEF TypeOK
<1> QED
    BY <1>1, <1>3, <1>4

\* DoorInv is inductive: Check finds all bits of a key that has passed set, so that
\* only goroutines that read a bit before it was set still pass.
LEMMA DoorStep == TypeOK /\ IndexInv /\ DoorInv /\ [Next]_vars => DoorInv'
<1> SUFFICES ASSUME TypeOK, IndexInv, DoorInv, [Next]_vars, NEW k \in Keys
             PROVE  \/ passed'[k] = 0
                    \/ /\ \A i \in 1..Len(Bit[k]) : Bit[k][i] \in bitArray'
                       /\ passed'[k] + Cardinality(Passing(k)') <= Goroutines
    BY DEF DoorInv
<1> DEFINE Goal == \/ passed'[k] = 0
                   \/ /\ \A i \in 1..Len(Bit[k]) : Bit[k][i] \in bitArray'
                      /\ passed'[k] + Cardinality(Passing(k)') <= Goroutines
<1>1. ASSUME NEW p \in Procs, NEW q \in Keys, IncrementItem(p, q) PROVE Goal
    <2>1. Passing(k)' \subseteq Passing(k)
        BY <1>1 DEF TypeOK, Proc, IncrementItem, Passing
    <2>2. passed'[k] = passed[k] /\ bitArray \subseteq bitArray'
        BY <1>1 DEF IncrementItem
    <2> QED
        BY <2>1, <2>2, DoorKept
<1>2. ASSUME NEW p \in Procs, isSet(p) PROVE Goal
    <2>1. ASSUME passed[k] # 0 PROVE Passing(k)' \subseteq Passing(k)
        <3>1. CASE proc[p].key # k
            BY <1>2, <3>1 DEF TypeOK, Proc, isSet, Passing
        <3>2. CASE proc[p].key = k
            <4>1. proc[p].i + 1 \in 1..Len(Bit[k])
                BY <1>2, <3>2, Constants DEF TypeOK, Proc, isSet, IndexInv
            <4>2. Bit[k][proc[p].i + 1] \in bitArray
                BY <2>1, <4>1 DEF DoorInv
            <4> QED
                BY <1>2, <3>2, <4>2 DEF TypeOK, Proc, isSet, Passing
        <3> QED
            BY <3>1, <3>2
    <2>2. passed'[k] = passed[k] /\ bitArray \subseteq bitArray'
        BY <1>2 DEF isSet
    <2> QED
        BY <2>1, <2>2, DoorKept
<1>3. ASSUME NEW p \in Procs, setBit(p) PROVE Goal
    <2>1. CASE proc[p].key # k
        <3>1. Passing(k)' \subseteq Passing(k)
            BY <1>3, <2>1 DEF TypeOK, Proc, setBit, Passing
        <3>2. passed'[k] = passed[k] /\ bitArray \subseteq bitArray'
            BY <1>3, <2>1 DEF TypeOK, setBit
        <3> QED
            BY <3>1, <3>2, DoorKept
    <2>2. CASE proc[p].key = k
        <3>1. p \in Passing(k) /\ Passing(k)' = Passing(k) \ {p}
            BY <1>3, <2>2 DEF TypeOK, Proc, setBit, Passing
        <3>2. Passing(k) \in SUBSET Procs
            BY DEF Passing
        <3>3. /\ Cardinality(Passing(k)') = Cardinality(Passing(k)) - 1
              /\ Cardinality(Passing(k)) \in Nat /\ Cardinality(Passing(k)) <= Goroutines /\ Goroutines \in Nat
            BY <3>1, <3>2, ProcSets
        <3>4. passed'[k] = passed[k] + 1 /\ passed[k] \in Nat
            BY <1>3, <2>2 DEF TypeOK, setBit
        <3>5. passed[k] = 0 \/ passed[k] + Cardinality(Passing(k)) <= Goroutines
            BY DEF DoorInv
        <3>6. \A i \in 1..Len(Bit[k]) : Bit[k][i] \in bitArray'
            BY <1>3, <2>2 DEF setBit
        <3> QED
            BY <3>3, <3>4, <3>5, <3>6
    <2> QED
        BY <2>1, <2>2
<1>4. ASSUME NEW p \in Procs, Increment(p) \/ Sampled(p) \/ reset(p) PROVE Goal
    <2>1. Passing(k)' \subseteq Passing(k)
        <3>1. CASE Increment(p)
            BY <3>1 DEF TypeOK, Proc, Increment, Passing
        <3>2. CASE Sampled(p)
            BY <3>2 DEF TypeOK, Proc, Sampled, Passing
        <3>3. CASE reset(p)
            BY <3>3 DEF TypeOK, Proc, reset, Passing
        <3> QED
            BY <1>4, <3>1, <3>2, <3>3
    <2>2. passed'[k] = passed[k] /\ bitArray \subseteq bitArray'
        BY <1>4 DEF Increment, Sampled, reset
    <2> QED
        BY <2>1, <2>2, DoorKept
<1>5. ASSUME NEW p \in Procs, Clear(p) PROVE Goal
    BY <1>5 DEF Clear
<1>6. CASE UNCHANGED vars
    BY <1>6 DEF vars, DoorInv, Passing
<1> QED
    BY <1>1, <1>2, <1>3, <1>4, <1>5, <1>6 DEF Next, Step

\* SampleInv is inductive: the count that makes the sample too large is the one
\* that adds a goroutine to Full, and a reset takes one out.
LEMMA SampleStep == TypeOK /\ SampleInv /\ [Next]_vars => SampleInv'
<1> SUFFICES ASSUME TypeOK, SampleInv, [Next]_vars PROVE SampleInv'
    OBVIOUS
<1>1. Full \in SUBSET Procs
    BY DEF Full
<1>2. Cardinality(Full) \in Nat /\ Cardinality(Full) <= Goroutines /\ Goroutines \in Nat
    BY <1>1, ProcSets
<1>3. ASSUME NEW p \in Procs, Increment(p) PROVE SampleInv'
    <2>1. /\ op_counter \in Nat /\ resets \in Nat /\ op_counter' = op_counter + 1
          /\ resets' = IF op_counter + 1 = SAMPLE_SIZE THEN 0 ELSE resets
        BY <1>3 DEF TypeOK, Increment
    <2>2. CASE op_counter + 1 >= SAMPLE_SIZE
        <3>1. p \notin Full /\ Full' = Full \cup {p}
            BY <1>3, <2>2 DEF TypeOK, Proc, Increment, Full
        <3>2. /\ Full' \in SUBSET Procs
              /\ Cardinality(Full') = Cardinality(Full) + 1
            BY <1>1, <3>1, ProcSets
        <3>3. Cardinality(Full') <= Goroutines
            BY <3>2, ProcSets
        <3> QED
            BY <1>2, <2>1, <2>2, <3>2, <3>3, Constants DEF SampleInv
    <2>3. CASE ~(op_counter + 1 >= SAMPLE_SIZE)
        <3>1. Full' = Full
            BY <1>3, <2>3 DEF TypeOK, Proc, Increment, Full
        <3> QED
            BY <1>2, <2>1, <2>3, <3>1, Constants DEF SampleInv
    <2> QED
        BY <2>2, <2>3
<1>4. ASSUME NEW p \in Procs, reset(p) PROVE SampleInv'
    <2>1. p \in Full /\ Full' = Full \ {p}
        BY <1>4 DEF TypeOK, Proc, reset, Full
    <2>2. Cardinality(Full') = Cardinality(Full) - 1 /\ Cardinality(Full') \in Nat
        BY <1>1, <2>1, ProcSets
    <2>3. resets \in Nat /\ op_counter' = 0 /\ resets' = resets + 1
        BY <1>4 DEF TypeOK, reset
    <2> QED
        BY <1>2, <2>2, <2>3, Constants DEF SampleInv
<1>5. ASSUME NEW p \in Procs,
             \/ isSet(p) \/ setBit(p) \/ Sampled(p) \/ Clear(p)
             \/ \E k \in Keys : IncrementItem(p, k)
      PROVE SampleInv'
    <2>1. Full' = Full
        <3>1. CASE isSet(p)
            BY <3>1 DEF TypeOK, Proc, isSet, Full
        <3>2. CASE setBit(p)
            BY <3>2 DEF TypeOK, Proc, setBit, Full
        <3>3. CASE Sampled(p)
            BY <3>3, Constants DEF TypeOK, Proc, Sampled, Full
        <3>4. CASE Clear(p)
            BY <3>4 DEF TypeOK, Proc, Clear, Full
        <3>5. CASE \E k \in Keys : IncrementItem(p, k)
            BY <3>5 DEF TypeOK, Proc, IncrementItem, Full
        <3> QED
            BY <1>5, <3>1, <3>2, <3>3, <3>4, <3>5
    <2>2. UNCHANGED <<op_counter, resets>>
        BY <1>5, ZenonT(60) DEF IncrementItem, isSet, setBit, Sampled, Clear
    <2> QED
        BY <2>1, <2>2 DEF SampleInv
<1>6. CASE UNCHANGED vars
    BY <1>6 DEF vars, SampleInv, Full
<1> QED
    BY <1>3, <1>4, <1>5, <1>6 DEF Next, Step

\* NewTinyLFU.
LEMMA TypeInit == Init => TypeOK
<1> SUFFICES ASSUME Init PROVE TypeOK
    OBVIOUS
<1>1. proc \in [Procs -> Proc]
    BY DEF Init, Proc
<1> QED
    BY <1>1, ZenonT(60) DEF Init, TypeOK

\* NewTinyLFU, IncrementItem: type correctness, for any hash functions.
THEOREM TypeCorrect == Spec => []TypeOK
BY TypeInit, TypeStep, PTL DEF Spec

\* CMS.Increment, reset, GetCount: the sketch never underestimates.
THEOREM SketchNeverUnderestimates == Spec => []NeverUnderestimates
<1>1. Init => SketchInv
    BY Constants DEF Init, SketchInv
<1>2. TypeOK /\ SketchInv => NeverUnderestimates
    BY DEF SketchInv, NeverUnderestimates, GetCount
<1> QED
    BY <1>1, <1>2, TypeCorrect, SketchStep, PTL DEF Spec

\* Bloom.Check, Add, Clear: the accesses to a key that are not counted, from one
\* Clear to the next, are bounded by the number of goroutines.
THEOREM DoorkeeperBounded == Spec => []FirstAccessesBounded
<1>1. Init => IndexInv /\ DoorInv
    BY DEF Init, IndexInv, DoorInv
<1>2. ASSUME TypeOK, DoorInv, NEW k \in Keys PROVE passed[k] <= Goroutines
    <2>1. Passing(k) \in SUBSET Procs
        BY DEF Passing
    <2>2. passed[k] \in Nat /\ Cardinality(Passing(k)) \in Nat /\ Goroutines \in Nat
        BY <1>2, <2>1, ProcSets DEF TypeOK
    <2>3. passed[k] = 0 \/ passed[k] + Cardinality(Passing(k)) <= Goroutines
        BY <1>2 DEF DoorInv
    <2> QED
        BY <2>2, <2>3
<1>3. TypeOK /\ DoorInv => FirstAccessesBounded
    BY <1>2 DEF FirstAccessesBounded, Goroutines
<1> QED
    BY <1>1, <1>3, TypeCorrect, IndexStep, DoorStep, PTL DEF Spec

\* SampleInv holds in every state.
LEMMA SampleInvariant == Spec => [](TypeOK /\ SampleInv)
<1>1. Init => SampleInv
    <2> SUFFICES ASSUME Init PROVE SampleInv
        OBVIOUS
    <2>1. Full = {} /\ op_counter = 0 /\ resets = 0
        BY DEF Init, Full
    <2>2. Cardinality(Full) = 0 /\ Goroutines \in Nat
        BY <2>1, FS_EmptySet, ProcSets
    <2> QED
        BY <2>1, <2>2, Constants DEF SampleInv
<1> QED
    BY <1>1, TypeCorrect, SampleStep, PTL DEF Spec

\* What it says of the counters.
LEMMA SampleBounds == TypeOK /\ SampleInv => SampleBounded /\ ResetsBounded
<1> SUFFICES ASSUME TypeOK, SampleInv PROVE SampleBounded /\ ResetsBounded
    OBVIOUS
<1>1. Full \in SUBSET Procs
    BY DEF Full
<1>2. Cardinality(Full) \in Nat /\ Cardinality(Full) <= Goroutines /\ Goroutines \in Nat
    BY <1>1, ProcSets
<1>3. op_counter \in Nat /\ resets \in Nat
    BY DEF TypeOK
<1>4. op_counter < SAMPLE_SIZE + Goroutines /\ resets <= Goroutines
    BY <1>2, <1>3, Constants DEF SampleInv
<1> QED
    BY <1>4 DEF SampleBounded, ResetsBounded, Goroutines

\* IncrementItem counts before it takes TinyLFU.mu: the sample exceeds its size by
\* less than the number of goroutines.
THEOREM SampleSizeBounded == Spec => []SampleBounded
BY SampleInvariant, SampleBounds, PTL

\* Each goroutine that saw the sample full resets the sketch: at most one reset
\* per goroutine and sample.
THEOREM SampleResetsBounded == Spec => []ResetsBounded
BY SampleInvariant, SampleBounds, PTL
=============================================================================
