---------------------------- MODULE Shard_proofs ----------------------------
(***************************************************************************)
(* Misses and evictions keep the invariant of module Shard_invariant, so   *)
(* it holds of the shard, and what follows from it.                        *)
(***************************************************************************)
EXTENDS Shard_invariant

-----------------------------------------------------------------------------
(* getFreeFrame and evictWindow.                                           *)

\* getFreeFrame takes the lock.
LEMMA GetFreeStep ==
    ASSUME PinInv, NEW w \in Procs, getFreeFrame(w) PROVE GoodStep(w)
<1>1. /\ TypeOK /\ JobInv(w) /\ NoPanic /\ proc[w] \in Proc /\ Nil \notin Frames
      /\ proc[w].pc = "getFree" /\ w # Nil
  BY Known, Zenon DEF getFreeFrame, At
<1>2. PICK pc \in {"evict", "take"} : pc = IF windowCount = WindowCap THEN "evict" ELSE "take"
  OBVIOUS
<1>3. /\ proc' \in [Procs -> Proc] /\ \A x \in Procs \ {w} : proc'[x] = proc[x]
      /\ proc'[w].pc = pc /\ proc'[w].op = proc[w].op /\ proc'[w].pid = proc[w].pid
      /\ proc'[w].wind = proc[w].wind /\ proc'[w].main = proc[w].main
  BY <1>1, <1>2, GotoFacts, ZenonT(60) DEF Stages, getFreeFrame
<1>4. /\ proc[w].wind = Nil /\ proc[w].main = Nil /\ proc[w].pid \in Pages /\ proc[w].op # "delete"
  BY <1>1, Zenon DEF JobInv, Chosen, Locked, Filled
<1>5. windowCount <= WindowCap /\ windowCount \in Nat /\ WindowCap \in Nat
  BY <1>1, CapAssumption, Zenon DEF PinInv, TypeOK
<1>6. /\ wmu = Nil /\ wmu' = w /\ UNCHANGED counts /\ bg' = bg /\ en' = en
  BY Zenon DEF getFreeFrame
<1>7. NoPanic' /\ panic' \in BOOLEAN
  <2>1. (windowCount > WindowCap) = FALSE
    BY <1>5
  <2>2. panic' = (windowCount > WindowCap)
    BY Zenon DEF getFreeFrame
  <2> QED BY <2>1, <2>2, Zenon DEF NoPanic
<1>8. TypeOK'
  BY <1>1, <1>3, <1>7, Zenon DEF TypeOK, getFreeFrame, counts, history
<1>9. JobInv(w)'
  BY <1>2, <1>3, <1>4, <1>5, <1>6 DEF JobInv, Locked, Evicting, Chosen, Filled, Filling, counts
<1>10. FrameInv(w)'
  BY <1>2, <1>3, <1>4, Zenon DEF FrameInv, Filled, Filling
<1>11. \A g \in Frames : ~Uses(w, g)' /\ ~Owned(w, g)'
  BY <1>1, <1>2, <1>3, <1>4, Zenon DEF Uses, Owned, Filled, Filling
<1>12. LockStep(w)
  BY <1>6, Zenon DEF LockStep
<1> QED BY <1>3, <1>6, <1>7, <1>8, <1>9, <1>10, <1>11, <1>12, PlainStep, Zenon

\* Changes to one entry that keep its pins, or take or drop one.
LEMMA TakeVictim ==
    ASSUME PinInv, NEW f \in Frames, NEW s, Eligible(f, s), en' = [en EXCEPT ![f] = Victim(@)]
    PROVE  /\ en' \in [Frames -> Entry] /\ \A g \in Frames \ {f} : en'[g] = en[g]
           /\ en'[f].pins = en[f].pins + 1 /\ en'[f].acc /\ en'[f].marked
           /\ en'[f].occ = en[f].occ /\ en'[f].seg = s /\ en'[f].dead = en[f].dead
           /\ en'[f].key = en[f].key /\ en'[f].dirty = en[f].dirty /\ en'[f].data = en[f].data
           /\ ~en[f].acc /\ ~en[f].marked /\ en[f].seg = s /\ EntryInv(f) /\ en[f].pins \in Nat
<1>1. TypeOK /\ en[f] \in Entry
  BY Zenon DEF PinInv, TypeOK
<1>2. /\ en' \in [Frames -> Entry] /\ en'[f] = Victim(en[f])
      /\ \A g \in Frames \ {f} : en'[g] = en[g]
  BY <1>1, VictimFacts DEF TypeOK
<1>3. /\ en'[f].pins = en[f].pins + 1 /\ en'[f].acc /\ en'[f].marked
      /\ en'[f].occ = en[f].occ /\ en'[f].seg = en[f].seg /\ en'[f].dead = en[f].dead
      /\ en'[f].key = en[f].key /\ en'[f].dirty = en[f].dirty /\ en'[f].data = en[f].data
      /\ en[f].pins \in Nat
  BY <1>1, <1>2, VictimFacts, EntryFields, Zenon
<1> QED BY <1>2, <1>3, Zenon DEF Eligible, PinInv

\* EvictWithoutClearing takes an entry that nobody uses.
LEMMA VictimTouch ==
    ASSUME NEW w, NEW f, EntryInv(f), ~en[f].acc, en[f].pins \in Nat,
           en'[f].pins = en[f].pins + 1, en'[f].acc, en'[f].occ = en[f].occ,
           en'[f].seg = en[f].seg, en'[f].dead = en[f].dead
    PROVE  PinStep(w, f) /\ GrabStep(w, f) /\ FieldStep(w, f)
<1>1. PinStep(w, f)
  BY DEF PinStep
<1>2. GrabStep(w, f)
  BY Zenon DEF GrabStep
<1>3. FieldStep(w, f)
  BY Zenon DEF FieldStep, EntryInv
<1> QED BY <1>1, <1>2, <1>3, Zenon

\* What evictWindow knows of its victim.
LEMMA EvictFrame ==
    ASSUME NEW w, NEW p, proc'[w] = p, p.pc \in {"move", "pickMain"}, p.main = Nil,
           en'[p.wind].marked, en'[p.wind].seg = "window"
    PROVE  FrameInv(w)'
  BY Zenon DEF FrameInv, Filled, Filling

\* evictWindow finds a victim ...
LEMMA EvictVictim ==
    ASSUME PinInv, NEW w \in Procs, proc[w].pc = "evict", NEW f \in Frames, Eligible(f, "window"),
           en' = [en EXCEPT ![f] = Victim(@)],
           proc' = [proc EXCEPT ![w].wind = f,
                        ![w].pc = IF probationCount >= ProbationCap THEN "pickMain" ELSE "move"],
           UNCHANGED <<CacheMap, latch, counts, wmu, bg, disk, freeList, history, panic>>
    PROVE  GoodStep(w)
<1>1. /\ TypeOK /\ JobInv(w) /\ NoPanic /\ proc[w] \in Proc /\ Nil \notin Frames
  BY Known, Zenon
<1>2. PICK pc \in {"pickMain", "move"} : pc = IF probationCount >= ProbationCap THEN "pickMain" ELSE "move"
  OBVIOUS
<1>3. PICK p : p = [proc[w] EXCEPT !.wind = f, !.pc = pc]
  OBVIOUS
<1>4. p \in Proc
  BY <1>1, <1>3, ZenonT(60) DEF Proc
<1>5. /\ p.pc = pc /\ p.wind = f /\ p.main = proc[w].main
      /\ p.op = proc[w].op /\ p.pid = proc[w].pid
  BY <1>1, <1>3, Zenon DEF Proc
<1>6. proc' \in [Procs -> Proc] /\ proc'[w] = p /\ \A x \in Procs \ {w} : proc'[x] = proc[x]
  BY <1>1, <1>2, <1>3, <1>4, Zenon DEF TypeOK
<1>7. /\ en' \in [Frames -> Entry] /\ \A g \in Frames \ {f} : en'[g] = en[g]
      /\ en'[f].pins = en[f].pins + 1 /\ en'[f].acc /\ en'[f].marked
      /\ en'[f].occ = en[f].occ /\ en'[f].seg = "window" /\ en'[f].dead = en[f].dead
      /\ ~en[f].acc /\ en[f].seg = "window" /\ EntryInv(f) /\ en[f].pins \in Nat
  BY TakeVictim, ZenonT(60)
<1>8. TypeOK'
  BY <1>1, <1>6, <1>7, Zenon DEF TypeOK, counts, history
<1>9. /\ p.main = Nil /\ p.pid \in Pages /\ p.op # "delete" /\ wmu = w /\ windowCount = WindowCap
  BY <1>1, <1>5, Zenon DEF JobInv, Chosen, Locked, Evicting
<1>10. JobInv(w)'
  <2>1. probationCount \in Nat /\ ProbationCap \in Nat
    BY <1>1, CapAssumption, Zenon DEF TypeOK
  <2>2. wmu' = w /\ windowCount' = WindowCap /\ (pc = "move" => probationCount' < ProbationCap)
    BY <1>2, <1>9, <2>1 DEF counts
  <2> QED BY <1>5, <1>6, <1>9, <2>2, ZenonT(60) DEF JobInv, Locked, Evicting, Chosen, Filled, Filling
<1>11. FrameInv(w)'
  BY <1>5, <1>6, <1>7, <1>9, EvictFrame, ZenonT(60)
<1>12. \A g \in Frames \ {f} : ~Uses(w, g)' /\ ~Owned(w, g)'
  BY <1>1, <1>2, <1>5, <1>6, <1>9, ZenonT(60) DEF Uses, Owned, Filled, Filling
<1>13. PinStep(w, f) /\ GrabStep(w, f) /\ FieldStep(w, f)
  BY <1>7, VictimTouch, Zenon
<1>14. MainStep /\ windowCount' <= WindowCap
  BY <1>7, CountsKept, Zenon DEF PinInv, counts
<1>15. LockStep(w) /\ NoPanic' /\ bg' = bg
  BY <1>1, Zenon DEF LockStep, NoPanic, counts
<1> QED BY <1>6, <1>7, <1>8, <1>10, <1>11, <1>12, <1>13, <1>14, <1>15, OneStep, Zenon

\* ... or none, and goes on to probation or fails.
LEMMA EvictNone ==
    ASSUME PinInv, NEW w \in Procs, proc[w].pc = "evict", Goto(w, "pickMain"),
           UNCHANGED <<CacheMap, en, latch, counts, wmu, bg, disk, freeList, history, panic>>
    PROVE  GoodStep(w)
<1>1. /\ TypeOK /\ JobInv(w) /\ NoPanic /\ proc[w] \in Proc /\ Nil \notin Frames
  BY Known, Zenon
<1>2. /\ proc' \in [Procs -> Proc] /\ \A x \in Procs \ {w} : proc'[x] = proc[x]
      /\ proc'[w].pc = "pickMain" /\ proc'[w].op = proc[w].op /\ proc'[w].pid = proc[w].pid
      /\ proc'[w].wind = proc[w].wind /\ proc'[w].main = proc[w].main
  BY <1>1, GotoFacts, ZenonT(60) DEF Stages
<1>3. TypeOK'
  BY <1>1, <1>2, Zenon DEF TypeOK, counts, history
<1>4. /\ proc[w].wind = Nil /\ proc[w].main = Nil /\ proc[w].pid \in Pages
      /\ proc[w].op # "delete" /\ wmu = w /\ windowCount = WindowCap
  BY <1>1, Zenon DEF JobInv, Chosen, Locked, Evicting
<1>5. JobInv(w)'
  BY <1>2, <1>4, Zenon DEF JobInv, Locked, Evicting, Chosen, Filled, Filling, counts
<1>6. FrameInv(w)'
  BY <1>2, <1>4, ZenonT(60) DEF FrameInv, Filled, Filling
<1>7. \A g \in Frames : ~Uses(w, g)' /\ ~Owned(w, g)'
  BY <1>1, <1>2, <1>4, ZenonT(60) DEF Uses, Owned, Filled, Filling
<1>8. LockStep(w) /\ NoPanic' /\ bg' = bg /\ en' = en /\ UNCHANGED counts
  BY <1>1, Zenon DEF LockStep, NoPanic, counts
<1> QED BY <1>2, <1>3, <1>5, <1>6, <1>7, <1>8, PlainStep, ZenonT(60)

\* A step under the lock that fails, with the entries unchanged.
LEMMA FailStep ==
    ASSUME PinInv, NEW w \in Procs, wmu = w, Fail(w), TypeOK',
           UNCHANGED <<en, counts, bg, panic>>
    PROVE  GoodStep(w)
<1>1. TypeOK /\ NoPanic /\ w # Nil
  BY Known, Zenon
<1>2. /\ \A x \in Procs \ {w} : proc'[x] = proc[x]
      /\ proc'[w] = Idle
  BY <1>1, DoneFacts, Zenon DEF Fail
<1>3. JobInv(w)' /\ FrameInv(w)' /\ \A f \in Frames : ~Uses(w, f)' /\ ~Owned(w, f)'
  BY <1>1, <1>2, IdleHolds, Zenon DEF Fail
<1>4. LockStep(w) /\ NoPanic' /\ bg' = bg /\ en' = en /\ UNCHANGED counts
  BY <1>1, Zenon DEF LockStep, NoPanic, Fail
<1> QED BY <1>2, <1>3, <1>4, PlainStep, Zenon

\* evictWindow: a victim of the window, or none.
LEMMA EvictStep ==
    ASSUME PinInv, NEW w \in Procs, evictWindow(w) PROVE GoodStep(w)
<1>1. /\ TypeOK /\ JobInv(w) /\ NoPanic /\ proc[w].pc = "evict"
  BY Known, Zenon DEF evictWindow, At
<1>2. panic' = panic
  <2>1. (probationCount > ProbationCap) = FALSE /\ panic = FALSE
    BY <1>1, CapAssumption DEF PinInv, MainCountsExact, TypeOK, NoPanic
  <2>2. panic' = (probationCount > ProbationCap)
    BY Zenon DEF evictWindow
  <2> QED BY <2>1, <2>2, Zenon
<1>3. UNCHANGED <<CacheMap, latch, counts, bg, disk, freeList, history>>
  BY Zenon DEF evictWindow
<1>4. ASSUME NEW f \in Frames, Eligible(f, "window"), en' = [en EXCEPT ![f] = Victim(@)],
             proc' = [proc EXCEPT ![w].wind = f,
                         ![w].pc = IF probationCount >= ProbationCap THEN "pickMain" ELSE "move"],
             wmu' = wmu
      PROVE  GoodStep(w)
  BY <1>1, <1>2, <1>3, <1>4, EvictVictim, ZenonT(60)
<1>5. CASE en' = en /\ Goto(w, "pickMain") /\ wmu' = wmu
  BY <1>1, <1>2, <1>3, <1>5, EvictNone, Zenon
<1>6. CASE en' = en /\ Fail(w)
  <2>1. wmu = w
    BY <1>1, Zenon DEF JobInv, Locked
  <2>2. TypeOK'
    BY <1>1, <1>2, <1>3, <1>6, DoneFacts, Zenon DEF TypeOK, counts, history, Fail
  <2> QED BY <1>2, <1>3, <1>6, <2>1, <2>2, FailStep, Zenon
<1> QED BY <1>4, <1>5, <1>6, ZenonT(60) DEF evictWindow

\* moveToProbation: the window victim moves to probation, which has room.
LEMMA MoveStep ==
    ASSUME PinInv, NEW w \in Procs, moveToProbation(w) PROVE GoodStep(w)
<1>1. /\ TypeOK /\ JobInv(w) /\ FrameInv(w) /\ NoPanic /\ proc[w] \in Proc /\ Nil \notin Frames
      /\ proc[w].pc = "move" /\ w # Nil
  BY Known, Zenon DEF moveToProbation, At
<1>2. PICK f \in Frames : f = proc[w].wind
  BY <1>1, Zenon DEF JobInv
<1>3. /\ proc[w].main = Nil /\ wmu = w /\ proc[w].pid \in Pages /\ proc[w].op # "delete"
      /\ windowCount = WindowCap /\ probationCount < ProbationCap
  BY <1>1, <1>2, Zenon DEF JobInv, Chosen, Locked, Evicting
<1>4. en[f].seg = "window" /\ EntryInv(f) /\ en[f] \in Entry
  BY <1>1, <1>2, ZenonT(60) DEF FrameInv, PinInv, TypeOK
<1>5. en[f].pins > 0 /\ en[f].acc
  <2>1. w \in Holders(f)
    BY <1>2, ZenonT(60) DEF Holders
  <2> QED BY <1>4, <2>1, UsedIsPinned, ZenonT(60)
<1>6. Released(en[f], "window", "probation") \in Entry
  BY <1>4, <1>5, ReleasedFacts, Zenon DEF Segments
<1>7. /\ en' \in [Frames -> Entry] /\ en'[f] = Released(en[f], "window", "probation")
      /\ \A g \in Frames \ {f} : en'[g] = en[g]
  BY <1>1, <1>2, <1>6, ZenonT(60) DEF TypeOK, moveToProbation, Released
<1>8. /\ en'[f].pins = en[f].pins - 1 /\ (en'[f].acc <=> en'[f].pins > 0)
      /\ en'[f].seg = "probation" /\ en'[f].dead = en[f].dead
  BY <1>4, <1>5, <1>7, ReleasedFacts DEF Segments
<1>9. PICK p : p = [proc[w] EXCEPT !.wind = Nil, !.pc = "take"]
  OBVIOUS
<1>10. p \in Proc
  BY <1>1, <1>9, ZenonT(60) DEF Proc
<1>11. /\ p.pc = "take" /\ p.wind = Nil /\ p.main = Nil /\ p.fr = proc[w].fr
       /\ p.op = proc[w].op /\ p.pid = proc[w].pid
  BY <1>1, <1>3, <1>9, Zenon DEF Proc
<1>12. proc' \in [Procs -> Proc] /\ proc'[w] = p /\ \A x \in Procs \ {w} : proc'[x] = proc[x]
  BY <1>1, <1>9, <1>10, Zenon DEF TypeOK, moveToProbation
<1>13. /\ probationCount' = probationCount + 1 /\ windowCount' = windowCount - 1
       /\ protectedCount' = protectedCount /\ wmu' = wmu /\ bg' = bg
  BY Zenon DEF moveToProbation
<1>14. /\ windowCount \in Nat /\ probationCount \in Nat /\ WindowCap \in Nat \ {0}
       /\ ProbationCap \in Nat
  BY <1>1, CapAssumption, Zenon DEF TypeOK
<1>15. windowCount' \in Nat /\ windowCount' < WindowCap /\ probationCount' \in Nat
  BY <1>3, <1>13, <1>14
<1>16. NoPanic' /\ panic' \in BOOLEAN
  BY <1>2, <1>5, ZenonT(60) DEF moveToProbation, CanUnref, NoPanic
<1>17. TypeOK'
  BY <1>1, <1>7, <1>12, <1>13, <1>15, <1>16, Zenon DEF TypeOK, history, moveToProbation
<1>18. JobInv(w)'
  BY <1>3, <1>11, <1>12, <1>13, <1>15, ZenonT(60) DEF JobInv, Locked, Evicting, Chosen, Filled, Filling
<1>19. FrameInv(w)'
  BY <1>11, <1>12, ZenonT(60) DEF FrameInv, Filled, Filling
<1>20. /\ \A g \in Frames : ~Uses(w, g)' /\ ~Owned(w, g)'
       /\ Uses(w, f) /\ Owned(w, f)
  BY <1>1, <1>2, <1>11, <1>12, Zenon DEF Uses, Owned, Filled, Filling
<1>21. PinStep(w, f)
  BY <1>8, <1>20, ZenonT(60) DEF PinStep
<1>22. GrabStep(w, f)
  BY <1>20, Zenon DEF GrabStep
<1>23. FieldStep(w, f)
  BY <1>4, <1>8, <1>20, ZenonT(60) DEF FieldStep, EntryInv
<1>24. MainStep
  <2>1. Grows("probation")
    BY <1>4, <1>7, <1>8, SegmentStep, Zenon
  <2>2. InSegment("protected")' = InSegment("protected")
    BY <1>4, <1>7, <1>8, Zenon DEF InSegment
  <2>3. protectedCount <= ProtectedCap /\ probationCount' <= ProbationCap
    BY <1>3, <1>13, <1>14 DEF MainCountsExact, PinInv
  <2> QED BY <1>13, <2>1, <2>2, <2>3, Zenon DEF MainStep, CountStep
<1>25. LockStep(w) /\ windowCount' <= WindowCap
  BY <1>3, <1>13, <1>14, <1>15 DEF LockStep
<1> QED
  BY <1>7, <1>12, <1>13, <1>16, <1>17, <1>18, <1>19, <1>20, <1>21, <1>22, <1>23, <1>24, <1>25, OneStep, Zenon

\* What evictWindow knows of its two victims.
LEMMA ChosenFrame ==
    ASSUME NEW w, NEW p, proc'[w] = p, p.pc \in Chosen, 
           en'[p.wind].marked, en'[p.wind].seg = "window",
           en'[p.main].marked, en'[p.main].seg = "probation"
    PROVE  FrameInv(w)'
  BY Zenon DEF FrameInv, Filled, Filling, Chosen

\* pickMain: with a victim of each segment, one of them is chosen ...
LEMMA PickBoth ==
    ASSUME PinInv, NEW w \in Procs, proc[w].pc = "pickMain", proc[w].wind # Nil,
           NEW f \in Frames, Eligible(f, "probation"), en' = [en EXCEPT ![f] = Victim(@)],
           NEW vic \in {proc[w].wind, f},
           proc' = [proc EXCEPT ![w].main = f, ![w].vic = vic, ![w].pc = "writeVictim"],
           UNCHANGED <<CacheMap, latch, counts, wmu, bg, disk, freeList, history, panic>>
    PROVE  GoodStep(w)
<1>1. /\ TypeOK /\ JobInv(w) /\ FrameInv(w) /\ NoPanic /\ proc[w] \in Proc /\ Nil \notin Frames
  BY Known, Zenon
<1>2. PICK v \in Frames : v = proc[w].wind
  BY <1>1, Zenon DEF Proc
<1>3. PICK p : p = [proc[w] EXCEPT !.main = f, !.vic = vic, !.pc = "writeVictim"]
  OBVIOUS
<1>4. p \in Proc
  BY <1>1, <1>2, <1>3, ZenonT(60) DEF Proc
<1>5. /\ p.pc = "writeVictim" /\ p.wind = v /\ p.main = f /\ p.vic = vic
      /\ p.op = proc[w].op /\ p.pid = proc[w].pid
  BY <1>1, <1>2, <1>3, Zenon DEF Proc
<1>6. proc' \in [Procs -> Proc] /\ proc'[w] = p /\ \A x \in Procs \ {w} : proc'[x] = proc[x]
  BY <1>1, <1>3, <1>4, Zenon DEF TypeOK
<1>7. /\ en' \in [Frames -> Entry] /\ \A g \in Frames \ {f} : en'[g] = en[g]
      /\ en'[f].pins = en[f].pins + 1 /\ en'[f].acc /\ en'[f].marked
      /\ en'[f].occ = en[f].occ /\ en'[f].seg = "probation" /\ en'[f].dead = en[f].dead
      /\ ~en[f].acc /\ en[f].seg = "probation" /\ EntryInv(f) /\ en[f].pins \in Nat
  BY TakeVictim, ZenonT(60)
<1>8. TypeOK'
  BY <1>1, <1>6, <1>7, Zenon DEF TypeOK, counts, history
<1>9. /\ p.pid \in Pages /\ p.op # "delete" /\ wmu' = w /\ windowCount' = WindowCap
  BY <1>1, <1>5, Zenon DEF JobInv, Locked, Evicting, counts
<1>10. en[v].marked /\ en[v].seg = "window" /\ v # f
  BY <1>1, <1>2, <1>7, Zenon DEF FrameInv
<1>11. JobInv(w)'
  BY <1>2, <1>5, <1>6, <1>9, Zenon DEF JobInv, Locked, Evicting, Chosen, Filled, Filling
<1>12. FrameInv(w)'
  <2>1. /\ proc'[w] = p /\ p.pc \in Chosen /\ en'[p.wind].marked /\ en'[p.wind].seg = "window"
        /\ en'[p.main].marked /\ en'[p.main].seg = "probation"
    BY <1>5, <1>6, <1>7, <1>10, Zenon DEF Chosen
  <2> QED BY <2>1, ChosenFrame, ZenonT(60)
<1>13. \A g \in Frames \ {f} : (Uses(w, g)' => Uses(w, g)) /\ (Owned(w, g)' => Owned(w, g))
  BY <1>1, <1>2, <1>5, <1>6, Zenon DEF Uses, Owned, Filled, Filling
<1>14. PinStep(w, f) /\ GrabStep(w, f) /\ FieldStep(w, f)
  BY <1>7, VictimTouch, Zenon
<1>15. MainStep /\ windowCount' <= WindowCap
  BY <1>7, CountsKept, Zenon DEF PinInv, counts
<1>16. LockStep(w) /\ NoPanic' /\ bg' = bg
  BY <1>1, Zenon DEF LockStep, NoPanic, counts
<1> QED BY <1>6, <1>7, <1>8, <1>11, <1>12, <1>13, <1>14, <1>15, <1>16, OneStep, Zenon

\* ... and with one victim only the job fails: it is marked, or loses its pin.
LEMMA PickOne ==
    ASSUME PinInv, NEW w \in Procs, wmu = w, Fail(w), NEW f \in Frames, en'[f] \in Entry,
           en' = [en EXCEPT ![f] = en'[f]], en'[f].occ = en[f].occ, en'[f].seg = en[f].seg,
           en'[f].dead = en[f].dead, ~Uses(w, f)' => PinStep(w, f),
           ~en[f].acc \/ en'[f].marked = en[f].marked,
           UNCHANGED <<CacheMap, latch, counts, bg, disk, freeList, history, panic>>
    PROVE  GoodStep(w)
<1>1. TypeOK /\ NoPanic /\ w # Nil /\ EntryInv(f)
  BY Known, ZenonT(60) DEF PinInv
<1>2. /\ proc' \in [Procs -> Proc] /\ \A x \in Procs \ {w} : proc'[x] = proc[x]
      /\ proc'[w] = Idle /\ wmu' = Nil
  BY <1>1, DoneFacts, Zenon DEF Fail
<1>3. JobInv(w)' /\ FrameInv(w)' /\ \A g \in Frames : ~Uses(w, g)' /\ ~Owned(w, g)'
  BY <1>1, <1>2, IdleHolds, Zenon
<1>4. en' \in [Frames -> Entry] /\ \A g \in Frames \ {f} : en'[g] = en[g]
  BY <1>1, Zenon DEF TypeOK
<1>5. TypeOK'
  BY <1>1, <1>2, <1>4, Zenon DEF TypeOK, counts, history
<1>6. PinStep(w, f) /\ GrabStep(w, f)
  BY <1>3, Zenon DEF GrabStep
<1>7. FieldStep(w, f)
  BY <1>1, ZenonT(60) DEF FieldStep, SameFields, EntryInv
<1>8. MainStep /\ windowCount' <= WindowCap
  <2>1. \A g \in Frames : en'[g].seg = en[g].seg
    BY <1>4, Zenon
  <2> QED BY <2>1, CountsKept, ZenonT(60) DEF PinInv, counts
<1>9. LockStep(w) /\ NoPanic' /\ bg' = bg
  BY <1>1, <1>2, Zenon DEF LockStep, NoPanic
<1> QED BY <1>2, <1>3, <1>4, <1>5, <1>6, <1>7, <1>8, <1>9, OneStep, Zenon

\* evictWindow with probation full: both victims, or an error.
LEMMA PickStep ==
    ASSUME PinInv, NEW w \in Procs, pickMain(w) PROVE GoodStep(w)
<1>1. /\ TypeOK /\ JobInv(w) /\ NoPanic /\ proc[w] \in Proc /\ Nil \notin Frames
      /\ proc[w].pc = "pickMain" /\ w # Nil /\ wmu = w
  BY Known, ZenonT(60) DEF pickMain, At, JobInv, Locked
<1>2. UNCHANGED <<CacheMap, latch, counts, bg, disk, freeList, history>>
  BY ZenonT(60) DEF pickMain
<1>3. ASSUME NEW f \in Frames, Eligible(f, "probation"), proc[w].wind # Nil,
             en' = [en EXCEPT ![f] = Victim(@)], NEW vic \in {proc[w].wind, f},
             proc' = [proc EXCEPT ![w].main = f, ![w].vic = vic, ![w].pc = "writeVictim"],
             wmu' = wmu, panic' = panic
      PROVE  GoodStep(w)
  BY <1>1, <1>2, <1>3, PickBoth, ZenonT(60)
<1>4. ASSUME NEW f \in Frames, Eligible(f, "probation"), en' = [en EXCEPT ![f].marked = TRUE],
             Fail(w), panic' = panic
      PROVE  GoodStep(w)
  <2>1. en[f] \in Entry /\ EntryInv(f) /\ ~en[f].acc
    BY <1>1, <1>4, Zenon DEF TypeOK, PinInv, Eligible
  <2>2. PICK e : e = [en[f] EXCEPT !.marked = TRUE]
    BY ZenonT(60)
  <2>3. /\ e \in Entry /\ e.occ = en[f].occ /\ e.seg = en[f].seg /\ e.dead = en[f].dead
        /\ e.pins = en[f].pins /\ e.acc = en[f].acc
    BY <2>1, <2>2, ZenonT(60) DEF Entry
  <2>4. en'[f] = e /\ en' = [en EXCEPT ![f] = en'[f]]
    BY <1>1, <1>4, <2>2, Zenon DEF TypeOK
  <2>5. ~Uses(w, f)' => PinStep(w, f)
    BY <2>1, <2>3, <2>4, ZenonT(60) DEF PinStep, EntryInv
  <2> QED BY <1>1, <1>2, <1>4, <2>1, <2>3, <2>4, <2>5, PickOne, ZenonT(60)
<1>5. ASSUME proc[w].wind # Nil, en' = [en EXCEPT ![proc[w].wind] = Unpinned(@)],
             panic' = (proc[w].wind # Nil /\ ~CanUnref(en[proc[w].wind])), Fail(w)
      PROVE  GoodStep(w)
  <2>1. PICK f \in Frames : f = proc[w].wind
    BY <1>1, <1>5, ZenonT(60) DEF Proc
  <2>2. en[f] \in Entry /\ EntryInv(f) /\ Uses(w, f)
    BY <1>1, <2>1, ZenonT(60) DEF TypeOK, PinInv, Uses
  <2>3. en[f].pins > 0 /\ en[f].acc
    <3>1. w \in Holders(f)
      BY <2>1, Zenon DEF Holders
    <3> QED BY <1>1, <2>2, <3>1, UsedIsPinned, ZenonT(60)
  <2>4. panic' = FALSE /\ panic = FALSE
    BY <1>1, <1>5, <2>1, <2>3, Zenon DEF CanUnref, NoPanic, TypeOK
  <2>5. en'[f] = Unpinned(en[f]) /\ en' = [en EXCEPT ![f] = en'[f]]
    BY <1>1, <1>5, <2>1, ZenonT(60) DEF TypeOK
  <2>6. /\ en'[f] \in Entry /\ en'[f].occ = en[f].occ /\ en'[f].seg = en[f].seg
        /\ en'[f].dead = en[f].dead /\ en'[f].pins = en[f].pins - 1
        /\ (en'[f].acc <=> en'[f].pins > 0) /\ en'[f].marked = en[f].marked
    BY <2>2, <2>3, <2>5, UnpinnedFacts, ZenonT(60)
  <2>7. ~Uses(w, f)' => PinStep(w, f)
    BY <2>2, <2>6, ZenonT(60) DEF PinStep
  <2> QED BY <1>1, <1>2, <1>5, <2>4, <2>5, <2>6, <2>7, PickOne, ZenonT(60)
<1>6. ASSUME en' = en, panic' = (proc[w].wind # Nil /\ ~CanUnref(en[proc[w].wind])),
             proc[w].wind = Nil, Fail(w)
      PROVE  GoodStep(w)
  <2>1. panic' = panic
    BY <1>1, <1>6, ZenonT(60) DEF NoPanic, TypeOK
  <2>2. TypeOK'
    BY <1>1, <1>2, <1>6, <2>1, DoneFacts, ZenonT(60) DEF TypeOK, counts, history, Fail
  <2> QED BY <1>1, <1>2, <1>6, <2>1, <2>2, FailStep, Zenon
<1> QED BY <1>3, <1>4, <1>5, <1>6, ZenonT(60) DEF pickMain

\* The victims stay as they are while one of them is written and unmapped.
LEMMA ChosenStep ==
    ASSUME PinInv, NEW w \in Procs, proc[w].pc \in Chosen, NEW pc \in Chosen, Goto(w, pc), TypeOK',
           UNCHANGED <<en, counts, wmu, bg, panic>>
    PROVE  GoodStep(w)
<1>1. /\ TypeOK /\ JobInv(w) /\ FrameInv(w) /\ NoPanic /\ proc[w] \in Proc /\ Nil \notin Frames
  BY Known, Zenon
<1>2. /\ \A x \in Procs \ {w} : proc'[x] = proc[x]
      /\ proc'[w].pc = pc /\ proc'[w].op = proc[w].op /\ proc'[w].pid = proc[w].pid
      /\ proc'[w].wind = proc[w].wind /\ proc'[w].main = proc[w].main /\ proc'[w].vic = proc[w].vic
  BY <1>1, GotoFacts, ZenonT(60) DEF Stages, Chosen
<1>3. /\ proc[w].wind \in Frames /\ proc[w].main \in Frames /\ proc[w].pid \in Pages
      /\ proc[w].op # "delete" /\ wmu' = w /\ windowCount' = WindowCap
      /\ proc[w].vic \in {proc[w].wind, proc[w].main}
  BY <1>1, ZenonT(60) DEF JobInv, Chosen, Locked, Evicting, counts
<1>4. JobInv(w)'
  BY <1>2, <1>3, ZenonT(60) DEF JobInv, Locked, Evicting, Chosen, Filled, Filling
<1>5. FrameInv(w)'
  <2>1. /\ en[proc[w].wind].marked /\ en[proc[w].wind].seg = "window"
        /\ en[proc[w].main].marked /\ en[proc[w].main].seg = "probation"
    BY <1>1, <1>3, ZenonT(60) DEF FrameInv, Chosen
  <2>2. PICK p : p = proc'[w]
    BY ZenonT(60)
  <2>3. /\ proc'[w] = p /\ p.pc \in Chosen /\ en'[p.wind].marked /\ en'[p.wind].seg = "window"
        /\ en'[p.main].marked /\ en'[p.main].seg = "probation"
    BY <1>2, <2>1, <2>2, Zenon
  <2> QED BY <2>3, ChosenFrame, ZenonT(60)
<1>6. \A g \in Frames : (Uses(w, g)' => Uses(w, g)) /\ (Owned(w, g)' => Owned(w, g))
  BY <1>2, Zenon DEF Uses, Owned, Filled, Filling, Chosen
<1>7. LockStep(w) /\ NoPanic' /\ bg' = bg /\ en' = en /\ UNCHANGED counts
  BY <1>1, Zenon DEF LockStep, NoPanic, counts
<1> QED BY <1>2, <1>4, <1>5, <1>6, <1>7, PlainStep, ZenonT(60)

\* A dirty victim is written, or the write fails.
LEMMA WriteVictimStep ==
    ASSUME PinInv, NEW w \in Procs, writeVictim(w) PROVE GoodStep(w)
<1>1. /\ TypeOK /\ JobInv(w) /\ proc[w].pc = "writeVictim" /\ wmu = w /\ proc[w].vic \in Frames
  BY Known, ZenonT(60) DEF writeVictim, At, JobInv, Locked, Chosen
<1>2. UNCHANGED <<CacheMap, en, latch, counts, bg, history, panic>>
  BY ZenonT(60) DEF writeVictim
<1>3. ASSUME Goto(w, "unmap"), wmu' = wmu, disk' \in [Pages -> Versions], freeList' \subseteq Pages
      PROVE  GoodStep(w)
  <2>1. proc' \in [Procs -> Proc]
    BY <1>1, <1>3, GotoFacts, ZenonT(60) DEF Stages
  <2>2. TypeOK'
    BY <1>1, <1>2, <1>3, <2>1, Zenon DEF TypeOK, counts, history
  <2> QED BY <1>1, <1>2, <1>3, <2>2, ChosenStep, ZenonT(60) DEF Chosen
<1>4. CASE Goto(w, "unmap") /\ UNCHANGED <<disk, freeList, wmu>>
  BY <1>1, <1>3, <1>4, Zenon DEF TypeOK
<1>5. CASE /\ WritePage(en[proc[w].vic].key, en[proc[w].vic].data, en[proc[w].vic].dead)
           /\ Goto(w, "unmap") /\ wmu' = wmu
  <2>1. en[proc[w].vic].key \in Pages \cup {Nil} /\ en[proc[w].vic].data \in Versions
    BY <1>1, EntryFields, ZenonT(60) DEF TypeOK
  <2> QED BY <1>1, <1>3, <1>5, <2>1, WritePageType, ZenonT(60)
<1>6. CASE Fail(w) /\ UNCHANGED <<disk, freeList>>
  <2>1. TypeOK'
    BY <1>1, <1>2, <1>6, DoneFacts, Zenon DEF TypeOK, counts, history, Fail
  <2> QED BY <1>1, <1>2, <1>6, <2>1, FailStep, ZenonT(60)
<1> QED BY <1>4, <1>5, <1>6, ZenonT(60) DEF writeVictim

\* The victim is removed from the hash table.
LEMMA UnmapStep ==
    ASSUME PinInv, NEW w \in Procs, unmapVictim(w) PROVE GoodStep(w)
<1>1. /\ TypeOK /\ JobInv(w) /\ proc[w].pc = "unmap" /\ proc[w].vic \in Frames
  BY Known, ZenonT(60) DEF unmapVictim, At, JobInv, Chosen
<1>2. UNCHANGED <<en, latch, counts, wmu, bg, disk, freeList, history, panic>> /\ Goto(w, "reset")
  BY ZenonT(60) DEF unmapVictim
<1>3. CacheMap' \in [Pages -> Frames \cup {Nil}]
  BY <1>1, ZenonT(60) DEF unmapVictim, TypeOK
<1>4. proc' \in [Procs -> Proc]
  BY <1>1, <1>2, GotoFacts, ZenonT(60) DEF Stages
<1>5. TypeOK'
  BY <1>1, <1>2, <1>3, <1>4, Zenon DEF TypeOK, counts, history
<1> QED BY <1>1, <1>2, <1>5, ChosenStep, ZenonT(60) DEF Chosen

\* resetVictim: one victim is vacated, the other goes to probation or stays there.
Wiped(e) == [Cleared(e) EXCEPT !.marked = FALSE]

\* Wiped leaves an entry that is free.
LEMMA WipedFacts ==
    ASSUME NEW e \in Entry
    PROVE  /\ Wiped(e) \in Entry
           /\ Wiped(e).pins = 0 /\ ~Wiped(e).acc /\ ~Wiped(e).occ /\ ~Wiped(e).marked
           /\ Wiped(e).seg = "unassigned" /\ Wiped(e).key = Nil /\ ~Wiped(e).dirty
           /\ Wiped(e).dead = e.dead
<1>1. PICK c \in Entry : c = Cleared(e)
  BY ClearedFacts, Zenon
<1>2. PICK u : u = Wiped(e)
  OBVIOUS
<1>3. u = [c EXCEPT !.marked = FALSE]
  BY <1>1, <1>2, Zenon DEF Wiped
<1>4. u \in Entry
  BY <1>1, <1>3, ZenonT(60) DEF Entry
<1>5. /\ ~u.marked /\ u.pins = c.pins /\ u.acc = c.acc /\ u.occ = c.occ /\ u.seg = c.seg
      /\ u.key = c.key /\ u.dirty = c.dirty /\ u.dead = c.dead
  BY <1>1, <1>3, Zenon DEF Entry
<1> QED BY <1>1, <1>2, <1>4, <1>5, ClearedFacts, Zenon

\* resetVictim: one victim is cleared, the other released into probation.
LEMMA ResetStep ==
    ASSUME PinInv, NEW w \in Procs, resetVictim(w) PROVE GoodStep(w)
<1>1. /\ TypeOK /\ JobInv(w) /\ FrameInv(w) /\ NoPanic /\ proc[w] \in Proc /\ Nil \notin Frames
      /\ proc[w].pc = "reset" /\ w # Nil
  BY Known, Zenon DEF resetVictim, At
<1>2. PICK v \in Frames, o \in Frames :
        v = proc[w].vic /\ o = IF v = proc[w].wind THEN proc[w].main ELSE proc[w].wind
  BY <1>1, ZenonT(60) DEF JobInv, Chosen
<1>3. /\ {v, o} = {proc[w].wind, proc[w].main} /\ wmu = w /\ proc[w].pid \in Pages
      /\ proc[w].op # "delete" /\ windowCount = WindowCap
  BY <1>1, <1>2, ZenonT(60) DEF JobInv, Chosen, Locked, Evicting
<1>4. /\ v # o
      /\ \/ en[v].seg = "window" /\ en[o].seg = "probation"
         \/ en[v].seg = "probation" /\ en[o].seg = "window"
  BY <1>1, <1>2, <1>3, ZenonT(60) DEF FrameInv
<1>5. EntryInv(v) /\ EntryInv(o) /\ en[v] \in Entry /\ en[o] \in Entry
  BY <1>1, Zenon DEF PinInv, TypeOK
<1>6. en[o].pins > 0 /\ en[o].acc
  <2>1. w \in Holders(o)
    BY <1>3, ZenonT(60) DEF Holders
  <2> QED BY <1>5, <2>1, UsedIsPinned, ZenonT(60)
<1>7. en' = [en EXCEPT ![v] = Wiped(en[v]), ![o] = Released(en[o], "window", "probation")]
  BY <1>1, <1>2, <1>4, Zenon DEF resetVictim, Released, Wiped, TypeOK
<1>8. Wiped(en[v]) \in Entry /\ Released(en[o], "window", "probation") \in Entry
  BY <1>5, <1>6, ReleasedFacts, WipedFacts, ZenonT(60) DEF Segments
<1>9. /\ en' \in [Frames -> Entry] /\ en'[v] = Wiped(en[v])
      /\ en'[o] = Released(en[o], "window", "probation")
      /\ \A g \in Frames \ {v, o} : en'[g] = en[g]
  BY <1>1, <1>4, <1>7, <1>8, Zenon DEF TypeOK
<1>10. /\ en'[o].pins = en[o].pins - 1 /\ (en'[o].acc <=> en'[o].pins > 0)
       /\ en'[o].seg = "probation" /\ en'[o].dead = en[o].dead
  <2>1. "window" \in Segments /\ "probation" \in Segments
    BY Zenon DEF Segments
  <2>2. PICK r : r = Released(en[o], "window", "probation")
    OBVIOUS
  <2>3. /\ r.pins = en[o].pins - 1 /\ (r.acc <=> r.pins > 0) /\ r.dead = en[o].dead
        /\ en[o].seg = "window" => r.seg = "probation"
        /\ en[o].seg # "window" => r.seg = en[o].seg
    BY <1>5, <1>6, <2>1, <2>2, ReleasedFacts
  <2>4. r.seg = "probation"
    BY <1>4, <2>3, ZenonT(60)
  <2> QED BY <1>9, <2>2, <2>3, <2>4, ZenonT(60)
<1>11. /\ en'[v].pins = 0 /\ ~en'[v].acc /\ en'[v].seg = "unassigned" /\ ~en'[v].occ
       /\ en'[v].dead = en[v].dead
  BY <1>5, <1>9, WipedFacts, Zenon
<1>12. PICK p : p = [proc[w] EXCEPT !.wind = Nil, !.main = Nil, !.vic = Nil, !.pc = "take"]
  OBVIOUS
<1>13. p \in Proc
  BY <1>1, <1>12, ZenonT(60) DEF Proc
<1>14. p.pc = "take" /\ p.wind = Nil /\ p.main = Nil /\ p.op = proc[w].op /\ p.pid = proc[w].pid
  BY <1>1, <1>12, Zenon DEF Proc
<1>15. proc' \in [Procs -> Proc] /\ proc'[w] = p /\ \A x \in Procs \ {w} : proc'[x] = proc[x]
  BY <1>1, <1>12, <1>13, Zenon DEF TypeOK, resetVictim
<1>16. /\ windowCount' = windowCount - 1 /\ bg' = bg
       /\ UNCHANGED <<probationCount, protectedCount, wmu>>
  BY Zenon DEF resetVictim
<1>17. windowCount' \in Nat /\ windowCount' < WindowCap /\ windowCount' <= WindowCap
  <2>1. windowCount' = WindowCap - 1 /\ WindowCap \in Nat \ {0}
    BY <1>3, <1>16, CapAssumption, Zenon
  <2> QED BY <2>1
<1>18. NoPanic' /\ panic' \in BOOLEAN
  BY <1>2, <1>6, ZenonT(60) DEF resetVictim, CanUnref, NoPanic
<1>19. TypeOK'
  BY <1>1, <1>9, <1>15, <1>17, <1>18, ZenonT(60) DEF TypeOK, history, resetVictim
<1>20. JobInv(w)'
  BY <1>3, <1>14, <1>15, <1>16, <1>17, Zenon DEF JobInv, Locked, Evicting, Chosen, Filled, Filling
<1>21. FrameInv(w)'
  BY <1>14, <1>15, ZenonT(60) DEF FrameInv, Filled, Filling
<1>22. /\ \A g \in Frames : ~Uses(w, g)' /\ ~Owned(w, g)'
       /\ Uses(w, o) /\ Owned(w, v) /\ Owned(w, o)
  BY <1>1, <1>3, <1>14, <1>15, ZenonT(60) DEF Uses, Owned, Filled, Filling
<1>23. Touch(w, v)
  <2>1. PinStep(w, v)
    <3>1. ~(en'[v].pins > 0)
      BY <1>11
    <3> QED BY <1>11, <1>22, <3>1, ZenonT(60) DEF PinStep
  <2>2. GrabStep(w, v)
    BY <1>22, Zenon DEF GrabStep
  <2>3. FieldStep(w, v)
    BY <1>3, <1>5, <1>11, <1>22, ZenonT(60) DEF FieldStep, EntryInv
  <2> QED BY <2>1, <2>2, <2>3, Zenon DEF Touch
<1>24. Touch(w, o)
  <2>1. PinStep(w, o)
    BY <1>10, <1>22, ZenonT(60) DEF PinStep
  <2>2. GrabStep(w, o)
    BY <1>22, Zenon DEF GrabStep
  <2>3. FieldStep(w, o)
    BY <1>3, <1>5, <1>10, <1>22, ZenonT(60) DEF FieldStep, EntryInv
  <2> QED BY <2>1, <2>2, <2>3, Zenon DEF Touch
<1>25. \A g \in Frames : Touch(w, g)
  BY <1>9, <1>22, <1>23, <1>24, Untouched, Zenon
<1>26. MainStep
  <2>1. InSegment("probation")' = InSegment("probation") \/ Swaps("probation")
    <3>1. CASE en[v].seg = "window" /\ en[o].seg = "probation"
      BY <1>9, <1>10, <1>11, <3>1, Zenon DEF InSegment
    <3>2. CASE en[v].seg = "probation" /\ en[o].seg = "window"
      BY <1>4, <1>9, <1>10, <1>11, <3>2, SegmentStep, Zenon
    <3> QED BY <1>4, <3>1, <3>2, Zenon
  <2>2. InSegment("protected")' = InSegment("protected")
    BY <1>4, <1>9, <1>10, <1>11, Zenon DEF InSegment
  <2> QED BY <1>16, <2>1, <2>2, Zenon DEF MainCountsExact, PinInv, MainStep, CountStep
<1>27. LockStep(w)
  BY <1>3, <1>16, Zenon DEF LockStep
<1> QED BY <1>15, <1>16, <1>17, <1>18, <1>19, <1>20, <1>21, <1>25, <1>26, <1>27, Zenon DEF GoodStep

\* takeFrame: a free entry joins the window, marked and pinned.
Taken(e) == [Victim(e) EXCEPT !.seg = "window"]

\* Taken changes segment, pin and mark and nothing else.
LEMMA TakenFacts ==
    ASSUME NEW e \in Entry
    PROVE  /\ Taken(e) \in Entry
           /\ Taken(e).pins = e.pins + 1 /\ Taken(e).acc /\ Taken(e).marked
           /\ Taken(e).seg = "window" /\ Taken(e).occ = e.occ /\ Taken(e).dead = e.dead
           /\ Taken(e).key = e.key /\ Taken(e).dirty = e.dirty /\ Taken(e).data = e.data
<1>1. PICK v \in Entry : v = Victim(e)
  BY VictimFacts, Zenon
<1>2. PICK u : u = Taken(e)
  OBVIOUS
<1>3. u = [v EXCEPT !.seg = "window"]
  BY <1>1, <1>2, Zenon DEF Taken
<1>4. u \in Entry
  BY <1>1, <1>3, Zenon DEF Entry, Segments
<1>5. /\ u.seg = "window" /\ u.pins = v.pins /\ u.acc = v.acc /\ u.occ = v.occ
      /\ u.marked = v.marked /\ u.dead = v.dead /\ u.key = v.key /\ u.dirty = v.dirty
      /\ u.data = v.data
  BY <1>1, <1>3, Zenon DEF Entry
<1> QED BY <1>1, <1>2, <1>4, <1>5, VictimFacts, Zenon

\* What a miss knows of the frame it was given.
LEMMA FillingFrame ==
    ASSUME NEW w, NEW p, proc'[w] = p, p.pc \in Filling, p.wind = Nil, p.main = Nil,
           ~en'[p.fr].occ, en'[p.fr].seg = "window", p.pc = "latch" => en'[p.fr].marked
    PROVE  FrameInv(w)'
  BY Zenon DEF FrameInv, Filled, Filling

\* takeFrame finds a free entry.
LEMMA TakeOne ==
    ASSUME PinInv, NEW w \in Procs, proc[w].pc = "take", NEW f \in Frames,
           Eligible(f, "unassigned"), en' = [en EXCEPT ![f] = [Victim(@) EXCEPT !.seg = "window"]],
           windowCount' = windowCount + 1,
           proc' = [proc EXCEPT ![w].fr = f, ![w].pc = "latch"], wmu' = Nil,
           UNCHANGED <<CacheMap, latch, probationCount, protectedCount, bg, disk, freeList,
                       history, panic>>
    PROVE  GoodStep(w)
<1>1. /\ TypeOK /\ JobInv(w) /\ NoPanic /\ proc[w] \in Proc /\ Nil \notin Frames /\ w # Nil
  BY Known, Zenon
<1>2. /\ proc[w].wind = Nil /\ proc[w].main = Nil /\ wmu = w /\ proc[w].pid \in Pages
      /\ proc[w].op # "delete" /\ windowCount < WindowCap
  BY <1>1, Zenon DEF JobInv, Chosen, Locked, Evicting
<1>3. /\ EntryInv(f) /\ en[f] \in Entry /\ ~en[f].acc /\ en[f].seg = "unassigned"
      /\ en[f].pins \in Nat
  BY <1>1, EntryFields, Zenon DEF Eligible, PinInv, TypeOK
<1>4. Taken(en[f]) \in Entry
  BY <1>3, TakenFacts, Zenon
<1>5. /\ en' \in [Frames -> Entry] /\ en'[f] = Taken(en[f])
      /\ \A g \in Frames \ {f} : en'[g] = en[g]
  BY <1>1, <1>4, Zenon DEF TypeOK, Taken
<1>6. /\ en'[f].pins = en[f].pins + 1 /\ en'[f].acc /\ en'[f].marked
      /\ en'[f].seg = "window" /\ en'[f].occ = en[f].occ /\ en'[f].dead = en[f].dead
  <2>1. PICK e \in Entry : e = en[f]
    BY <1>3, Zenon
  <2>2. PICK t : t = Taken(e)
    OBVIOUS
  <2>3. /\ t.pins = e.pins + 1 /\ t.acc /\ t.marked /\ t.seg = "window" /\ t.occ = e.occ
        /\ t.dead = e.dead
    BY <2>2, TakenFacts, Zenon
  <2> QED BY <1>5, <2>1, <2>2, <2>3, ZenonT(60)
<1>7. PICK p : p = [proc[w] EXCEPT !.fr = f, !.pc = "latch"]
  OBVIOUS
<1>8. p \in Proc
  BY <1>1, <1>7, ZenonT(60) DEF Proc
<1>9. /\ p.pc = "latch" /\ p.wind = Nil /\ p.main = Nil /\ p.fr = f
      /\ p.op = proc[w].op /\ p.pid = proc[w].pid
  BY <1>1, <1>2, <1>7, Zenon DEF Proc
<1>10. proc' \in [Procs -> Proc] /\ proc'[w] = p /\ \A x \in Procs \ {w} : proc'[x] = proc[x]
  BY <1>1, <1>7, <1>8, Zenon DEF TypeOK
<1>11. windowCount' \in Nat /\ windowCount' <= WindowCap
  BY <1>1, <1>2, CapAssumption DEF TypeOK
<1>12. TypeOK'
  BY <1>1, <1>5, <1>10, <1>11, Zenon DEF TypeOK, history
<1>13. JobInv(w)'
  BY <1>1, <1>2, <1>9, <1>10, Zenon DEF JobInv, Locked, Evicting, Chosen, Filled, Filling
<1>14. ~en'[f].occ
  BY <1>3, <1>6, Zenon DEF EntryInv
<1>15. FrameInv(w)'
  <2>1. /\ proc'[w] = p /\ p.pc \in Filling /\ p.wind = Nil /\ p.main = Nil /\ ~en'[p.fr].occ
        /\ en'[p.fr].seg = "window" /\ (p.pc = "latch" => en'[p.fr].marked)
    BY <1>6, <1>9, <1>10, <1>14, Zenon DEF Filling
  <2> QED BY <2>1, FillingFrame, ZenonT(60)
<1>16. \A g \in Frames \ {f} : ~Uses(w, g)' /\ ~Owned(w, g)'
  BY <1>1, <1>9, <1>10, ZenonT(60) DEF Uses, Owned, Filled, Filling
<1>17. PinStep(w, f)
  BY <1>3, <1>6 DEF PinStep
<1>18. GrabStep(w, f)
  BY <1>3, Zenon DEF GrabStep
<1>19. FieldStep(w, f)
  BY <1>3, <1>6, Zenon DEF FieldStep, EntryInv
<1>20. MainStep
  <2>1. \A g \in Frames : \A s \in {"probation", "protected"} : en'[g].seg = s <=> en[g].seg = s
    BY <1>3, <1>5, <1>6, Zenon
  <2> QED BY <2>1, CountsKept, Zenon DEF PinInv
<1>21. LockStep(w) /\ NoPanic' /\ bg' = bg
  BY <1>1, <1>2, Zenon DEF LockStep, NoPanic
<1> QED
  BY <1>5, <1>10, <1>11, <1>12, <1>13, <1>15, <1>16, <1>17, <1>18, <1>19, <1>20, <1>21, OneStep, Zenon

\* takeFrame: a free entry, or an error.
LEMMA TakeStep ==
    ASSUME PinInv, NEW w \in Procs, takeFrame(w) PROVE GoodStep(w)
<1>1. /\ TypeOK /\ JobInv(w) /\ proc[w].pc = "take" /\ wmu = w
  BY Known, Zenon DEF takeFrame, At, JobInv, Locked
<1>2. UNCHANGED <<CacheMap, latch, probationCount, protectedCount, bg, disk, freeList, history, panic>>
  BY Zenon DEF takeFrame
<1>3. ASSUME NEW f \in Frames, Eligible(f, "unassigned"),
             en' = [en EXCEPT ![f] = [Victim(@) EXCEPT !.seg = "window"]],
             windowCount' = windowCount + 1,
             proc' = [proc EXCEPT ![w].fr = f, ![w].pc = "latch"], wmu' = Nil
      PROVE  GoodStep(w)
  BY <1>1, <1>2, <1>3, TakeOne, ZenonT(60)
<1>4. CASE Fail(w) /\ UNCHANGED <<en, windowCount>>
  <2>1. TypeOK'
    BY <1>1, <1>2, <1>4, DoneFacts, Zenon DEF TypeOK, history, Fail
  <2> QED BY <1>1, <1>2, <1>4, <2>1, FailStep, Zenon DEF counts
<1> QED BY <1>3, <1>4, ZenonT(60) DEF takeFrame

-----------------------------------------------------------------------------
(* The frame that a miss fills.                                            *)

\* Acquire unmarks it.
LEMMA AcquireStep ==
    ASSUME PinInv, NEW w \in Procs, Acquire(w) PROVE GoodStep(w)
<1>1. /\ TypeOK /\ JobInv(w) /\ FrameInv(w) /\ NoPanic /\ proc[w] \in Proc /\ Nil \notin Frames
      /\ proc[w].pc = "latch"
  BY Known, Zenon DEF Acquire, At
<1>2. PICK f \in Frames : f = proc[w].fr
  BY <1>1, Zenon DEF JobInv, Filling
<1>3. /\ proc[w].wind = Nil /\ proc[w].main = Nil /\ wmu # w /\ proc[w].pid \in Pages
      /\ proc[w].op # "delete"
  BY <1>1, Zenon DEF JobInv, Chosen, Locked
<1>4. ~en[f].occ /\ en[f].seg = "window" /\ EntryInv(f) /\ en[f] \in Entry
  BY <1>1, <1>2, ZenonT(60) DEF FrameInv, Filling, PinInv, TypeOK
<1>5. /\ proc' \in [Procs -> Proc] /\ \A x \in Procs \ {w} : proc'[x] = proc[x]
      /\ proc'[w].pc = "read" /\ proc'[w].op = proc[w].op /\ proc'[w].pid = proc[w].pid
      /\ proc'[w].fr = f /\ proc'[w].wind = Nil /\ proc'[w].main = Nil
  BY <1>1, <1>2, <1>3, GotoFacts, Zenon DEF Stages, Acquire
<1>6. PICK e : e = [en[f] EXCEPT !.marked = FALSE]
  BY ZenonT(60)
<1>7. /\ e \in Entry /\ e.occ = en[f].occ /\ e.seg = en[f].seg /\ e.dead = en[f].dead
      /\ e.pins = en[f].pins /\ e.acc = en[f].acc
  BY <1>4, <1>6, ZenonT(60) DEF Entry
<1>8. en' \in [Frames -> Entry] /\ en'[f] = e /\ \A g \in Frames \ {f} : en'[g] = en[g]
  BY <1>1, <1>2, <1>6, <1>7, ZenonT(60) DEF TypeOK, Acquire
<1>9. latch' \in [Frames -> Procs \cup {Nil}]
  BY <1>1, ZenonT(60) DEF TypeOK, Acquire
<1>10. TypeOK'
  BY <1>1, <1>5, <1>8, <1>9, Zenon DEF TypeOK, Acquire, counts, history
<1>11. UNCHANGED <<counts, wmu, bg, panic>>
  BY Zenon DEF Acquire
<1>12. JobInv(w)'
  BY <1>2, <1>3, <1>5, <1>11, Zenon DEF JobInv, Locked, Evicting, Chosen, Filled, Filling
<1>13. FrameInv(w)'
  BY <1>4, <1>5, <1>7, <1>8, FillingFrame, Zenon DEF Filling
<1>14. /\ \A g \in Frames : (Uses(w, g)' => Uses(w, g)) /\ (Owned(w, g)' => Owned(w, g))
       /\ Owned(w, f)
  BY <1>1, <1>2, <1>3, <1>5, Zenon DEF Uses, Owned, Filled, Filling
<1>15. PinStep(w, f)
  BY <1>4, <1>7, <1>8, <1>14, Zenon DEF PinStep, EntryInv
<1>16. GrabStep(w, f)
  BY <1>14, Zenon DEF GrabStep
<1>17. FieldStep(w, f)
  BY <1>4, <1>7, <1>8, <1>14, Zenon DEF FieldStep, EntryInv
<1>18. MainStep /\ windowCount' <= WindowCap
  <2>1. \A g \in Frames : en'[g].seg = en[g].seg
    BY <1>7, <1>8, Zenon
  <2> QED BY <1>11, <2>1, CountsKept, Zenon DEF PinInv, counts
<1>19. LockStep(w) /\ NoPanic' /\ bg' = bg
  BY <1>1, <1>11, Zenon DEF LockStep, NoPanic, counts
<1> QED
  BY <1>5, <1>8, <1>10, <1>12, <1>13, <1>14, <1>15, <1>16, <1>17, <1>18, <1>19, OneStep, Zenon

\* ReadPage and NewPage occupy it.
LEMMA FillStep ==
    ASSUME PinInv, NEW w \in Procs, proc[w].pc = "read", Goto(w, "put"), NEW f \in Frames,
           f = proc[w].fr, NEW e \in Entry, en' = [en EXCEPT ![f] = e], e.occ, ~e.dead,
           e.pins = en[f].pins, e.acc = en[f].acc, e.seg = en[f].seg, e.marked = en[f].marked,
           latest' \in [Pages -> Versions],
           UNCHANGED <<CacheMap, latch, counts, wmu, bg, disk, freeList, jobs, writes, panic>>
    PROVE  GoodStep(w)
<1>1. /\ TypeOK /\ JobInv(w) /\ FrameInv(w) /\ NoPanic /\ proc[w] \in Proc /\ Nil \notin Frames
  BY Known, ZenonT(60)
<1>2. /\ proc[w].wind = Nil /\ proc[w].main = Nil /\ wmu # w /\ proc[w].pid \in Pages
      /\ proc[w].op # "delete"
  BY <1>1, ZenonT(60) DEF JobInv, Chosen, Locked
<1>3. en[f].seg = "window" /\ EntryInv(f)
  BY <1>1, ZenonT(60) DEF FrameInv, Filling, PinInv
<1>4. /\ proc' \in [Procs -> Proc] /\ \A x \in Procs \ {w} : proc'[x] = proc[x]
      /\ proc'[w].pc = "put" /\ proc'[w].op = proc[w].op /\ proc'[w].pid = proc[w].pid
      /\ proc'[w].fr = f /\ proc'[w].wind = Nil /\ proc'[w].main = Nil
  BY <1>1, <1>2, GotoFacts, ZenonT(60) DEF Stages
<1>5. en' \in [Frames -> Entry] /\ en'[f] = e /\ \A g \in Frames \ {f} : en'[g] = en[g]
  BY <1>1, Zenon DEF TypeOK
<1>6. TypeOK'
  BY <1>1, <1>4, <1>5, Zenon DEF TypeOK, counts
<1>7. JobInv(w)'
  BY <1>2, <1>4, ZenonT(60) DEF JobInv, Locked, Evicting, Chosen, Filled, Filling
<1>8. FrameInv(w)'
  BY <1>4, <1>5, Zenon DEF FrameInv, Filled, Filling
<1>9. /\ \A g \in Frames : (Uses(w, g)' => Uses(w, g)) /\ (Owned(w, g)' => Owned(w, g))
      /\ Owned(w, f)
  BY <1>1, <1>2, <1>4, Zenon DEF Uses, Owned, Filled, Filling
<1>10. PinStep(w, f)
  BY <1>3, <1>5, <1>9, ZenonT(60) DEF PinStep, EntryInv
<1>11. GrabStep(w, f)
  BY <1>9, Zenon DEF GrabStep
<1>12. FieldStep(w, f)
  BY <1>3, <1>5, <1>9, Zenon DEF FieldStep
<1>13. MainStep /\ windowCount' <= WindowCap
  <2>1. \A g \in Frames : en'[g].seg = en[g].seg
    BY <1>5, ZenonT(60)
  <2> QED BY <2>1, CountsKept, Zenon DEF PinInv, counts
<1>14. LockStep(w) /\ NoPanic' /\ bg' = bg
  BY <1>1, ZenonT(60) DEF LockStep, NoPanic, counts
<1> QED
  BY <1>4, <1>5, <1>6, <1>7, <1>8, <1>9, <1>10, <1>11, <1>12, <1>13, <1>14, OneStep, ZenonT(60)

\* ... or the read fails, and it is given back.
LEMMA ReadFails ==
    ASSUME PinInv, NEW w \in Procs, proc[w].pc = "read", Done(w), NEW f \in Frames,
           f = proc[w].fr, en' = [en EXCEPT ![f] = Cleared(@)],
           latch' \in [Frames -> Procs \cup {Nil}],
           UNCHANGED <<CacheMap, counts, wmu, bg, disk, freeList, history, panic>>
    PROVE  GoodStep(w)
<1>1. /\ TypeOK /\ JobInv(w) /\ FrameInv(w) /\ NoPanic /\ proc[w] \in Proc /\ Nil \notin Frames
  BY Known, Zenon
<1>2. wmu # w /\ Owned(w, f)
  BY <1>1, Zenon DEF JobInv, Locked, Owned, Filling
<1>3. en[f].seg = "window" /\ EntryInv(f) /\ en[f] \in Entry
  BY <1>1, ZenonT(60) DEF FrameInv, Filling, PinInv, TypeOK
<1>4. /\ proc' \in [Procs -> Proc] /\ proc'[w] = Idle
      /\ \A x \in Procs \ {w} : proc'[x] = proc[x]
  BY <1>1, DoneFacts, Zenon
<1>5. JobInv(w)' /\ FrameInv(w)' /\ \A g \in Frames : ~Uses(w, g)' /\ ~Owned(w, g)'
  BY <1>2, <1>4, IdleHolds, Zenon
<1>6. /\ Cleared(en[f]) \in Entry /\ Cleared(en[f]).pins = 0 /\ ~Cleared(en[f]).acc
      /\ ~Cleared(en[f]).occ /\ Cleared(en[f]).seg = "unassigned"
      /\ Cleared(en[f]).dead = en[f].dead
  BY <1>3, ClearedFacts, Zenon
<1>7. /\ en' \in [Frames -> Entry] /\ en'[f] = Cleared(en[f])
      /\ \A g \in Frames \ {f} : en'[g] = en[g]
  BY <1>1, <1>6, Zenon DEF TypeOK
<1>8. TypeOK'
  BY <1>1, <1>4, <1>7, Zenon DEF TypeOK, counts, history
<1>9. PinStep(w, f)
  <2>1. en'[f].pins = 0 /\ ~en'[f].acc /\ ~(en'[f].pins > 0)
    <3>1. ~(0 > 0)
      OBVIOUS
    <3> QED BY <1>6, <1>7, <3>1, Zenon
  <2> QED BY <1>2, <1>5, <2>1, Zenon DEF PinStep
<1>10. GrabStep(w, f)
  BY <1>5, Zenon DEF GrabStep
<1>11. FieldStep(w, f)
  BY <1>2, <1>3, <1>6, <1>7, ZenonT(60) DEF FieldStep, EntryInv
<1>12. MainStep /\ windowCount' <= WindowCap
  <2>1. \A g \in Frames : \A s \in {"probation", "protected"} : en'[g].seg = s <=> en[g].seg = s
    BY <1>3, <1>6, <1>7, ZenonT(60)
  <2> QED BY <2>1, CountsKept, ZenonT(60) DEF PinInv, counts
<1>13. LockStep(w) /\ NoPanic' /\ bg' = bg
  BY <1>1, Zenon DEF LockStep, NoPanic, counts
<1> QED BY <1>4, <1>5, <1>7, <1>8, <1>9, <1>10, <1>11, <1>12, <1>13, OneStep, ZenonT(60)

\* ReadPage: the page is read, or the frame given back.
LEMMA ReadStep ==
    ASSUME PinInv, NEW w \in Procs, ReadPage(w) PROVE GoodStep(w)
<1>1. /\ TypeOK /\ JobInv(w) /\ proc[w].pc = "read" /\ proc[w].pid \in Pages
  BY Known, ZenonT(60) DEF ReadPage, At, JobInv
<1>2. PICK f \in Frames : f = proc[w].fr
  BY <1>1, Zenon DEF JobInv, Filling
<1>3. UNCHANGED <<CacheMap, counts, wmu, bg, disk, freeList, history, panic>>
  BY Zenon DEF ReadPage
<1>4. CASE /\ en' = [en EXCEPT ![f].data = disk[proc[w].pid], ![f].key = proc[w].pid,
                               ![f].occ = TRUE, ![f].dead = FALSE]
           /\ Goto(w, "put") /\ latch' = latch
  <2>1. PICK e : e = [en[f] EXCEPT !.data = disk[proc[w].pid], !.key = proc[w].pid,
                                   !.occ = TRUE, !.dead = FALSE]
    OBVIOUS
  <2>2. disk[proc[w].pid] \in Versions /\ en[f] \in Entry
    BY <1>1, Zenon DEF TypeOK
  <2>3. e \in Entry
    BY <1>1, <2>1, <2>2, ZenonT(60) DEF Entry
  <2>4. /\ e.occ /\ ~e.dead /\ e.pins = en[f].pins /\ e.acc = en[f].acc /\ e.seg = en[f].seg
        /\ e.marked = en[f].marked
    BY <2>1, <2>2, Zenon DEF Entry
  <2>5. en' = [en EXCEPT ![f] = e]
    BY <1>1, <1>4, <2>1, ZenonT(60) DEF TypeOK
  <2>6. latest' \in [Pages -> Versions] /\ UNCHANGED <<jobs, writes>>
    BY <1>1, <1>3, Zenon DEF history, TypeOK
  <2> QED BY <1>1, <1>2, <1>3, <1>4, <2>3, <2>4, <2>5, <2>6, FillStep, ZenonT(60)
<1>5. CASE /\ en' = [en EXCEPT ![f] = Cleared(@)]
           /\ latch' = [latch EXCEPT ![f] = Nil] /\ Done(w)
  <2>1. latch' \in [Frames -> Procs \cup {Nil}]
    BY <1>1, <1>5, Zenon DEF TypeOK
  <2> QED BY <1>1, <1>2, <1>3, <1>5, <2>1, ReadFails, ZenonT(60)
<1> QED BY <1>2, <1>4, <1>5, Zenon DEF ReadPage

\* NewPage fills the frame with a new page.
LEMMA NewPageStep ==
    ASSUME PinInv, NEW w \in Procs, NewPage(w) PROVE GoodStep(w)
<1>1. /\ TypeOK /\ JobInv(w) /\ proc[w].pc = "read" /\ proc[w].pid \in Pages
  BY Known, ZenonT(60) DEF NewPage, At, JobInv
<1>2. PICK f \in Frames : f = proc[w].fr
  BY <1>1, ZenonT(60) DEF JobInv, Filling
<1>3. /\ UNCHANGED <<CacheMap, latch, counts, wmu, bg, disk, freeList, jobs, writes, panic>>
      /\ Goto(w, "put")
  BY Zenon DEF NewPage
<1>4. PICK e : e = [en[f] EXCEPT !.data = 1, !.key = proc[w].pid, !.occ = TRUE, !.dead = FALSE,
                                 !.dirty = TRUE]
  OBVIOUS
<1>5. 1 \in Versions /\ en[f] \in Entry
  BY <1>1, ShardAssumption DEF TypeOK, Versions
<1>6. e \in Entry
  BY <1>1, <1>4, <1>5, ZenonT(60) DEF Entry
<1>7. /\ e.occ /\ ~e.dead /\ e.pins = en[f].pins /\ e.acc = en[f].acc /\ e.seg = en[f].seg
      /\ e.marked = en[f].marked
  BY <1>4, <1>5, Zenon DEF Entry
<1>8. en' = [en EXCEPT ![f] = e]
  BY <1>1, <1>2, <1>4, ZenonT(60) DEF TypeOK, NewPage
<1>9. latest' \in [Pages -> Versions]
  BY <1>1, <1>5, Zenon DEF TypeOK, NewPage
<1> QED BY <1>1, <1>2, <1>3, <1>6, <1>7, <1>8, <1>9, FillStep, ZenonT(60)

\* put looks the page up once more.
LEMMA PutStep ==
    ASSUME PinInv, NEW w \in Procs, put(w) PROVE GoodStep(w)
<1>1. /\ TypeOK /\ JobInv(w) /\ FrameInv(w) /\ NoPanic /\ proc[w] \in Proc /\ Nil \notin Frames
      /\ proc[w].pc = "put"
  BY Known, Zenon DEF put, At
<1>2. PICK val \in Frames \cup {Nil} : val = CacheMap[proc[w].pid]
  BY <1>1, Zenon DEF JobInv, TypeOK
<1>3. PICK pc \in {"store", "putInc"} : pc = IF val = Nil THEN "store" ELSE "putInc"
  OBVIOUS
<1>4. PICK p : p = [proc[w] EXCEPT !.inc = val, !.pc = pc]
  OBVIOUS
<1>5. p \in Proc
  BY <1>1, <1>4, ZenonT(60) DEF Proc
<1>6. /\ p.pc = pc /\ p.inc = val /\ p.fr = proc[w].fr /\ p.op = proc[w].op
      /\ p.pid = proc[w].pid /\ p.wind = proc[w].wind /\ p.main = proc[w].main
  BY <1>1, <1>4, Zenon DEF Proc
<1>7. proc' \in [Procs -> Proc] /\ proc'[w] = p /\ \A x \in Procs \ {w} : proc'[x] = proc[x]
  BY <1>1, <1>2, <1>3, <1>4, <1>5, Zenon DEF TypeOK, put
<1>8. UNCHANGED <<CacheMap, en, latch, counts, wmu, bg, disk, freeList, history, panic>>
  BY Zenon DEF put
<1>9. TypeOK'
  BY <1>1, <1>7, <1>8, Zenon DEF TypeOK, counts, history
<1>10. /\ p.wind = Nil /\ p.main = Nil /\ wmu' # w /\ p.fr \in Frames /\ p.pid \in Pages
       /\ p.op # "delete" /\ en'[p.fr].occ
  BY <1>1, <1>6, <1>8, Zenon DEF JobInv, FrameInv, Chosen, Locked, Filled
<1>11. JobInv(w)'
  BY <1>2, <1>3, <1>6, <1>7, <1>10, Zenon DEF JobInv, Locked, Evicting, Chosen, Filled, Filling
<1>12. FrameInv(w)'
  BY <1>3, <1>6, <1>7, <1>10, Zenon DEF FrameInv, Filled, Filling
<1>13. \A g \in Frames : (Uses(w, g)' => Uses(w, g)) /\ ~Owned(w, g)'
  BY <1>1, <1>3, <1>6, <1>7, <1>10, Zenon DEF Uses, Owned, Filled, Filling
<1>14. LockStep(w) /\ NoPanic' /\ bg' = bg /\ en' = en /\ UNCHANGED counts
  BY <1>1, <1>8, Zenon DEF LockStep, NoPanic, counts
<1> QED BY <1>7, <1>9, <1>11, <1>12, <1>13, <1>14, PlainStep, Zenon

\* The page is mapped to its frame.
LEMMA StoreStep ==
    ASSUME PinInv, NEW w \in Procs, Store(w) PROVE GoodStep(w)
<1>1. /\ TypeOK /\ JobInv(w) /\ FrameInv(w) /\ NoPanic /\ proc[w] \in Proc /\ Nil \notin Frames
      /\ proc[w].pc = "store"
  BY Known, ZenonT(60) DEF Store, At
<1>2. /\ proc[w].wind = Nil /\ proc[w].main = Nil /\ wmu # w /\ proc[w].fr \in Frames
      /\ proc[w].pid \in Pages /\ proc[w].op # "delete" /\ en[proc[w].fr].occ
  BY <1>1, Zenon DEF JobInv, FrameInv, Chosen, Locked, Filled
<1>3. /\ Goto(w, "hold") /\ latch' = [latch EXCEPT ![proc[w].fr] = Nil]
      /\ CacheMap' = [CacheMap EXCEPT ![proc[w].pid] = proc[w].fr]
      /\ UNCHANGED <<en, counts, wmu, bg, disk, freeList, history, panic>>
  BY <1>2, ZenonT(60) DEF Store
<1>4. /\ proc' \in [Procs -> Proc] /\ \A x \in Procs \ {w} : proc'[x] = proc[x]
      /\ proc'[w].pc = "hold" /\ proc'[w].op = proc[w].op /\ proc'[w].pid = proc[w].pid
      /\ proc'[w].fr = proc[w].fr /\ proc'[w].wind = Nil /\ proc'[w].main = Nil
  BY <1>1, <1>2, <1>3, GotoFacts, ZenonT(60) DEF Stages
<1>5. CacheMap' \in [Pages -> Frames \cup {Nil}] /\ latch' \in [Frames -> Procs \cup {Nil}]
  BY <1>1, <1>2, <1>3, Zenon DEF TypeOK
<1>6. TypeOK'
  BY <1>1, <1>3, <1>4, <1>5, ZenonT(60) DEF TypeOK, counts, history
<1>7. JobInv(w)'
  BY <1>2, <1>3, <1>4, Zenon DEF JobInv, Locked, Evicting, Chosen, Filled, Filling
<1>8. FrameInv(w)'
  BY <1>2, <1>3, <1>4, ZenonT(60) DEF FrameInv, Filled, Filling
<1>9. \A g \in Frames : (Uses(w, g)' => Uses(w, g)) /\ ~Owned(w, g)'
  BY <1>1, <1>2, <1>4, Zenon DEF Uses, Owned, Filled, Filling
<1>10. LockStep(w) /\ NoPanic' /\ bg' = bg /\ en' = en /\ UNCHANGED counts
  BY <1>1, <1>3, ZenonT(60) DEF LockStep, NoPanic, counts
<1> QED BY <1>4, <1>6, <1>7, <1>8, <1>9, <1>10, PlainStep, ZenonT(60)

-----------------------------------------------------------------------------
(* The page of a frame.                                                    *)

\* Pins, marks and segments do not change the page of an entry.
LEMMA KeyOps ==
    ASSUME NEW e \in Entry
    PROVE  /\ Pinned(e).key = e.key /\ Unpinned(e).key = e.key /\ Victim(e).key = e.key
           /\ \A s, t : Moved(e, s, t).key = e.key
           /\ [Victim(e) EXCEPT !.seg = "window"].key = e.key
<1>1. Pinned(e).key = e.key /\ Unpinned(e).key = e.key
  BY Zenon DEF Pinned, Unpinned, Entry
<1>2. Victim(e).key = e.key /\ Victim(e) \in Entry
  BY VictimFacts, Zenon
<1>3. ASSUME NEW s, NEW t PROVE Moved(e, s, t).key = e.key
  BY Zenon DEF Moved, Entry
<1>4. [Victim(e) EXCEPT !.seg = "window"].key = e.key
  BY <1>2, Zenon DEF Entry
<1> QED BY <1>1, <1>2, <1>3, <1>4, Zenon

\* An entry that is replaced by one of the same page.
LEMMA KeyOne ==
    ASSUME TypeOK, NEW f, NEW r, en' = [en EXCEPT ![f] = r], f \in Frames => r.key = en[f].key
    PROVE  \A g \in Frames : en'[g].key = en[g].key
  BY Zenon DEF TypeOK

\* A step of a job changes the page of an entry only while the job has it to itself:
\* as a victim, or as the frame of its miss.
LEMMA JobKeys ==
    ASSUME PinInv, NEW w \in Procs, Start(w) \/ Worker(w) \/ Write(w) \/ Unreference(w)
    PROVE  \A g \in Frames : en'[g].key = en[g].key \/ Owned(w, g)
<1>1. /\ TypeOK /\ JobInv(w) /\ \A f \in Frames : en[f] \in Entry
      /\ ~reference(w) /\ ~MarkDead(w) /\ ~unref(w)
  BY Known, Zenon DEF JobInv, reference, MarkDead, unref, At, TypeOK
<1>2. CASE Start(w) \/ Load(w) \/ getFreeFrame(w) \/ writeVictim(w) \/ unmapVictim(w) \/ put(w) \/ Store(w)
  BY <1>2, ZenonT(60) DEF Start, Load, getFreeFrame, writeVictim, unmapVictim, put, Store
<1>3. CASE refIfOccupied(w)
  BY <1>1, <1>3, KeyOne, KeyOps DEF refIfOccupied
<1>4. CASE HitDead(w) \/ Unreference(w)
  BY <1>1, <1>4, KeyOne, KeyOps, SMTT(60) DEF HitDead, Unreference
<1>5. CASE Hit(w) \/ putIncrement(w)
  <2>1. PICK e : en' = [en EXCEPT ![e] = Moved(en[e], "unassigned", "window")]
    BY <1>5, Zenon DEF Hit, putIncrement, Increment
  <2>2. e \in Frames => Moved(en[e], "unassigned", "window").key = en[e].key
    BY <1>1, KeyOps
  <2> QED BY <1>1, <2>1, <2>2, KeyOne, Zenon
<1>6. CASE promoteToProtected(w)
  <2>1. CASE en' = en
    BY <2>1, Zenon
  <2>2. CASE en' = [en EXCEPT ![proc[w].inc].seg = "protected"]
    BY <1>1, <2>2, Zenon DEF TypeOK, Entry
  <2>3. ASSUME NEW f \in Frames, en' = [en EXCEPT ![f] = Victim(@)]
        PROVE  \A g \in Frames : en'[g].key = en[g].key
    BY <1>1, <2>3, KeyOne, KeyOps, Zenon
  <2> QED BY <1>6, <2>1, <2>2, <2>3, ZenonT(60) DEF promoteToProtected
<1>7. CASE swapProtected(w)
  <2> SUFFICES ASSUME NEW g \in Frames, g # proc[w].main PROVE en'[g].key = en[g].key
    BY Zenon DEF Owned
  <2>1. CASE g = proc[w].inc
    BY <1>1, <1>7, <2>1, KeyOps DEF swapProtected, TypeOK
  <2>2. CASE g # proc[w].inc
    BY <1>1, <1>7, <2>2, Zenon DEF swapProtected, TypeOK
  <2> QED BY <2>1, <2>2, Zenon
<1>8. CASE evictWindow(w)
  <2>1. ASSUME NEW f \in Frames, en' = [en EXCEPT ![f] = Victim(@)]
        PROVE  \A g \in Frames : en'[g].key = en[g].key
    BY <1>1, <2>1, KeyOne, KeyOps, Zenon
  <2> QED BY <1>8, <2>1, ZenonT(60) DEF evictWindow
<1>9. CASE moveToProbation(w)
  BY <1>1, <1>9, Zenon DEF moveToProbation, TypeOK, Owned
<1>10. CASE pickMain(w)
  <2>1. ASSUME NEW f \in Frames, en' = [en EXCEPT ![f] = Victim(@)]
        PROVE  \A g \in Frames : en'[g].key = en[g].key
    BY <1>1, <2>1, KeyOne, KeyOps, Zenon
  <2>2. ASSUME NEW f \in Frames, en' = [en EXCEPT ![f].marked = TRUE]
        PROVE  \A g \in Frames : en'[g].key = en[g].key
    BY <1>1, <2>2, Zenon DEF TypeOK, Entry
  <2>3. ASSUME en' = [en EXCEPT ![proc[w].wind] = Unpinned(@)]
        PROVE  \A g \in Frames : en'[g].key = en[g].key
    BY <1>1, <2>3, KeyOne, KeyOps, Zenon
  <2> QED BY <1>10, <2>1, <2>2, <2>3, ZenonT(60) DEF pickMain
<1>11. CASE resetVictim(w)
  <2>1. proc[w].vic \in {proc[w].wind, proc[w].main}
    BY <1>1, <1>11, Zenon DEF JobInv, Chosen, resetVictim, At
  <2> SUFFICES ASSUME NEW g \in Frames, g # proc[w].wind, g # proc[w].main PROVE en'[g] = en[g]
    BY Zenon DEF Owned
  <2> QED BY <1>1, <1>11, <2>1, Zenon DEF resetVictim, TypeOK
<1>12. CASE takeFrame(w)
  <2>1. ASSUME NEW f \in Frames, en' = [en EXCEPT ![f] = [Victim(@) EXCEPT !.seg = "window"]]
        PROVE  \A g \in Frames : en'[g].key = en[g].key
    BY <1>1, <2>1, KeyOne, KeyOps, Zenon
  <2> QED BY <1>12, <2>1, ZenonT(60) DEF takeFrame
<1>13. CASE Acquire(w) \/ ReadPage(w) \/ NewPage(w)
  <2>1. Owned(w, proc[w].fr)
    BY <1>13, ZenonT(60) DEF Acquire, ReadPage, NewPage, At, Owned, Filling
  <2>2. ASSUME NEW g \in Frames, g # proc[w].fr PROVE en'[g] = en[g]
    BY <1>1, <1>13, <2>2, ZenonT(60) DEF Acquire, ReadPage, NewPage, TypeOK
  <2> QED BY <2>1, <2>2, Zenon
<1>14. CASE Write(w)
  BY <1>1, <1>14, Zenon DEF Write, TypeOK, Entry
<1> QED BY <1>1, <1>2, <1>3, <1>4, <1>5, <1>6, <1>7, <1>8, <1>9, <1>10, <1>11, <1>12, <1>13, <1>14, ZenonT(60)
        DEF Worker

\* The background writer changes no page.
LEMMA BgKeys ==
    ASSUME PinInv, BgWriter
    PROVE  \A g \in Frames : en'[g].key = en[g].key
<1>1. TypeOK /\ \A f \in Frames : en[f] \in Entry
  BY Zenon DEF PinInv, TypeOK
<1>2. CASE refIfNotReferenced
  <2>1. ASSUME NEW f \in Frames, en' = [en EXCEPT ![f] = Pinned(@)]
        PROVE  \A g \in Frames : en'[g].key = en[g].key
    BY <1>1, <2>1, KeyOne, KeyOps, Zenon
  <2> QED BY <1>2, <2>1, ZenonT(60) DEF refIfNotReferenced
<1>3. CASE en' = [en EXCEPT ![bg.fr] = Unpinned(@)]
  BY <1>1, <1>3, KeyOne, KeyOps, Zenon
<1>4. CASE en' = [en EXCEPT ![bg.fr].dirty = FALSE]
  BY <1>1, <1>4, Zenon DEF TypeOK, Entry
<1> QED BY <1>2, <1>3, <1>4, Zenon DEF BgWriter, bgCopy, bgWrite

-----------------------------------------------------------------------------
(* All steps together.                                                     *)

\* Every step of a job, as long as no page is deleted, does only what it may.
LEMMA JobGood ==
    ASSUME PinInv, NEW w \in Procs, Start(w) \/ Worker(w) \/ Write(w) \/ Unreference(w),
           "delete" \notin Ops
    PROVE  GoodStep(w)
<1>1. CASE Start(w) \/ Write(w) \/ Unreference(w)
  BY <1>1, StartStep, WriteStep, UnreferenceStep, Zenon
<1>2. CASE Worker(w)
  <2>1. ~reference(w) /\ ~MarkDead(w) /\ ~unref(w)
    BY Known, Zenon DEF JobInv, reference, MarkDead, unref, At
  <2>2. CASE Load(w) \/ refIfOccupied(w) \/ HitDead(w) \/ Hit(w) \/ putIncrement(w)
    BY <2>2, LoadStep, RefStep, HitStep, Zenon
  <2>3. CASE promoteToProtected(w) \/ swapProtected(w) \/ getFreeFrame(w) \/ evictWindow(w)
    BY <2>3, PromoteStep, SwapStep, GetFreeStep, EvictStep, Zenon
  <2>4. CASE moveToProbation(w) \/ pickMain(w) \/ writeVictim(w) \/ unmapVictim(w)
    BY <2>4, MoveStep, PickStep, WriteVictimStep, UnmapStep, Zenon
  <2>5. CASE resetVictim(w) \/ takeFrame(w) \/ Acquire(w) \/ ReadPage(w)
    BY <2>5, ResetStep, TakeStep, AcquireStep, ReadStep, Zenon
  <2>6. CASE NewPage(w) \/ put(w) \/ Store(w)
    BY <2>6, NewPageStep, PutStep, StoreStep, Zenon
  <2> QED BY <1>2, <2>1, <2>2, <2>3, <2>4, <2>5, <2>6, Zenon DEF Worker
<1> QED BY <1>1, <1>2, Zenon

\* So does every step of the background writer.
LEMMA BgGood ==
    ASSUME PinInv, BgWriter \/ UNCHANGED vars PROVE GoodBgStep
  BY RefIfNotStep, BgCopyStep, BgWriteStep, StutterStep, Zenon DEF BgWriter

\* What a caller was handed stays what it is as long as the caller holds it.
LEMMA HeldStep ==
    ASSUME PinInv, PinInv', [Next]_vars, "delete" \notin Ops,
           NEW w \in Procs, proc[w].pc = "hold", proc'[w].pc = "hold"
    PROVE  en'[proc[w].fr].key = en[proc[w].fr].key /\ en'[proc[w].fr].occ
<1>1. /\ TypeOK /\ JobInv(w) /\ w # Nil /\ FrameInv(w)'
      /\ \A x \in Procs : Sole(x)
  BY Known, ZenonT(60) DEF PinInv
<1>2. PICK f \in Frames : f = proc[w].fr
  BY <1>1, ZenonT(60) DEF JobInv, Filled
<1>3. w \in Holders(f)
  BY <1>2, Zenon DEF Holders
<1>4. proc[w].wind = Nil /\ proc[w].main = Nil /\ f # Nil
  BY <1>1, ShardAssumption, Zenon DEF JobInv, Chosen
<1>5. ASSUME proc'[w].fr = f PROVE en'[f].occ
  BY <1>1, <1>5, ZenonT(60) DEF FrameInv, Filled
<1>6. ASSUME NEW x \in Procs, Start(x) \/ Worker(x) \/ Write(x) \/ Unreference(x)
      PROVE  en'[f].key = en[f].key /\ proc'[w].fr = f
  <2>1. ~Owned(x, f)
    BY <1>1, <1>3, <1>4, Zenon DEF Sole, Owned, Filling
  <2>2. en'[f].key = en[f].key
    BY <1>6, <2>1, JobKeys, ZenonT(60)
  <2>3. CASE x # w
    <3>1. GoodStep(x)
      BY <1>6, JobGood, Zenon
    <3> QED BY <1>2, <2>2, <2>3, <3>1, Zenon DEF GoodStep
  <2>4. CASE x = w
    <3>1. ~Start(w) /\ ~Worker(w)
      BY Zenon DEF Start, Worker, At, Load, refIfOccupied, HitDead, Hit, promoteToProtected,
             swapProtected, getFreeFrame, evictWindow, moveToProbation, pickMain, writeVictim,
             unmapVictim, resetVictim, takeFrame, Acquire, ReadPage, NewPage, put,
             putIncrement, Store, reference, MarkDead, unref
    <3>2. ~Unreference(w)
      BY <1>1 DEF Unreference, Done, Idle, TypeOK
    <3>3. Write(w)
      BY <1>6, <2>4, <3>1, <3>2, Zenon
    <3> QED BY <1>2, <2>2, <3>3, Zenon DEF Write
  <2> QED BY <2>3, <2>4, ZenonT(60)
<1>7. CASE BgWriter
  <2>1. en'[f].key = en[f].key
    BY <1>7, BgKeys, Zenon
  <2>2. GoodBgStep
    BY <1>7, BgGood, Zenon
  <2> QED BY <1>2, <1>5, <2>1, <2>2, Zenon DEF GoodBgStep
<1>8. CASE UNCHANGED vars
  BY <1>2, <1>5, <1>8, Zenon DEF vars
<1> QED BY <1>2, <1>5, <1>6, <1>7, <1>8, Zenon DEF Next

\* The invariant is inductive.
LEMMA PinNext ==
    ASSUME PinInv, [Next]_vars, "delete" \notin Ops, Counting PROVE PinInv'
<1>1. ASSUME NEW w \in Procs, Start(w) \/ Worker(w) \/ Write(w) \/ Unreference(w) PROVE PinInv'
  BY <1>1, JobGood, JobKeeps, Zenon
<1>2. CASE BgWriter \/ UNCHANGED vars
  BY <1>2, BgGood, BgKeeps, Zenon
<1> QED BY <1>1, <1>2, Zenon DEF Next

-----------------------------------------------------------------------------
(* The pins count the users, and the counters count the segments.          *)

INSTANCE FiniteSetTheorems

\* A set that gains at most one member grows by at most one (Pinned).
LEMMA Gain ==
    ASSUME NEW S, IsFiniteSet(S), NEW x, NEW T, T \subseteq S \cup {x}, NEW p \in Nat,
           Cardinality(S) <= p
    PROVE  IsFiniteSet(T) /\ Cardinality(T) <= p + 1
<1>1. /\ IsFiniteSet(S \cup {x}) /\ Cardinality(S) \in Nat
      /\ Cardinality(S \cup {x}) = IF x \in S THEN Cardinality(S) ELSE Cardinality(S) + 1
  BY FS_AddElement, FS_CardinalityType, Zenon
<1>2. /\ IsFiniteSet(T) /\ Cardinality(T) <= Cardinality(S \cup {x}) /\ Cardinality(T) \in Nat
  BY <1>1, FS_Subset, FS_CardinalityType, Zenon
<1> QED BY <1>1, <1>2

\* A set that loses a member is smaller by one (Unpinned).
LEMMA Lose ==
    ASSUME NEW S, IsFiniteSet(S), NEW x \in S, NEW T, T \subseteq S \ {x}, NEW p \in Nat,
           Cardinality(S) <= p
    PROVE  p > 0 /\ IsFiniteSet(T) /\ Cardinality(T) <= p - 1
<1>1. /\ IsFiniteSet(S \ {x}) /\ Cardinality(S) \in Nat
      /\ Cardinality(S \ {x}) = Cardinality(S) - 1
  BY FS_RemoveElement, FS_CardinalityType, Zenon
<1>2. /\ IsFiniteSet(T) /\ Cardinality(T) <= Cardinality(S \ {x}) /\ Cardinality(T) \in Nat
      /\ Cardinality(S \ {x}) \in Nat
  BY <1>1, FS_Subset, FS_CardinalityType, Zenon
<1> QED BY <1>1, <1>2

\* What has members is counted by more than zero.
LEMMA Counted ==
    ASSUME NEW S, IsFiniteSet(S), NEW p \in Nat, Cardinality(S) <= p, S # {}
    PROVE  p > 0
<1>1. Cardinality(S) \in Nat /\ Cardinality(S) # 0
  BY FS_EmptySet, FS_CardinalityType, Zenon
<1> QED BY <1>1

\* As long as the users follow the pins, the pins cover the users.
LEMMA PinsCount ==
    ASSUME NEW S, NEW T, NEW x, NEW p \in Nat, NEW q \in Nat, Follows(S, T, x, p, q),
           IsFiniteSet(S), Cardinality(S) <= p
    PROVE  IsFiniteSet(T) /\ Cardinality(T) <= q /\ (T # {} => q > 0)
<1> SUFFICES IsFiniteSet(T) /\ Cardinality(T) <= q
  BY Counted, Zenon
<1>1. CASE q = p /\ T \subseteq S
  <2>1. IsFiniteSet(T) /\ Cardinality(T) <= Cardinality(S)
    BY <1>1, FS_Subset, ZenonT(60)
  <2>2. Cardinality(T) \in Nat /\ Cardinality(S) \in Nat
    BY <2>1, FS_CardinalityType, Zenon
  <2> QED BY <1>1, <2>1, <2>2
<1>2. CASE q = p + 1 /\ T \subseteq S \cup {x}
  BY <1>2, Gain, ZenonT(60)
<1>3. CASE q = p - 1 /\ x \in S /\ T \subseteq S \ {x}
  BY <1>3, Lose, Zenon
<1>4. CASE T = {}
  BY <1>4, FS_EmptySet
<1> QED BY <1>1, <1>2, <1>3, <1>4, Zenon DEF Follows

\* A counter that follows its segment is exact (WTinyLfu's probationCount and
\* protectedCount).
LEMMA CountKept ==
    ASSUME NEW s, NEW n, n = Cardinality(InSegment(s)), NEW m, CountStep(s, n, m)
    PROVE  m = Cardinality(InSegment(s)') /\ (InSegment(s)' # {} => m > 0)
<1>1. PICK S : S = InSegment(s)
  OBVIOUS
<1>2. PICK T : T = InSegment(s)'
  BY Zenon
<1>3. IsFiniteSet(S) /\ IsFiniteSet(T) /\ n = Cardinality(S)
  BY <1>1, <1>2, FS_Subset, CapAssumption, Zenon DEF InSegment
<1>4. m = Cardinality(T)
  <2>1. CASE m = n /\ T = S
    BY <1>3, <2>1, Zenon
  <2>2. CASE m = n /\ Swaps(s)
    <3>1. PICK f, h : f \in S /\ h \notin S /\ T = (S \ {f}) \cup {h}
      BY <1>1, <1>2, <2>2, Zenon DEF Swaps
    <3>2. PICK R : R = S \ {f}
      BY ZenonT(60)
    <3>3. IsFiniteSet(R) /\ Cardinality(R) = Cardinality(S) - 1 /\ Cardinality(S) \in Nat
      <4>1. IsFiniteSet(R) /\ Cardinality(R) = Cardinality(S) - 1
        BY <1>3, <3>1, <3>2, FS_RemoveElement, Zenon
      <4>2. Cardinality(S) \in Nat
        BY <1>3, FS_CardinalityType, Zenon
      <4> QED BY <4>1, <4>2, Zenon
    <3>4. Cardinality(R \cup {h}) = Cardinality(R) + 1
      BY <3>1, <3>2, <3>3, FS_AddElement, ZenonT(60)
    <3> QED BY <1>3, <2>2, <3>1, <3>2, <3>3, <3>4
  <2>3. CASE m = n + 1 /\ Grows(s)
    <3>1. PICK f : f \notin S /\ T = S \cup {f}
      BY <1>1, <1>2, <2>3, Zenon DEF Grows
    <3>2. Cardinality(T) = Cardinality(S) + 1
      BY <1>3, <3>1, FS_AddElement, ZenonT(60)
    <3> QED BY <1>3, <2>3, <3>2, Zenon
  <2>4. CASE m = n - 1 /\ Shrinks(s)
    <3>1. PICK f \in S : T = S \ {f}
      BY <1>1, <1>2, <2>4, Zenon DEF Shrinks
    <3>2. Cardinality(T) = Cardinality(S) - 1
      BY <1>3, <3>1, FS_RemoveElement, ZenonT(60)
    <3> QED BY <1>3, <2>4, <3>2, Zenon
  <2> QED BY <1>1, <1>2, <2>1, <2>2, <2>3, <2>4, Zenon DEF CountStep
<1>5. Cardinality(T) \in Nat /\ (T # {} => Cardinality(T) # 0)
  BY <1>3, FS_CardinalityType, FS_EmptySet, Zenon
<1> QED BY <1>2, <1>4, <1>5

\* What the invariant needs to know of cardinalities is true.
LEMMA CountingHolds == Counting
<1>1. IsFiniteSet({}) /\ Cardinality({}) = 0
  BY FS_EmptySet, Zenon
<1> QED BY <1>1, PinsCount, CountKept, Zenon DEF Counting

\* The invariant holds of every run without DeletePage.
LEMMA PinInvariant ==
    ASSUME "delete" \notin Ops PROVE Spec => []PinInv
<1>1. Init => PinInv
  BY PinInit, CountingHolds, Zenon
<1>2. PinInv /\ [Next]_vars => PinInv'
  BY PinNext, CountingHolds, Zenon
<1> QED BY <1>1, <1>2, PTL DEF Spec

-----------------------------------------------------------------------------
(* The theorems.                                                           *)

\* No goroutine of the shard panics: unref always finds a pin, and neither the window
\* nor probation ever exceeds its capacity, for any number of callers, pages and
\* frames, as long as no page is deleted.
THEOREM NeverPanics ==
    ASSUME "delete" \notin Ops PROVE Spec => []NoPanic
<1>1. PinInv => NoPanic
  BY Zenon DEF PinInv
<1> QED BY <1>1, PinInvariant, PTL

\* probationCount and protectedCount are the numbers of entries in the two segments,
\* and within capacity, whatever promotions and evictions interleave.
THEOREM MainCountsAreExact ==
    ASSUME "delete" \notin Ops PROVE Spec => []MainCountsExact
<1>1. PinInv => MainCountsExact
  BY Zenon DEF PinInv
<1> QED BY <1>1, PinInvariant, PTL

\* Every caller, eviction and writer at work on an entry has a pin of its own on it.
THEOREM PinsCover ==
    ASSUME "delete" \notin Ops PROVE Spec => []PinsCoverHolders
<1>1. PinInv => PinsCoverHolders
  BY Zenon DEF PinInv, EntryInv, PinsCoverHolders
<1> QED BY <1>1, PinInvariant, PTL

\* A frame that a caller holds is neither evicted nor given another page before
\* Unreference.
THEOREM HeldStaysStable ==
    ASSUME "delete" \notin Ops PROVE Spec => HeldIsStable
<1>1. PinInv /\ PinInv' /\ [Next]_vars =>
        [\A w \in Procs : proc[w].pc = "hold" /\ proc'[w].pc = "hold"
            => /\ en'[proc[w].fr].key = en[proc[w].fr].key
               /\ en'[proc[w].fr].occ]_vars
  BY HeldStep, Zenon
<1> QED BY <1>1, PinInvariant, PTL DEF Spec, HeldIsStable
=============================================================================
