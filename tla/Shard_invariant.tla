-------------------------- MODULE Shard_invariant ---------------------------
(***************************************************************************)
(* The inductive invariant of the shard: what a step may do to the         *)
(* entries, the counters and the jobs, why such a step keeps the           *)
(* invariant, and that the hit path, the callers and the background writer *)
(* take only such steps.  Module Shard_proofs does the same for misses and *)
(* evictions, and draws the conclusions.                                   *)
(***************************************************************************)
EXTENDS Shard, TLAPS

-----------------------------------------------------------------------------
(* The inductive invariant.                                                *)

\* The stages with WTinyLfu.mu held, those that evict, and those that rely on
\* their frame.
Locked == {"swap", "evict", "move", "pickMain", "writeVictim", "unmap", "reset", "take"}
Evicting == {"evict", "move", "pickMain", "writeVictim", "unmap", "reset"}
Chosen == {"writeVictim", "unmap", "reset"}
Filled == {"hit", "promote", "swap", "put", "putInc", "store", "hold"}
Filling == {"latch", "read"}

\* Whether w is one of Holders(f).
Uses(w, f) == \/ proc[w].fr = f /\ proc[w].pc \in Filled \cup Filling \cup {"markDead", "unref"}
              \/ f \in {proc[w].wind, proc[w].main}

\* The frames that a job has to itself: its victims, and the frame it fills.
Owned(w, f) == \/ f \in {proc[w].wind, proc[w].main}
               \/ proc[w].fr = f /\ proc[w].pc \in Filling

\* What a job knows at each stage, and what the lock protects.
JobInv(w) ==
    LET p == proc[w]
    IN  /\ p.op # "delete" /\ p.pc \notin {"reference", "markDead", "unref"}
        /\ p.pc # "idle" => p.pid \in Pages
        /\ p.pc = "load" => p.op = "get"
        /\ p.pc \in Filled \cup Filling \cup {"ref"} => p.fr \in Frames
        /\ p.pc \in {"promote", "swap", "putInc"} => p.inc \in Frames
        /\ p.wind # Nil => p.pc \in {"move", "pickMain"} \cup Chosen
        /\ p.main # Nil => p.pc \in {"swap"} \cup Chosen
        /\ p.pc \in {"move"} \cup Chosen => p.wind \in Frames
        /\ p.pc \in {"swap"} \cup Chosen => p.main \in Frames
        /\ p.pc \in Chosen => p.vic \in {p.wind, p.main}
        /\ p.pc = "swap" => p.main # p.fr
        /\ p.pc \in Locked <=> wmu = w
        /\ p.pc \in Evicting => windowCount = WindowCap
        /\ p.pc = "take" => windowCount < WindowCap
        /\ p.pc = "move" => probationCount < ProbationCap

\* Nobody else holds a frame that it owns.
Sole(w) == \A f \in Frames : Owned(w, f) => Holders(f) \subseteq {w}

\* The entries that it works on.
FrameInv(w) ==
    LET p == proc[w]
    IN  /\ p.pc \in Filled => en[p.fr].occ
        /\ p.pc \in Filling => ~en[p.fr].occ /\ en[p.fr].seg = "window"
        /\ p.pc = "latch" => en[p.fr].marked
        /\ p.wind # Nil => en[p.wind].marked /\ en[p.wind].seg = "window"
        /\ p.main # Nil => /\ en[p.main].marked
                           /\ en[p.main].seg = IF p.pc = "swap" THEN "protected" ELSE "probation"
        /\ p.pc = "swap" => en[p.inc].seg = "probation"

EntryInv(f) ==
    /\ ~en[f].dead
    /\ en[f].seg = "unassigned" => ~en[f].occ
    /\ IsFiniteSet(Holders(f))
    /\ Cardinality(Holders(f)) <= en[f].pins
    /\ Holders(f) # {} => en[f].pins > 0
    /\ en[f].acc <=> en[f].pins > 0

BgInv == (bg.pc # "idle" <=> bg.fr # Nil) /\ ~bg.dead

PinInv ==
    /\ TypeOK
    /\ \A w \in Procs : JobInv(w) /\ Sole(w) /\ FrameInv(w)
    /\ \A f \in Frames : EntryInv(f)
    /\ BgInv /\ MainCountsExact
    /\ \A f \in Frames : en[f].seg = "probation" => probationCount > 0
    /\ windowCount <= WindowCap
    /\ NoPanic

-----------------------------------------------------------------------------
(* What a step of job w may do.                                            *)

\* The counters change only under the lock.
LockStep(w) == \/ UNCHANGED <<wmu, windowCount, probationCount>>
               \/ wmu \in {Nil, w} /\ wmu' \in {Nil, w}

\* The pins of f follow the uses of it by w.
PinStep(w, f) ==
    /\ en'[f].acc <=> en'[f].pins > 0
    /\ \/ en'[f].pins = en[f].pins /\ (Uses(w, f)' => Uses(w, f))
       \/ en'[f].pins = en[f].pins + 1
       \/ en'[f].pins = en[f].pins - 1 /\ Uses(w, f) /\ ~Uses(w, f)'
       \/ en'[f].pins = 0 /\ Owned(w, f) /\ ~Uses(w, f)'

\* w begins to use f only if it is free, or occupied and not marked; it owns f only
\* if it was free.
GrabStep(w, f) ==
    /\ Uses(w, f)' => Uses(w, f) \/ ~en[f].acc \/ (en[f].occ /\ ~en[f].marked)
    /\ Owned(w, f)' => Owned(w, f) \/ ~en[f].acc

SameFields(f) == /\ en'[f].occ = en[f].occ
                 /\ en'[f].marked = en[f].marked
                 /\ en'[f].seg = en[f].seg

\* It changes the entries that it owns, or that are free, or moves one that is in no
\* segment or on probation.
FieldStep(w, f) ==
    /\ ~en'[f].dead
    /\ en'[f].seg = "unassigned" => ~en'[f].occ
    /\ \/ SameFields(f)
       \/ Owned(w, f)
       \/ ~en[f].acc
       \/ /\ en'[f].occ = en[f].occ /\ en'[f].marked = en[f].marked
          /\ en[f].seg \in {"unassigned", "probation"}
    /\ en[f].seg = "probation" /\ en'[f].seg # en[f].seg => wmu \in {Nil, w}

Touch(w, f) == PinStep(w, f) /\ GrabStep(w, f) /\ FieldStep(w, f)

\* A segment gains an entry, loses one, or has one take the place of another.
Grows(s) == \E f \in Frames \ InSegment(s) : InSegment(s)' = InSegment(s) \cup {f}
Shrinks(s) == \E f \in InSegment(s) : InSegment(s)' = InSegment(s) \ {f}
Swaps(s) == \E f \in InSegment(s), h \in Frames \ InSegment(s) :
                InSegment(s)' = (InSegment(s) \ {f}) \cup {h}

\* The counter of segment s, n before the step and m after it, follows the segment.
CountStep(s, n, m) == \/ m = n /\ (InSegment(s)' = InSegment(s) \/ Swaps(s))
                      \/ m = n + 1 /\ Grows(s)
                      \/ m = n - 1 /\ Shrinks(s)

MainStep ==
    /\ CountStep("probation", probationCount, probationCount') /\ probationCount' <= ProbationCap
    /\ CountStep("protected", protectedCount, protectedCount') /\ protectedCount' <= ProtectedCap

\* A step of job w does what it may, and its own part of the invariant holds after it.
GoodStep(w) ==
    /\ TypeOK' /\ NoPanic' /\ bg' = bg
    /\ LockStep(w) /\ MainStep /\ windowCount' <= WindowCap
    /\ JobInv(w)' /\ FrameInv(w)'
    /\ \A x \in Procs \ {w} : proc'[x] = proc[x]
    /\ \A f \in Frames : Touch(w, f)

\* The pins of f follow the use of it by the writer, which takes free entries only and
\* changes nothing else that the jobs rely on.
BgTouch(f) ==
    /\ SameFields(f) /\ en'[f].dead = en[f].dead
    /\ en'[f].acc <=> en'[f].pins > 0
    /\ \/ en'[f].pins = en[f].pins /\ (bg'.fr = f => bg.fr = f)
       \/ en'[f].pins = en[f].pins + 1
       \/ en'[f].pins = en[f].pins - 1 /\ bg.fr = f /\ bg'.fr # f
    /\ bg'.fr = f => bg.fr = f \/ ~en[f].acc

GoodBgStep == /\ TypeOK' /\ NoPanic' /\ BgInv' /\ UNCHANGED <<proc, wmu, counts>>
              /\ \A f \in Frames : BgTouch(f)

-----------------------------------------------------------------------------
(* What such a step leaves true of the jobs.                               *)

\* A frame in use is pinned, and one that is not accessed is in nobody's use.
LEMMA UsedIsPinned ==
    ASSUME NEW f, EntryInv(f)
    PROVE  /\ \A x \in Holders(f) : en[f].pins > 0 /\ en[f].acc
           /\ ~en[f].acc => Holders(f) = {}
  BY Zenon DEF EntryInv

\* No entry joins or leaves a main segment.
LEMMA CountsKept ==
    ASSUME PinInv, UNCHANGED <<probationCount, protectedCount>>,
           \A f \in Frames : \A s \in {"probation", "protected"} : en'[f].seg = s <=> en[f].seg = s
    PROVE  MainStep
<1>1. InSegment("probation")' = InSegment("probation")
  BY Zenon DEF InSegment
<1>2. InSegment("protected")' = InSegment("protected")
  BY Zenon DEF InSegment
<1> QED BY <1>1, <1>2, Zenon DEF MainStep, CountStep, PinInv, MainCountsExact

\* A step of w moves nobody but w in or out of Holders.
LEMMA HoldersStep ==
    ASSUME NEW w \in Procs, \A x \in Procs \ {w} : proc'[x] = proc[x], bg' = bg, NEW f
    PROVE  /\ \A x : x # w => (x \in Holders(f)' <=> x \in Holders(f))
           /\ w \in Holders(f) <=> Uses(w, f)
           /\ w \in Holders(f)' <=> Uses(w, f)'
<1>1. w # Nil
  BY ShardAssumption, Zenon
<1> QED BY <1>1, Zenon DEF Holders, Uses, Filled, Filling

\* What the jobs know survives a step that changes the counters under the lock only.
LEMMA JobsKept ==
    ASSUME NEW w \in Procs, \A x \in Procs \ {w} : proc'[x] = proc[x], LockStep(w),
           NEW x \in Procs \ {w}, JobInv(x)
    PROVE  JobInv(x)'
<1>1. x # Nil /\ x # w /\ proc'[x] = proc[x]
  BY ShardAssumption, Zenon
<1>2. CASE UNCHANGED <<wmu, windowCount, probationCount>>
  BY <1>1, <1>2 DEF JobInv
<1>3. CASE wmu \in {Nil, w} /\ wmu' \in {Nil, w}
  <2>1. proc[x].pc \notin Locked
    BY <1>1, <1>3, Zenon DEF JobInv
  <2> QED BY <1>1, <1>3, <2>1, Zenon DEF JobInv, Locked, Evicting, Chosen
<1> QED BY <1>2, <1>3, Zenon DEF LockStep

\* Nobody begins to use a frame that another job owns.
LEMMA SoleKept ==
    ASSUME TypeOK, \A f \in Frames : EntryInv(f),
           NEW w \in Procs, \A x \in Procs \ {w} : proc'[x] = proc[x], bg' = bg,
           \A f \in Frames : GrabStep(w, f),
           NEW x \in Procs, Sole(x), JobInv(x), FrameInv(x)
    PROVE  Sole(x)'
<1> SUFFICES ASSUME NEW f \in Frames, Owned(x, f)' PROVE Holders(f)' \subseteq {x}
  BY ZenonT(60) DEF Sole
<1>1. /\ \A y : y # w => (y \in Holders(f)' <=> y \in Holders(f))
      /\ w \in Holders(f)' <=> Uses(w, f)'
      /\ w \in Holders(f) <=> Uses(w, f)
  BY HoldersStep, ZenonT(60)
<1>2. ~en[f].acc => Holders(f) = {}
  BY UsedIsPinned, ZenonT(60)
<1>3. GrabStep(w, f)
  BY ZenonT(60)
<1>4. CASE x = w
  BY <1>1, <1>2, <1>3, <1>4, Zenon DEF GrabStep, Sole
<1>5. CASE x # w
  <2>1. Owned(x, f)
    BY <1>5, Zenon DEF Owned
  <2>2. Holders(f) \subseteq {x} /\ x \in Holders(f)
    BY <2>1, ZenonT(60) DEF Sole, Owned, Holders, Filling
  <2>3. ~en[f].occ \/ en[f].marked
    BY <2>1, ShardAssumption, ZenonT(60) DEF Owned, FrameInv, JobInv, Filling
  <2> QED BY <1>1, <1>2, <1>3, <1>5, <2>2, <2>3, Zenon DEF GrabStep
<1> QED BY <1>4, <1>5, ZenonT(60)

\* The entries another job works on are left alone.
LEMMA FramesKept ==
    ASSUME TypeOK, \A f \in Frames : EntryInv(f),
           NEW w \in Procs, \A x \in Procs \ {w} : proc'[x] = proc[x],
           \A f \in Frames : FieldStep(w, f), Sole(w),
           NEW x \in Procs \ {w}, JobInv(x), FrameInv(x)
    PROVE  FrameInv(x)'
<1>1. x # Nil /\ x # w /\ proc'[x] = proc[x] /\ Nil \notin Frames /\ proc[x] \in Proc
  BY ShardAssumption, Zenon DEF TypeOK
<1>2. ASSUME NEW f \in Frames, x \in Holders(f)
      PROVE  /\ ~Owned(w, f) /\ en[f].acc
             /\ \/ SameFields(f)
                \/ /\ en'[f].occ = en[f].occ /\ en'[f].marked = en[f].marked
                   /\ en[f].seg \in {"unassigned", "probation"}
  BY <1>1, <1>2, UsedIsPinned, Zenon DEF Sole, FieldStep
<1>3. ASSUME NEW f \in Frames, x \in Holders(f), en[f].seg \in {"window", "protected"}
      PROVE  SameFields(f)
  BY <1>2, <1>3, Zenon DEF SameFields
<1>4. ASSUME NEW f \in Frames, en[f].seg = "probation", wmu = x
      PROVE  en'[f].seg = "probation"
  BY <1>1, <1>4, Zenon DEF FieldStep
<1>5. proc[x].pc \in Filled => en'[proc[x].fr].occ
  BY <1>1, <1>2, ZenonT(60) DEF FrameInv, JobInv, Holders, Filled, SameFields
<1>6. proc[x].pc \in Filling => SameFields(proc[x].fr)
  BY <1>1, <1>3, ZenonT(60) DEF FrameInv, JobInv, Holders, Filling
<1>7. proc[x].wind # Nil => SameFields(proc[x].wind)
  BY <1>1, <1>3, Zenon DEF FrameInv, Holders, Proc
<1>8. proc[x].main # Nil => SameFields(proc[x].main)
  <2> SUFFICES ASSUME proc[x].main # Nil PROVE SameFields(proc[x].main)
    BY ZenonT(60)
  <2>1. proc[x].main \in Frames /\ x \in Holders(proc[x].main)
    BY <1>1, Zenon DEF Holders, Proc
  <2>2. wmu = x
    BY <1>1, Zenon DEF JobInv, Locked, Chosen
  <2> QED BY <1>2, <1>3, <1>4, <2>1, <2>2, ZenonT(60) DEF SameFields, FrameInv
<1>9. proc[x].pc = "swap" => en'[proc[x].inc].seg = "probation"
  BY <1>4, Zenon DEF FrameInv, JobInv, Locked
<1>10. /\ proc[x].pc \in Filling => ~en'[proc[x].fr].occ /\ en'[proc[x].fr].seg = "window"
       /\ proc[x].pc = "latch" => en'[proc[x].fr].marked
  BY <1>6, Zenon DEF FrameInv, SameFields, Filling
<1>11. proc[x].wind # Nil => en'[proc[x].wind].marked /\ en'[proc[x].wind].seg = "window"
  BY <1>7, Zenon DEF FrameInv, SameFields
<1>12. proc[x].main # Nil => /\ en'[proc[x].main].marked
                             /\ en'[proc[x].main].seg = IF proc[x].pc = "swap" THEN "protected" ELSE "probation"
  BY <1>8, Zenon DEF FrameInv, SameFields
<1> QED BY <1>1, <1>5, <1>9, <1>10, <1>11, <1>12, ZenonT(60) DEF FrameInv

\* The users T of an entry with q pins follow the users S that it had with p pins: at
\* most x came or went, with a pin of its own, or nobody is left.
Follows(S, T, x, p, q) == \/ q = p /\ T \subseteq S
                          \/ q = p + 1 /\ T \subseteq S \cup {x}
                          \/ q = p - 1 /\ x \in S /\ T \subseteq S \ {x}
                          \/ T = {}

\* A step of w keeps the pins of an entry in line with its users.
LEMMA UsersFollow ==
    ASSUME NEW f \in Frames, NEW w \in Procs, \A x \in Procs \ {w} : proc'[x] = proc[x],
           bg' = bg, Sole(w), PinStep(w, f)
    PROVE  Follows(Holders(f), Holders(f)', w, en[f].pins, en'[f].pins)
<1>1. PICK H : H = Holders(f)
  OBVIOUS
<1>2. PICK T : T = Holders(f)'
  OBVIOUS
<1>3. /\ \A x : x # w => (x \in T <=> x \in H)
      /\ w \in T <=> Uses(w, f)'
      /\ w \in H <=> Uses(w, f)
  BY <1>1, <1>2, HoldersStep, Zenon
<1>4. CASE en'[f].pins = en[f].pins /\ (Uses(w, f)' => Uses(w, f))
  <2>1. T \subseteq H
    BY <1>3, <1>4, Zenon
  <2> QED BY <1>1, <1>2, <1>4, <2>1, Zenon DEF Follows
<1>5. CASE en'[f].pins = en[f].pins + 1
  <2>1. T \subseteq H \cup {w}
    BY <1>3, Zenon
  <2> QED BY <1>1, <1>2, <1>5, <2>1, Zenon DEF Follows
<1>6. CASE en'[f].pins = en[f].pins - 1 /\ Uses(w, f) /\ ~Uses(w, f)'
  <2>1. w \in H /\ T \subseteq H \ {w}
    BY <1>3, <1>6, Zenon
  <2> QED BY <1>1, <1>2, <1>6, <2>1, Zenon DEF Follows
<1>7. CASE en'[f].pins = 0 /\ Owned(w, f) /\ ~Uses(w, f)'
  <2>1. H \subseteq {w}
    BY <1>1, <1>7, Zenon DEF Sole
  <2>2. T = {}
    BY <1>3, <1>7, <2>1, Zenon
  <2> QED BY <1>2, <2>2, Zenon DEF Follows
<1> QED BY <1>4, <1>5, <1>6, <1>7, ZenonT(60) DEF PinStep

\* So does a step of the background writer.
LEMMA BgFollows ==
    ASSUME NEW f \in Frames, proc' = proc, BgTouch(f)
    PROVE  Follows(Holders(f), Holders(f)', Nil, en[f].pins, en'[f].pins)
<1>1. PICK H : H = Holders(f)
  OBVIOUS
<1>2. PICK T : T = Holders(f)'
  OBVIOUS
<1>3. /\ \A x : x # Nil => (x \in T <=> x \in H)
      /\ Nil \in T <=> bg'.fr = f
      /\ Nil \in H <=> bg.fr = f
  BY <1>1, <1>2, ShardAssumption, Zenon DEF Holders
<1>4. CASE en'[f].pins = en[f].pins /\ (bg'.fr = f => bg.fr = f)
  <2>1. T \subseteq H
    BY <1>3, <1>4, Zenon
  <2> QED BY <1>1, <1>2, <1>4, <2>1, Zenon DEF Follows
<1>5. CASE en'[f].pins = en[f].pins + 1
  <2>1. T \subseteq H \cup {Nil}
    BY <1>3, Zenon
  <2> QED BY <1>1, <1>2, <1>5, <2>1, Zenon DEF Follows
<1>6. CASE en'[f].pins = en[f].pins - 1 /\ bg.fr = f /\ bg'.fr # f
  <2>1. Nil \in H /\ T \subseteq H \ {Nil}
    BY <1>3, <1>6, Zenon
  <2> QED BY <1>1, <1>2, <1>6, <2>1, Zenon DEF Follows
<1> QED BY <1>4, <1>5, <1>6, Zenon DEF BgTouch

\* The entries that the jobs work on survive a step of the background writer.
LEMMA BgFrame ==
    ASSUME TypeOK, proc' = proc, \A f \in Frames : BgTouch(f), NEW x \in Procs, JobInv(x),
           FrameInv(x)
    PROVE  FrameInv(x)'
<1>1. /\ proc[x] \in Proc /\ proc'[x] = proc[x]
      /\ \A f \in Frames : /\ en'[f].occ = en[f].occ /\ en'[f].seg = en[f].seg
                           /\ en'[f].marked = en[f].marked
  BY ZenonT(60) DEF TypeOK, BgTouch, SameFields
<1>2. /\ proc[x].pc \in Filled \cup Filling => proc[x].fr \in Frames
      /\ proc[x].pc = "swap" => proc[x].inc \in Frames
      /\ proc[x].wind # Nil => proc[x].wind \in Frames
      /\ proc[x].main # Nil => proc[x].main \in Frames
  BY <1>1, ZenonT(60) DEF JobInv, Proc
<1>3. proc[x].pc = "latch" => proc[x].pc \in Filling
  BY Zenon DEF Filling
<1>4. /\ proc[x].pc \in Filled => en'[proc[x].fr].occ
      /\ proc[x].pc \in Filling => ~en'[proc[x].fr].occ /\ en'[proc[x].fr].seg = "window"
      /\ proc[x].pc = "latch" => en'[proc[x].fr].marked
  BY <1>1, <1>2, <1>3, ZenonT(60) DEF FrameInv
<1>5. /\ proc[x].wind # Nil => en'[proc[x].wind].marked /\ en'[proc[x].wind].seg = "window"
      /\ proc[x].main # Nil => /\ en'[proc[x].main].marked
                               /\ en'[proc[x].main].seg = IF proc[x].pc = "swap" THEN "protected" ELSE "probation"
      /\ proc[x].pc = "swap" => en'[proc[x].inc].seg = "probation"
  BY <1>1, <1>2, Zenon DEF FrameInv
<1> QED BY <1>1, <1>4, <1>5, ZenonT(60) DEF FrameInv

\* What the jobs know, and that each has its frames to itself, survives a step of one
\* of them.
LEMMA JobsKeep ==
    ASSUME PinInv, NEW w \in Procs, GoodStep(w)
    PROVE  /\ \A x \in Procs : JobInv(x)' /\ Sole(x)' /\ FrameInv(x)'
           /\ BgInv'
           /\ \A f \in Frames : Follows(Holders(f), Holders(f)', w, en[f].pins, en'[f].pins)
<1>1. /\ TypeOK /\ TypeOK' /\ bg' = bg /\ LockStep(w) /\ JobInv(w)' /\ FrameInv(w)'
      /\ \A f \in Frames : EntryInv(f)
      /\ \A x \in Procs : JobInv(x) /\ Sole(x) /\ FrameInv(x)
      /\ \A x \in Procs \ {w} : proc'[x] = proc[x]
      /\ \A f \in Frames : PinStep(w, f) /\ GrabStep(w, f) /\ FieldStep(w, f)
  BY ZenonT(60) DEF PinInv, GoodStep, Touch
<1>2. \A x \in Procs : JobInv(x)'
  BY <1>1, JobsKept, ZenonT(60)
<1>3. \A x \in Procs : Sole(x)'
  BY <1>1, SoleKept, ZenonT(60)
<1>4. \A x \in Procs : FrameInv(x)'
  BY <1>1, FramesKept, ZenonT(60)
<1>5. BgInv'
  BY <1>1, Zenon DEF PinInv, BgInv
<1>6. \A f \in Frames : Follows(Holders(f), Holders(f)', w, en[f].pins, en'[f].pins)
  BY <1>1, UsersFollow, ZenonT(60)
<1> QED BY <1>2, <1>3, <1>4, <1>5, <1>6, Zenon

\* It also survives a step of the background writer.
LEMMA JobsKeepBg ==
    ASSUME PinInv, GoodBgStep
    PROVE  /\ \A x \in Procs : JobInv(x)' /\ Sole(x)' /\ FrameInv(x)'
           /\ MainStep /\ windowCount' <= WindowCap
           /\ \A f \in Frames : Follows(Holders(f), Holders(f)', Nil, en[f].pins, en'[f].pins)
<1>1. /\ TypeOK /\ TypeOK' /\ \A f \in Frames : EntryInv(f)
      /\ \A x \in Procs : JobInv(x) /\ Sole(x) /\ FrameInv(x)
      /\ proc' = proc /\ wmu' = wmu /\ counts' = counts /\ \A f \in Frames : BgTouch(f)
  BY ZenonT(60) DEF PinInv, GoodBgStep
<1>2. \A x \in Procs : JobInv(x)'
  BY <1>1, ZenonT(60) DEF JobInv, counts
<1>3. \A x \in Procs : FrameInv(x)'
  BY <1>1, BgFrame, Zenon
<1>4. \A f \in Frames : Follows(Holders(f), Holders(f)', Nil, en[f].pins, en'[f].pins)
  BY <1>1, BgFollows, Zenon
<1>5. \A x \in Procs : Sole(x)'
  <2> SUFFICES ASSUME NEW x \in Procs, NEW f \in Frames, Owned(x, f)' PROVE Holders(f)' \subseteq {x}
    BY Zenon DEF Sole
  <2>1. Owned(x, f)
    BY <1>1, Zenon DEF Owned
  <2>2. Holders(f) \subseteq {x} /\ x \in Holders(f)
    BY <1>1, <2>1, ZenonT(60) DEF Sole, Owned, Holders, Filling
  <2>3. en[f].acc /\ Nil \notin Procs
    BY <1>1, <2>2, UsedIsPinned, ShardAssumption, ZenonT(60)
  <2>4. bg'.fr # f
    BY <1>1, <2>2, <2>3, ZenonT(60) DEF BgTouch, Holders
  <2> QED BY <1>1, <2>2, <2>4, Zenon DEF Holders
<1>6. MainStep /\ windowCount' <= WindowCap
  <2>1. \A g \in Frames : en'[g].seg = en[g].seg
    BY <1>1, Zenon DEF BgTouch, SameFields
  <2> QED BY <1>1, <2>1, CountsKept, ZenonT(60) DEF PinInv, counts
<1> QED BY <1>2, <1>3, <1>4, <1>5, <1>6, Zenon

\* In a new shard no job has begun, nothing is pinned and no entry is in a segment.
LEMMA InitFacts ==
    ASSUME Init
    PROVE  /\ TypeOK /\ BgInv /\ NoPanic /\ windowCount <= WindowCap
           /\ \A w \in Procs : JobInv(w) /\ Sole(w) /\ FrameInv(w)
           /\ \A f \in Frames : en[f] = Vacant /\ Holders(f) = {}
           /\ InSegment("probation") = {} /\ InSegment("protected") = {}
<1>1. Vacant \in Entry /\ Idle \in Proc
  BY ShardAssumption DEF Vacant, Entry, Versions, Segments, Idle, Proc
<1>2. BgIdle \in [pc : {"idle", "copy", "write"}, fr : Frames \cup {Nil},
                  key : Pages \cup {Nil}, data : Versions, dead : BOOLEAN]
  BY ShardAssumption DEF BgIdle, Versions
<1>3. /\ disk \in [Pages -> Versions] /\ latest \in [Pages -> Versions] /\ freeList \subseteq Pages
      /\ jobs \in 0..MaxJobs /\ writes \in 0..MaxWrites
  BY ShardAssumption DEF Init, Versions
<1>4. TypeOK
  BY <1>1, <1>2, <1>3, ZenonT(60) DEF Init, TypeOK
<1>5. /\ \A w \in Procs : proc[w] = Idle /\ w # Nil
      /\ \A f \in Frames : en[f] = Vacant /\ f # Nil
  BY ShardAssumption, Zenon DEF Init
<1>6. \A w \in Procs : /\ proc[w].pc = "idle" /\ proc[w].op = "get" /\ proc[w].wind = Nil
                       /\ proc[w].main = Nil /\ proc[w].fr = Nil
  BY <1>5 DEF Idle
<1>7. \A f \in Frames : Holders(f) = {}
  BY <1>5, <1>6, Zenon DEF Init, BgIdle, Holders
<1>8. \A w \in Procs : JobInv(w)
  BY <1>5, <1>6, Zenon DEF Init, JobInv, Locked, Chosen, Evicting, Filled, Filling
<1>9. \A w \in Procs : Sole(w) /\ FrameInv(w)
  BY <1>6, <1>7, Zenon DEF Sole, FrameInv, Filled, Filling
<1>10. BgInv /\ NoPanic /\ windowCount <= WindowCap
  BY CapAssumption DEF Init, BgIdle, BgInv, NoPanic
<1>11. InSegment("probation") = {} /\ InSegment("protected") = {}
  BY <1>5 DEF InSegment, Vacant
<1> QED BY <1>4, <1>5, <1>7, <1>8, <1>9, <1>10, <1>11, Zenon

\* A step that changes nothing is one the background writer may take.
LEMMA StutterStep ==
    ASSUME PinInv, UNCHANGED vars PROVE GoodBgStep
<1>1. UNCHANGED <<en, proc, bg, wmu, counts, panic>>
  BY Zenon DEF vars, counts
<1>2. TypeOK'
  BY Zenon DEF vars, TypeOK, PinInv
<1>3. BgInv' /\ NoPanic'
  BY <1>1, Zenon DEF PinInv, BgInv, NoPanic
<1>4. \A f \in Frames : BgTouch(f)
  BY <1>1, ZenonT(60) DEF PinInv, EntryInv, BgTouch, SameFields
<1> QED BY <1>1, <1>2, <1>3, <1>4, Zenon DEF GoodBgStep, counts

\* What the pins and the counters need to know of cardinalities: nothing is counted by
\* zero, users that follow the pins are covered by them, and a counter that follows its
\* segment is exact.  CountingHolds proves it.
Counting ==
    /\ IsFiniteSet({}) /\ Cardinality({}) = 0
    /\ \A S, T, x : \A p, q \in Nat :
        IsFiniteSet(S) /\ Cardinality(S) <= p /\ Follows(S, T, x, p, q)
            => IsFiniteSet(T) /\ Cardinality(T) <= q /\ (T # {} => q > 0)
    /\ \A s, n, m : n = Cardinality(InSegment(s)) /\ CountStep(s, n, m)
            => m = Cardinality(InSegment(s)') /\ (InSegment(s)' # {} => m > 0)

\* The counters of the main segments stay exact.
LEMMA MainKept ==
    ASSUME PinInv, MainStep, Counting
    PROVE  MainCountsExact' /\ (\A f \in Frames : en[f].seg = "probation" => probationCount > 0)'
<1>1. /\ probationCount = Cardinality(InSegment("probation"))
      /\ protectedCount = Cardinality(InSegment("protected"))
      /\ CountStep("probation", probationCount, probationCount') /\ probationCount' <= ProbationCap
      /\ CountStep("protected", protectedCount, protectedCount') /\ protectedCount' <= ProtectedCap
  BY Zenon DEF PinInv, MainCountsExact, MainStep
<1>2. /\ probationCount' = Cardinality(InSegment("probation")')
      /\ InSegment("probation")' # {} => probationCount' > 0
  BY <1>1, Zenon DEF Counting
<1>3. protectedCount' = Cardinality(InSegment("protected")')
  BY <1>1, Zenon DEF Counting
<1>4. MainCountsExact'
  BY <1>1, <1>2, <1>3, Zenon DEF MainCountsExact
<1>5. ASSUME NEW f \in Frames, en'[f].seg = "probation" PROVE probationCount' > 0
  BY <1>2, <1>5, Zenon DEF InSegment
<1> QED BY <1>4, <1>5, Zenon

\* The pins of an entry cover its users after a step that keeps them in line.
LEMMA EntryKept ==
    ASSUME Counting, TypeOK, TypeOK', NEW f \in Frames, EntryInv(f), NEW x,
           Follows(Holders(f), Holders(f)', x, en[f].pins, en'[f].pins),
           ~en'[f].dead, en'[f].seg = "unassigned" => ~en'[f].occ, en'[f].acc <=> en'[f].pins > 0
    PROVE  EntryInv(f)'
<1>1. PICK S : S = Holders(f)
  OBVIOUS
<1>2. PICK T : T = Holders(f)'
  OBVIOUS
<1>3. /\ en[f].pins \in Nat /\ en'[f].pins \in Nat
      /\ IsFiniteSet(S) /\ Cardinality(S) <= en[f].pins
      /\ Follows(S, T, x, en[f].pins, en'[f].pins)
  BY <1>1, <1>2, Zenon DEF TypeOK, Entry, EntryInv
<1>4. IsFiniteSet(T) /\ Cardinality(T) <= en'[f].pins /\ (T # {} => en'[f].pins > 0)
  BY <1>3 DEF Counting
<1> QED BY <1>2, <1>4, Zenon DEF EntryInv

\* A step of a job keeps the invariant.
LEMMA JobKeeps ==
    ASSUME PinInv, NEW w \in Procs, GoodStep(w), Counting
    PROVE  PinInv'
<1>1. /\ TypeOK /\ TypeOK' /\ NoPanic' /\ windowCount' <= WindowCap /\ MainStep
      /\ \A f \in Frames : EntryInv(f) /\ PinStep(w, f) /\ FieldStep(w, f)
  BY Zenon DEF PinInv, GoodStep, Touch
<1>2. /\ \A x \in Procs : JobInv(x)' /\ Sole(x)' /\ FrameInv(x)'
      /\ BgInv'
      /\ \A f \in Frames : Follows(Holders(f), Holders(f)', w, en[f].pins, en'[f].pins)
  BY JobsKeep, Zenon
<1>3. ASSUME NEW f \in Frames PROVE EntryInv(f)'
  BY <1>1, <1>2, EntryKept, Zenon DEF PinStep, FieldStep
<1>4. MainCountsExact' /\ (\A f \in Frames : en[f].seg = "probation" => probationCount > 0)'
  BY <1>1, MainKept, Zenon
<1> QED BY <1>1, <1>2, <1>3, <1>4, Zenon DEF PinInv

\* A step of the background writer keeps it.
LEMMA BgKeeps ==
    ASSUME PinInv, GoodBgStep, Counting
    PROVE  PinInv'
<1>1. /\ TypeOK /\ TypeOK' /\ NoPanic' /\ BgInv'
      /\ \A f \in Frames : EntryInv(f) /\ BgTouch(f)
  BY Zenon DEF PinInv, GoodBgStep
<1>2. /\ \A x \in Procs : JobInv(x)' /\ Sole(x)' /\ FrameInv(x)'
      /\ MainStep /\ windowCount' <= WindowCap
      /\ \A f \in Frames : Follows(Holders(f), Holders(f)', Nil, en[f].pins, en'[f].pins)
  BY JobsKeepBg, Zenon
<1>3. ASSUME NEW f \in Frames PROVE EntryInv(f)'
  <2>1. ~en'[f].dead /\ (en'[f].seg = "unassigned" => ~en'[f].occ) /\ (en'[f].acc <=> en'[f].pins > 0)
    BY <1>1 DEF BgTouch, SameFields, EntryInv
  <2> QED BY <1>1, <1>2, <2>1, EntryKept, Zenon
<1>4. MainCountsExact' /\ (\A f \in Frames : en[f].seg = "probation" => probationCount > 0)'
  BY <1>2, MainKept, Zenon
<1> QED BY <1>1, <1>2, <1>3, <1>4, Zenon DEF PinInv

\* It holds in a new shard.
LEMMA PinInit ==
    ASSUME Init, Counting PROVE PinInv
<1>1. IsFiniteSet({}) /\ Cardinality({}) = 0
  BY Zenon DEF Counting
<1>2. MainCountsExact
  <2>1. ProbationCap \in Nat /\ ProtectedCap \in Nat
    BY CapAssumption, Zenon
  <2>2. probationCount = 0 /\ protectedCount = 0
    BY Zenon DEF Init
  <2>3. Cardinality(InSegment("probation")) = 0 /\ Cardinality(InSegment("protected")) = 0
    BY <1>1, InitFacts, Zenon
  <2> QED BY <2>1, <2>2, <2>3 DEF MainCountsExact
<1>3. \A f \in Frames : EntryInv(f) /\ en[f].seg # "probation"
  BY <1>1, InitFacts DEF EntryInv, Vacant
<1> QED BY <1>2, <1>3, InitFacts, Zenon DEF PinInv

-----------------------------------------------------------------------------
(* The operations on entries, and facts that the steps share.              *)

Stages == {"idle", "load", "ref", "hit", "promote", "swap", "getFree", "evict", "move",
           "pickMain", "writeVictim", "unmap", "reset", "take", "latch", "read", "put",
           "putInc", "store", "hold", "reference", "markDead", "unref"}

\* The fields of an entry have their types.
LEMMA EntryFields ==
    ASSUME NEW e \in Entry
    PROVE  /\ e.occ \in BOOLEAN /\ e.marked \in BOOLEAN /\ e.acc \in BOOLEAN /\ e.pins \in Nat
           /\ e.seg \in Segments /\ e.key \in Pages \cup {Nil} /\ e.dirty \in BOOLEAN
           /\ e.dead \in BOOLEAN /\ e.data \in Versions
  BY Zenon DEF Entry

\* reference(): only the pins change.
LEMMA PinnedFacts ==
    ASSUME NEW e \in Entry
    PROVE  /\ Pinned(e) \in Entry
           /\ Pinned(e).pins = e.pins + 1 /\ Pinned(e).acc
           /\ Pinned(e).occ = e.occ /\ Pinned(e).marked = e.marked /\ Pinned(e).seg = e.seg
           /\ Pinned(e).key = e.key /\ Pinned(e).dirty = e.dirty /\ Pinned(e).dead = e.dead
           /\ Pinned(e).data = e.data
<1>1. e.pins + 1 \in Nat /\ TRUE \in BOOLEAN
  BY EntryFields
<1>2. ASSUME NEW b \in BOOLEAN, NEW p \in Nat PROVE [e EXCEPT !.acc = b, !.pins = p] \in Entry
  BY ZenonT(60) DEF Entry
<1>3. Pinned(e) \in Entry
  BY <1>1, <1>2, ZenonT(60) DEF Pinned
<1>4. Pinned(e).pins = e.pins + 1 /\ Pinned(e).acc
  BY Zenon DEF Pinned, Entry
<1>5. /\ Pinned(e).occ = e.occ /\ Pinned(e).marked = e.marked /\ Pinned(e).seg = e.seg
      /\ Pinned(e).key = e.key /\ Pinned(e).dirty = e.dirty /\ Pinned(e).dead = e.dead
      /\ Pinned(e).data = e.data
  BY Zenon DEF Pinned, Entry
<1> QED BY <1>3, <1>4, <1>5, Zenon

\* unref(): only the pins change.
LEMMA UnpinnedFacts ==
    ASSUME NEW e \in Entry, e.pins > 0, e.acc
    PROVE  /\ Unpinned(e) \in Entry
           /\ Unpinned(e).pins = e.pins - 1 /\ (Unpinned(e).acc <=> Unpinned(e).pins > 0)
           /\ Unpinned(e).occ = e.occ /\ Unpinned(e).marked = e.marked
           /\ Unpinned(e).seg = e.seg
           /\ Unpinned(e).key = e.key /\ Unpinned(e).dirty = e.dirty /\ Unpinned(e).dead = e.dead
           /\ Unpinned(e).data = e.data
<1>1. e.pins \in Nat /\ e.acc \in BOOLEAN
  BY EntryFields, Zenon
<1> DEFINE p == IF e.pins = 0 THEN 0 ELSE e.pins - 1
           b == e.acc /\ e.pins # 1
<1>2. p \in Nat /\ b \in BOOLEAN /\ p = e.pins - 1 /\ (b <=> p > 0)
  BY <1>1
<1>3. PICK u : u = Unpinned(e)
  OBVIOUS
<1>4. u = [e EXCEPT !.acc = b, !.pins = p]
  BY <1>3, Zenon DEF Unpinned, Entry
<1> HIDE DEF p, b
<1>5. u \in Entry
  BY <1>2, <1>4, ZenonT(60) DEF Entry
<1>6. u.acc = b /\ u.pins = p
  BY <1>4, Zenon DEF Entry
<1>7. /\ u.occ = e.occ /\ u.marked = e.marked /\ u.seg = e.seg
      /\ u.key = e.key /\ u.dirty = e.dirty /\ u.dead = e.dead /\ u.data = e.data
  BY <1>4, Zenon DEF Entry
<1> QED BY <1>2, <1>3, <1>5, <1>6, <1>7, Zenon

\* EvictWithoutClearing pins and marks its victim.
LEMMA VictimFacts ==
    ASSUME NEW e \in Entry
    PROVE  /\ Victim(e) \in Entry
           /\ Victim(e).pins = e.pins + 1 /\ Victim(e).acc /\ Victim(e).marked
           /\ Victim(e).occ = e.occ /\ Victim(e).seg = e.seg
           /\ Victim(e).key = e.key /\ Victim(e).dirty = e.dirty /\ Victim(e).dead = e.dead
           /\ Victim(e).data = e.data
<1>1. PICK u \in Entry : u = Pinned(e)
  BY PinnedFacts, Zenon
<1>2. PICK v : v = Victim(e)
  OBVIOUS
<1>3. v = [u EXCEPT !.marked = TRUE] /\ TRUE \in BOOLEAN
  BY <1>1, <1>2, Zenon DEF Victim
<1>4. v \in Entry
  BY <1>3, ZenonT(60) DEF Entry
<1>5. /\ v.marked /\ v.pins = u.pins /\ v.acc = u.acc /\ v.occ = u.occ /\ v.seg = u.seg
      /\ v.key = u.key /\ v.dirty = u.dirty /\ v.dead = u.dead /\ v.data = u.data
  BY <1>3, Zenon DEF Entry
<1>6. /\ u.pins = e.pins + 1 /\ u.acc
      /\ u.occ = e.occ /\ u.marked = e.marked /\ u.seg = e.seg
      /\ u.key = e.key /\ u.dirty = e.dirty /\ u.dead = e.dead /\ u.data = e.data
  BY <1>1, PinnedFacts, Zenon
<1> QED BY <1>2, <1>4, <1>5, <1>6, Zenon

\* updateSegmentCAS changes the segment and nothing else.
LEMMA MovedFacts ==
    ASSUME NEW e \in Entry, NEW old, NEW s \in Segments
    PROVE  /\ Moved(e, old, s) \in Entry
           /\ e.seg = old => Moved(e, old, s).seg = s
           /\ e.seg # old => Moved(e, old, s).seg = e.seg
           /\ Moved(e, old, s).pins = e.pins /\ Moved(e, old, s).acc = e.acc
           /\ Moved(e, old, s).occ = e.occ /\ Moved(e, old, s).marked = e.marked
           /\ Moved(e, old, s).key = e.key /\ Moved(e, old, s).dirty = e.dirty
           /\ Moved(e, old, s).dead = e.dead /\ Moved(e, old, s).data = e.data
  BY Zenon DEF Moved, Entry

\* Frame.Clear and clearEntry leave nothing but the mark.
LEMMA ClearedFacts ==
    ASSUME NEW e \in Entry
    PROVE  /\ Cleared(e) \in Entry
           /\ Cleared(e).pins = 0 /\ ~Cleared(e).acc /\ ~Cleared(e).occ
           /\ Cleared(e).seg = "unassigned" /\ Cleared(e).key = Nil /\ ~Cleared(e).dirty
           /\ Cleared(e).marked = e.marked /\ Cleared(e).dead = e.dead
<1>1. 0 \in Versions /\ "unassigned" \in Segments
  BY ShardAssumption DEF Versions, Segments
<1> QED BY <1>1, ZenonT(60) DEF Cleared, Vacant, Entry

\* A victim that is released: moved, unpinned and no longer marked.
Released(e, old, s) == [Unpinned(Moved(e, old, s)) EXCEPT !.marked = FALSE]

\* Released changes segment, pin and mark and nothing else.
LEMMA ReleasedFacts ==
    ASSUME NEW e \in Entry, e.pins > 0, e.acc, NEW old, NEW s \in Segments
    PROVE  /\ Released(e, old, s) \in Entry
           /\ Released(e, old, s).pins = e.pins - 1
           /\ Released(e, old, s).acc <=> Released(e, old, s).pins > 0
           /\ ~Released(e, old, s).marked
           /\ e.seg = old => Released(e, old, s).seg = s
           /\ e.seg # old => Released(e, old, s).seg = e.seg
           /\ Released(e, old, s).occ = e.occ /\ Released(e, old, s).dead = e.dead
           /\ Released(e, old, s).key = e.key /\ Released(e, old, s).dirty = e.dirty
           /\ Released(e, old, s).data = e.data
<1>1. PICK m \in Entry : m = Moved(e, old, s)
  BY MovedFacts, Zenon
<1>2. /\ (e.seg = old => m.seg = s) /\ (e.seg # old => m.seg = e.seg)
      /\ m.pins = e.pins /\ m.acc = e.acc /\ m.occ = e.occ /\ m.key = e.key
      /\ m.dirty = e.dirty /\ m.dead = e.dead /\ m.data = e.data
  BY <1>1, ZenonT(60) DEF Moved, Entry
<1>3. PICK u : u = Unpinned(m)
  OBVIOUS
<1>4. /\ u \in Entry /\ u.pins = m.pins - 1 /\ (u.acc <=> u.pins > 0)
      /\ u.occ = m.occ /\ u.seg = m.seg
      /\ u.key = m.key /\ u.dirty = m.dirty /\ u.dead = m.dead /\ u.data = m.data
  BY <1>2, <1>3, UnpinnedFacts, ZenonT(60)
<1>5. PICK r : r = Released(e, old, s)
  OBVIOUS
<1>6. r = [u EXCEPT !.marked = FALSE]
  BY <1>1, <1>3, <1>5, Zenon DEF Released
<1>7. r \in Entry
  BY <1>4, <1>6, ZenonT(60) DEF Entry
<1>8. /\ ~r.marked /\ r.pins = u.pins /\ r.acc = u.acc /\ r.occ = u.occ /\ r.seg = u.seg
      /\ r.key = u.key /\ r.dirty = u.dirty /\ r.dead = u.dead /\ r.data = u.data
  BY <1>4, <1>6, Zenon DEF Entry
<1> QED BY <1>2, <1>4, <1>5, <1>7, <1>8, Zenon

\* What the invariant says of one job.
LEMMA Known ==
    ASSUME PinInv, NEW w \in Procs
    PROVE  /\ TypeOK /\ JobInv(w) /\ Sole(w) /\ FrameInv(w) /\ NoPanic
           /\ proc[w] \in Proc /\ w # Nil /\ Nil \notin Frames
  BY ShardAssumption, Zenon DEF PinInv, TypeOK

\* An entry that is not changed, of a frame that w does not begin to use.
LEMMA Untouched ==
    ASSUME PinInv, NEW w, NEW f \in Frames, en'[f] = en[f],
           Uses(w, f)' => Uses(w, f), Owned(w, f)' => Owned(w, f)
    PROVE  Touch(w, f)
<1>1. EntryInv(f)
  BY Zenon DEF PinInv
<1> QED BY <1>1, Zenon DEF Touch, PinStep, GrabStep, FieldStep, SameFields, EntryInv

\* The job goes on to its next stage.
LEMMA GotoFacts ==
    ASSUME TypeOK, NEW w \in Procs, NEW pc \in Stages, Goto(w, pc)
    PROVE  /\ proc' \in [Procs -> Proc]
           /\ \A x \in Procs \ {w} : proc'[x] = proc[x]
           /\ proc'[w].pc = pc /\ proc'[w].op = proc[w].op /\ proc'[w].pid = proc[w].pid
           /\ proc'[w].fr = proc[w].fr /\ proc'[w].inc = proc[w].inc
           /\ proc'[w].ret = proc[w].ret /\ proc'[w].wind = proc[w].wind
           /\ proc'[w].main = proc[w].main /\ proc'[w].vic = proc[w].vic
<1>1. proc' = [proc EXCEPT ![w] = [proc[w] EXCEPT !.pc = pc]] /\ proc[w] \in Proc
  BY Zenon DEF Goto, TypeOK
<1>2. [proc[w] EXCEPT !.pc = pc] \in Proc
  BY <1>1 DEF Proc, Stages
<1> QED BY <1>1, <1>2, Zenon DEF TypeOK, Proc

\* The job ends.
LEMMA DoneFacts ==
    ASSUME TypeOK, NEW w \in Procs, Done(w)
    PROVE  /\ proc' \in [Procs -> Proc]
           /\ \A x \in Procs \ {w} : proc'[x] = proc[x]
           /\ proc'[w] = Idle
<1>1. Idle \in Proc
  BY Zenon DEF Idle, Proc
<1> QED BY <1>1, Zenon DEF Done, TypeOK

\* A job that has ended holds nothing.
LEMMA IdleHolds ==
    ASSUME NEW w \in Procs, proc'[w] = Idle, wmu' # w
    PROVE  /\ JobInv(w)' /\ FrameInv(w)'
           /\ \A f \in Frames : ~Uses(w, f)' /\ ~Owned(w, f)'
<1>1. /\ proc'[w].pc = "idle" /\ proc'[w].op = "get" /\ proc'[w].wind = Nil
      /\ proc'[w].main = Nil /\ proc'[w].fr = Nil
  BY DEF Idle
<1>2. Nil \notin Frames
  BY ShardAssumption, Zenon
<1>3. JobInv(w)'
  BY <1>1, Zenon DEF JobInv, Filled, Filling, Chosen, Evicting, Locked
<1>4. FrameInv(w)'
  BY <1>1, Zenon DEF FrameInv, Filled, Filling
<1> QED BY <1>1, <1>2, <1>3, <1>4, Zenon DEF Uses, Owned, Filling

\* One entry leaves segment s, or joins it, or takes the place of another.
LEMMA SegmentStep ==
    ASSUME NEW s, NEW f \in Frames, NEW h \in Frames,
           \A g \in Frames \ {f, h} : en'[g].seg = s <=> en[g].seg = s
    PROVE  /\ f = h /\ en[f].seg = s /\ en'[f].seg # s => Shrinks(s)
           /\ f = h /\ en[f].seg # s /\ en'[f].seg = s => Grows(s)
           /\ f # h /\ en[f].seg = s /\ en'[f].seg # s /\ en[h].seg # s /\ en'[h].seg = s => Swaps(s)
<1>1. ASSUME f = h, en[f].seg = s, en'[f].seg # s PROVE Shrinks(s)
  <2>1. InSegment(s)' = InSegment(s) \ {f} /\ f \in InSegment(s)
    BY <1>1, Zenon DEF InSegment
  <2> QED BY <2>1, Zenon DEF Shrinks
<1>2. ASSUME f = h, en[f].seg # s, en'[f].seg = s PROVE Grows(s)
  <2>1. InSegment(s)' = InSegment(s) \cup {f} /\ f \in Frames \ InSegment(s)
    BY <1>2, Zenon DEF InSegment
  <2> QED BY <2>1, Zenon DEF Grows
<1>3. ASSUME f # h, en[f].seg = s, en'[f].seg # s, en[h].seg # s, en'[h].seg = s PROVE Swaps(s)
  <2>1. /\ InSegment(s)' = (InSegment(s) \ {f}) \cup {h} /\ f \in InSegment(s)
        /\ h \in Frames \ InSegment(s)
    BY <1>3, Zenon DEF InSegment
  <2> QED BY <2>1, Zenon DEF Swaps
<1> QED BY <1>1, <1>2, <1>3, Zenon

\* A step that leaves the entries and the counters alone.
LEMMA PlainStep ==
    ASSUME PinInv, TypeOK', NEW w \in Procs, \A x \in Procs \ {w} : proc'[x] = proc[x],
           bg' = bg, en' = en, UNCHANGED counts, LockStep(w), NoPanic',
           \A f \in Frames : (Uses(w, f)' => Uses(w, f)) /\ (Owned(w, f)' => Owned(w, f)),
           JobInv(w)', FrameInv(w)'
    PROVE  GoodStep(w)
<1>1. \A f \in Frames : Touch(w, f)
  BY Untouched, Zenon
<1>2. MainStep /\ windowCount' <= WindowCap
  BY CountsKept, Zenon DEF PinInv, counts
<1> QED BY <1>1, <1>2, Zenon DEF GoodStep

\* A step that changes one entry.
LEMMA OneStep ==
    ASSUME PinInv, TypeOK', NEW w \in Procs, \A x \in Procs \ {w} : proc'[x] = proc[x],
           bg' = bg, LockStep(w), NoPanic', NEW f \in Frames,
           PinStep(w, f), GrabStep(w, f), FieldStep(w, f),
           \A g \in Frames \ {f} : /\ en'[g] = en[g]
                                   /\ Uses(w, g)' => Uses(w, g)
                                   /\ Owned(w, g)' => Owned(w, g),
           JobInv(w)', FrameInv(w)', MainStep, windowCount' <= WindowCap
    PROVE  GoodStep(w)
<1>1. \A g \in Frames \ {f} : Touch(w, g)
  BY Untouched, Zenon
<1>2. Touch(w, f)
  BY Zenon DEF Touch
<1> QED BY <1>1, <1>2, Zenon DEF GoodStep

-----------------------------------------------------------------------------
(* A hit: runJob up to the promotion of the entry.                         *)

\* A caller sends a job.
LEMMA StartStep ==
    ASSUME PinInv, NEW w \in Procs, Start(w), "delete" \notin Ops PROVE GoodStep(w)
<1>1. PICK op \in Ops, k \in Pages :
        /\ freeList' = IF op = "new" THEN freeList \ {k} ELSE freeList
        /\ proc' = [proc EXCEPT ![w] = [Idle EXCEPT !.op = op, !.pid = k,
                        !.pc = IF op = "new" THEN "getFree" ELSE "load"]]
  BY ZenonT(60) DEF Start
<1>2. /\ TypeOK /\ JobInv(w) /\ Nil \notin Frames /\ w # Nil
      /\ op \in {"get", "new"} /\ proc[w].pc = "idle"
  BY Known, ShardAssumption, Zenon DEF Start, At
<1>3. PICK p : p = [Idle EXCEPT !.op = op, !.pid = k,
                        !.pc = IF op = "new" THEN "getFree" ELSE "load"]
  OBVIOUS
<1>4. /\ p.op = op /\ p.pid = k /\ p.pc = IF op = "new" THEN "getFree" ELSE "load"
      /\ p.fr = Nil /\ p.inc = Nil
      /\ p.ret = "hold" /\ p.wind = Nil /\ p.main = Nil /\ p.vic = Nil
  BY <1>3, Zenon DEF Idle
<1>5. p \in Proc
  BY <1>2, <1>3, ZenonT(60) DEF Idle, Proc
<1>6. proc' \in [Procs -> Proc] /\ proc'[w] = p /\ \A x \in Procs \ {w} : proc'[x] = proc[x]
  BY <1>1, <1>2, <1>3, <1>5, Zenon DEF TypeOK
<1>7. TypeOK'
  BY <1>1, <1>2, <1>6, ShardAssumption DEF TypeOK, Start, counts
<1>8. JobInv(w)'
  <2>1. wmu' # w
    BY <1>2, Zenon DEF Start, JobInv, Locked
  <2> QED BY <1>2, <1>4, <1>6, <2>1, Zenon DEF JobInv, Locked, Evicting, Chosen, Filled, Filling
<1>9. FrameInv(w)'
  BY <1>4, <1>6, Zenon DEF FrameInv, Filled, Filling
<1>10. \A f \in Frames : ~Uses(w, f)' /\ ~Owned(w, f)'
  BY <1>2, <1>4, <1>6, Zenon DEF Uses, Owned, Filled, Filling
<1>11. /\ bg' = bg /\ en' = en /\ UNCHANGED counts /\ LockStep(w) /\ NoPanic'
  BY Known, Zenon DEF Start, LockStep, NoPanic, counts
<1> QED BY <1>6, <1>7, <1>8, <1>9, <1>10, <1>11, PlainStep, Zenon

\* CacheMap.Load.
LEMMA LoadStep ==
    ASSUME PinInv, NEW w \in Procs, Load(w) PROVE GoodStep(w)
<1>1. /\ TypeOK /\ JobInv(w) /\ NoPanic /\ proc[w] \in Proc /\ Nil \notin Frames
      /\ proc[w].pc = "load" /\ w # Nil
  BY Known, Zenon DEF Load, At
<1>2. PICK val \in Frames \cup {Nil} : val = CacheMap[proc[w].pid]
  BY <1>1, Zenon DEF JobInv, TypeOK
<1>3. PICK pc \in Stages : pc = IF val = Nil THEN "getFree" ELSE "ref"
  BY Zenon DEF Stages
<1>4. PICK p : p = [proc[w] EXCEPT !.fr = val, !.pc = pc]
  OBVIOUS
<1>5. proc' = [proc EXCEPT ![w] = p]
  BY <1>1, <1>2, <1>3, <1>4, ZenonT(60) DEF Load, TypeOK, JobInv
<1>6. /\ p \in Proc /\ p.pc = pc /\ p.fr = val /\ p.op = proc[w].op /\ p.pid = proc[w].pid
      /\ p.wind = proc[w].wind /\ p.main = proc[w].main
  BY <1>1, <1>4, ZenonT(60) DEF Proc, Stages
<1>7. proc' \in [Procs -> Proc] /\ proc'[w] = p /\ \A x \in Procs \ {w} : proc'[x] = proc[x]
  BY <1>1, <1>5, <1>6, Zenon DEF TypeOK
<1>8. TypeOK'
  BY <1>1, <1>7, Zenon DEF TypeOK, Load, counts, history
<1>9. JobInv(w)' /\ p.wind = Nil /\ p.main = Nil
  BY <1>1, <1>2, <1>3, <1>6, <1>7, Zenon
    DEF JobInv, Load, Locked, Evicting, Chosen, Filled, Filling, counts
<1>10. FrameInv(w)'
  BY <1>3, <1>6, <1>7, <1>9, Zenon DEF FrameInv, Filled, Filling
<1>11. \A f \in Frames : ~Uses(w, f)' /\ ~Owned(w, f)'
  BY <1>1, <1>3, <1>6, <1>7, <1>9, Zenon DEF Uses, Owned, Filled, Filling
<1>12. /\ bg' = bg /\ en' = en /\ UNCHANGED counts /\ LockStep(w) /\ NoPanic'
  BY <1>1, Zenon DEF Load, LockStep, NoPanic, counts
<1> QED BY <1>7, <1>8, <1>9, <1>10, <1>11, <1>12, PlainStep, ZenonT(60)

\* refIfOccupied: a hit pins the entry, a miss leaves it.
LEMMA RefStep ==
    ASSUME PinInv, NEW w \in Procs, refIfOccupied(w) PROVE GoodStep(w)
<1>1. /\ TypeOK /\ JobInv(w) /\ NoPanic /\ proc[w] \in Proc /\ Nil \notin Frames
      /\ proc[w].pc = "ref" /\ w # Nil
  BY Known, Zenon DEF refIfOccupied, At
<1>2. PICK f \in Frames : f = proc[w].fr
  BY <1>1, Zenon DEF JobInv
<1>3. /\ proc[w].wind = Nil /\ proc[w].main = Nil /\ proc[w].op # "delete" /\ wmu # w
      /\ proc[w].pid \in Pages
  BY <1>1, ZenonT(60) DEF JobInv, Locked, Chosen
<1>4. /\ bg' = bg /\ UNCHANGED counts /\ LockStep(w) /\ NoPanic' /\ wmu' # w
  BY <1>1, <1>3, Zenon DEF refIfOccupied, LockStep, NoPanic, counts
<1>5. CASE en[f].occ /\ ~en[f].marked /\ en' = [en EXCEPT ![f] = Pinned(@)] /\ Goto(w, "hit")
  <2>1. /\ proc' \in [Procs -> Proc] /\ \A x \in Procs \ {w} : proc'[x] = proc[x]
        /\ proc'[w].pc = "hit" /\ proc'[w].op = proc[w].op /\ proc'[w].pid = proc[w].pid
        /\ proc'[w].fr = f /\ proc'[w].wind = Nil /\ proc'[w].main = Nil
    BY <1>1, <1>2, <1>3, <1>5, GotoFacts, ZenonT(60) DEF Stages
  <2>2. /\ en' \in [Frames -> Entry] /\ en'[f] = Pinned(en[f])
        /\ \A g \in Frames \ {f} : en'[g] = en[g]
    BY <1>1, <1>5, PinnedFacts, Zenon DEF TypeOK
  <2>3. /\ en'[f].pins = en[f].pins + 1 /\ en'[f].acc /\ SameFields(f) /\ en'[f].dead = en[f].dead
        /\ en[f].pins \in Nat /\ EntryInv(f)
    <3>1. en[f] \in Entry /\ EntryInv(f)
      BY <1>1, ZenonT(60) DEF TypeOK, PinInv
    <3>2. en[f].pins \in Nat
      BY <3>1, EntryFields, Zenon
    <3>3. SameFields(f)
      BY <2>2, <3>1, PinnedFacts, ZenonT(60) DEF SameFields
    <3> QED BY <2>2, <3>1, <3>2, <3>3, PinnedFacts, ZenonT(60)
  <2>4. TypeOK'
    BY <1>1, <2>1, <2>2, Zenon DEF TypeOK, refIfOccupied, counts, history
  <2>5. JobInv(w)'
    BY <1>3, <1>4, <2>1, <1>2, Zenon DEF JobInv, Locked, Evicting, Chosen, Filled, Filling
  <2>6. FrameInv(w)'
    BY <1>5, <2>1, <2>3, ZenonT(60) DEF FrameInv, Filled, Filling, SameFields
  <2>7. /\ PinStep(w, f)
        /\ GrabStep(w, f)
        /\ FieldStep(w, f)
    <3>1. PinStep(w, f)
      BY <2>3 DEF PinStep
    <3>2. GrabStep(w, f)
      BY <1>1, <1>5, <2>1, Zenon DEF GrabStep, Owned, Filling
    <3>3. FieldStep(w, f)
      BY <2>3, Zenon DEF FieldStep, SameFields, EntryInv
    <3> QED BY <3>1, <3>2, <3>3, Zenon
  <2>8. \A g \in Frames \ {f} : ~Uses(w, g)' /\ ~Owned(w, g)'
    BY <1>1, <2>1, Zenon DEF Uses, Owned
  <2>9. MainStep
    <3>1. \A g \in Frames : en'[g].seg = en[g].seg
      BY <2>2, <2>3, Zenon DEF SameFields
    <3> QED BY <1>4, <3>1, CountsKept, Zenon DEF PinInv, counts
  <2>10. windowCount' <= WindowCap
    BY <1>4, Zenon DEF PinInv, counts
  <2> QED BY <1>4, <2>1, <2>2, <2>4, <2>5, <2>6, <2>7, <2>8, <2>9, <2>10, OneStep, ZenonT(60)
<1>6. CASE en' = en /\ proc' = [proc EXCEPT ![w].pc = "getFree", ![w].fr = Nil]
  <2>1. PICK p : p = [proc[w] EXCEPT !.pc = "getFree", !.fr = Nil]
    OBVIOUS
  <2>2. proc' = [proc EXCEPT ![w] = p]
    BY <1>1, <1>6, <2>1, ZenonT(60) DEF TypeOK
  <2>3. /\ p \in Proc /\ p.pc = "getFree" /\ p.fr = Nil /\ p.op = proc[w].op
        /\ p.pid = proc[w].pid /\ p.wind = Nil /\ p.main = Nil
    BY <1>1, <1>3, <2>1, ZenonT(60) DEF Proc
  <2>4. proc' \in [Procs -> Proc] /\ proc'[w] = p /\ \A x \in Procs \ {w} : proc'[x] = proc[x]
    BY <1>1, <2>2, <2>3, Zenon DEF TypeOK
  <2>5. TypeOK'
    BY <1>1, <1>6, <2>4, Zenon DEF TypeOK, refIfOccupied, counts, history
  <2>6. JobInv(w)'
    BY <1>3, <1>4, <2>3, <2>4, Zenon DEF JobInv, Locked, Evicting, Chosen, Filled, Filling
  <2>7. FrameInv(w)'
    BY <2>3, <2>4, Zenon DEF FrameInv, Filled, Filling
  <2>8. \A g \in Frames : ~Uses(w, g)' /\ ~Owned(w, g)'
    BY <1>1, <2>3, <2>4, Zenon DEF Uses, Owned, Filled, Filling
  <2> QED BY <1>4, <1>6, <2>4, <2>5, <2>6, <2>7, <2>8, PlainStep, Zenon
<1> QED BY <1>2, <1>5, <1>6, Zenon DEF refIfOccupied

\* Increment: an entry without a segment joins the window.
LEMMA IncrementStep ==
    ASSUME PinInv, NEW w \in Procs, NEW e \in Frames, NEW ret \in {"hold", "store"},
           proc[w].pc \in {"hit", "putInc"}, Increment(w, e, ret),
           UNCHANGED <<CacheMap, latch, counts, wmu, bg, disk, freeList, history, panic>>
    PROVE  GoodStep(w)
<1>1. /\ TypeOK /\ JobInv(w) /\ FrameInv(w) /\ NoPanic /\ proc[w] \in Proc /\ Nil \notin Frames
  BY Known, Zenon
<1>2. PICK pc \in {"promote", "hold", "store"} : pc = IF en[e].seg = "probation" THEN "promote" ELSE ret
  OBVIOUS
<1>3. PICK p : p = [proc[w] EXCEPT !.inc = e, !.ret = ret, !.pc = pc]
  OBVIOUS
<1>4. proc' = [proc EXCEPT ![w] = p]
  BY <1>1, <1>2, <1>3, ZenonT(60) DEF Increment, TypeOK
<1>5. p \in Proc
  BY <1>1, <1>3, ZenonT(60) DEF Proc
<1>6. /\ p.pc = pc /\ p.inc = e /\ p.fr = proc[w].fr /\ p.op = proc[w].op /\ p.pid = proc[w].pid
      /\ p.wind = proc[w].wind /\ p.main = proc[w].main
  BY <1>1, <1>3, Zenon DEF Proc
<1>7. proc' \in [Procs -> Proc] /\ proc'[w] = p /\ \A x \in Procs \ {w} : proc'[x] = proc[x]
  BY <1>1, <1>4, <1>5, Zenon DEF TypeOK
<1>8. /\ en' \in [Frames -> Entry] /\ en'[e] = Moved(en[e], "unassigned", "window")
      /\ \A g \in Frames \ {e} : en'[g] = en[g]
  BY <1>1, MovedFacts, Zenon DEF TypeOK, Increment, Segments
<1>9. /\ en'[e].seg = IF en[e].seg = "unassigned" THEN "window" ELSE en[e].seg
      /\ en'[e].pins = en[e].pins /\ en'[e].acc = en[e].acc /\ en'[e].occ = en[e].occ
      /\ en'[e].marked = en[e].marked /\ en'[e].dead = en[e].dead /\ EntryInv(e)
  <2>1. en[e] \in Entry /\ EntryInv(e)
    BY <1>1, Zenon DEF TypeOK, PinInv
  <2>2. PICK m : m = Moved(en[e], "unassigned", "window")
    OBVIOUS
  <2>3. /\ m.seg = IF en[e].seg = "unassigned" THEN "window" ELSE en[e].seg
        /\ m.pins = en[e].pins /\ m.acc = en[e].acc /\ m.occ = en[e].occ
        /\ m.marked = en[e].marked /\ m.dead = en[e].dead
    BY <2>1, <2>2, ZenonT(60) DEF Moved, Entry
  <2> QED BY <1>8, <2>1, <2>2, <2>3, Zenon
<1>10. TypeOK'
  BY <1>1, <1>7, <1>8, Zenon DEF TypeOK, counts, history
<1>11. /\ p.wind = Nil /\ p.main = Nil /\ wmu # w /\ p.fr \in Frames /\ p.pid \in Pages /\ p.op # "delete"
       /\ en[p.fr].occ
  BY <1>1, <1>6, ZenonT(60) DEF JobInv, FrameInv, Chosen, Locked, Filled
<1>12. JobInv(w)'
  BY <1>2, <1>6, <1>7, <1>11, Zenon DEF JobInv, Locked, Evicting, Chosen, Filled, Filling
<1>13. FrameInv(w)'
  <2>1. en'[p.fr].occ
    BY <1>8, <1>9, <1>11, ZenonT(60)
  <2> QED BY <1>2, <1>6, <1>7, <1>11, <2>1, ZenonT(60) DEF FrameInv, Filled, Filling
<1>14. \A g \in Frames : (Uses(w, g)' => Uses(w, g)) /\ ~Owned(w, g)'
  BY <1>1, <1>2, <1>6, <1>7, <1>11, ZenonT(60) DEF Uses, Owned, Filled, Filling
<1>15. PinStep(w, e)
  BY <1>9, <1>14, ZenonT(60) DEF PinStep, EntryInv
<1>16. GrabStep(w, e)
  BY <1>14, Zenon DEF GrabStep
<1>17. FieldStep(w, e)
  BY <1>9, Zenon DEF FieldStep, SameFields, EntryInv
<1>18. MainStep /\ windowCount' <= WindowCap
  <2>1. \A f \in Frames : \A s \in {"probation", "protected"} : en'[f].seg = s <=> en[f].seg = s
    BY <1>8, <1>9, Zenon
  <2> QED BY <2>1, CountsKept, Zenon DEF PinInv, counts
<1>19. LockStep(w) /\ NoPanic' /\ bg' = bg
  BY <1>1, Zenon DEF LockStep, counts, NoPanic
<1> QED
  BY <1>7, <1>8, <1>10, <1>12, <1>13, <1>14, <1>15, <1>16, <1>17, <1>18, <1>19, OneStep, ZenonT(60)

\* A hit, of a frame that is not dead.
LEMMA HitStep ==
    ASSUME PinInv, NEW w \in Procs, Hit(w) \/ HitDead(w) \/ putIncrement(w) PROVE GoodStep(w)
<1>1. /\ TypeOK /\ JobInv(w)
  BY Known, Zenon
<1>2. ~HitDead(w)
  <2>1. proc[w].pc = "hit" => proc[w].fr \in Frames
    BY <1>1, Zenon DEF JobInv, Filled
  <2> QED BY <2>1, ZenonT(60) DEF HitDead, At, PinInv, EntryInv
<1>3. CASE Hit(w)
  <2>1. proc[w].fr \in Frames /\ proc[w].pc = "hit"
    BY <1>1, <1>3, Zenon DEF JobInv, Filled, Hit, At
  <2> QED BY <1>3, <2>1, IncrementStep, ZenonT(60) DEF Hit
<1>4. CASE putIncrement(w)
  <2>1. proc[w].inc \in Frames /\ proc[w].pc = "putInc"
    BY <1>1, <1>4, Zenon DEF JobInv, putIncrement, At
  <2> QED BY <1>4, <2>1, IncrementStep, ZenonT(60) DEF putIncrement
<1> QED BY <1>2, <1>3, <1>4, Zenon

\* promoteToProtected without a change.
LEMMA PromoteNothing ==
    ASSUME PinInv, NEW w \in Procs, proc[w].pc = "promote", Goto(w, proc[w].ret),
           UNCHANGED <<en, counts, wmu>>, UNCHANGED <<CacheMap, latch, bg, disk, freeList, history, panic>>
    PROVE  GoodStep(w)
<1>1. /\ TypeOK /\ JobInv(w) /\ FrameInv(w) /\ NoPanic /\ proc[w] \in Proc /\ Nil \notin Frames
  BY Known, ZenonT(60)
<1>2. PICK pc \in {"hold", "store"} : pc = proc[w].ret
  BY <1>1, Zenon DEF Proc
<1>3. /\ proc' \in [Procs -> Proc] /\ \A x \in Procs \ {w} : proc'[x] = proc[x]
      /\ proc'[w].pc = pc /\ proc'[w].op = proc[w].op /\ proc'[w].pid = proc[w].pid
      /\ proc'[w].fr = proc[w].fr /\ proc'[w].wind = proc[w].wind /\ proc'[w].main = proc[w].main
  BY <1>1, <1>2, GotoFacts, ZenonT(60) DEF Stages
<1>4. TypeOK'
  BY <1>1, <1>3, Zenon DEF TypeOK, counts, history
<1>5. /\ proc[w].wind = Nil /\ proc[w].main = Nil /\ wmu # w /\ proc[w].fr \in Frames
      /\ proc[w].pid \in Pages /\ proc[w].op # "delete" /\ en[proc[w].fr].occ
  BY <1>1, ZenonT(60) DEF JobInv, FrameInv, Chosen, Locked, Filled
<1>6. JobInv(w)'
  BY <1>3, <1>5, ZenonT(60) DEF JobInv, Locked, Evicting, Chosen, Filled, Filling
<1>7. FrameInv(w)'
  BY <1>3, <1>5, ZenonT(60) DEF FrameInv, Filled, Filling
<1>8. \A g \in Frames : (Uses(w, g)' => Uses(w, g)) /\ ~Owned(w, g)'
  BY <1>1, <1>3, <1>5, ZenonT(60) DEF Uses, Owned, Filled, Filling
<1>9. LockStep(w) /\ NoPanic' /\ bg' = bg /\ UNCHANGED counts /\ en' = en
  BY <1>1, ZenonT(60) DEF LockStep, counts, NoPanic
<1> QED BY <1>3, <1>4, <1>6, <1>7, <1>8, <1>9, PlainStep, ZenonT(60)

\* ... with room in the protected segment ...
LEMMA PromoteRoom ==
    ASSUME PinInv, NEW w \in Procs, proc[w].pc = "promote", Goto(w, proc[w].ret), wmu = Nil,
           en[proc[w].inc].seg = "probation", protectedCount < ProtectedCap,
           en' = [en EXCEPT ![proc[w].inc].seg = "protected"],
           probationCount' = probationCount - 1, protectedCount' = protectedCount + 1,
           UNCHANGED <<windowCount, wmu>>,
           UNCHANGED <<CacheMap, latch, bg, disk, freeList, history, panic>>
    PROVE  GoodStep(w)
<1>1. /\ TypeOK /\ JobInv(w) /\ FrameInv(w) /\ NoPanic /\ proc[w] \in Proc /\ Nil \notin Frames
  BY Known, Zenon
<1>2. PICK pc \in {"hold", "store"} : pc = proc[w].ret
  BY <1>1, Zenon DEF Proc
<1>3. /\ proc' \in [Procs -> Proc] /\ \A x \in Procs \ {w} : proc'[x] = proc[x]
      /\ proc'[w].pc = pc /\ proc'[w].op = proc[w].op /\ proc'[w].pid = proc[w].pid
      /\ proc'[w].fr = proc[w].fr /\ proc'[w].wind = proc[w].wind /\ proc'[w].main = proc[w].main
  BY <1>1, <1>2, GotoFacts, Zenon DEF Stages
<1>4. /\ proc[w].wind = Nil /\ proc[w].main = Nil /\ wmu # w /\ proc[w].fr \in Frames
      /\ proc[w].pid \in Pages /\ proc[w].op # "delete" /\ en[proc[w].fr].occ
  BY <1>1, Zenon DEF JobInv, FrameInv, Chosen, Locked, Filled
<1>5. PICK e \in Frames : e = proc[w].inc
  BY <1>1, Zenon DEF JobInv
<1>6. /\ en' \in [Frames -> Entry] /\ \A g \in Frames \ {e} : en'[g] = en[g]
  <2>1. en \in [Frames -> Entry] /\ en[e] \in Entry
    BY <1>1, ZenonT(60) DEF TypeOK
  <2>2. [en[e] EXCEPT !.seg = "protected"] \in Entry
    BY <2>1, ZenonT(60) DEF Entry, Segments
  <2>3. en' = [en EXCEPT ![e] = [en[e] EXCEPT !.seg = "protected"]]
    BY <1>5, <2>1, Zenon
  <2> QED BY <2>1, <2>2, <2>3, Zenon
<1>7. /\ en'[e].seg = "protected" /\ en'[e].pins = en[e].pins /\ en'[e].acc = en[e].acc
      /\ en'[e].occ = en[e].occ /\ en'[e].marked = en[e].marked /\ en'[e].dead = en[e].dead
      /\ EntryInv(e)
  <2>1. en[e] \in Entry /\ EntryInv(e)
    BY <1>1, Zenon DEF TypeOK, PinInv
  <2>2. PICK m : m = [en[e] EXCEPT !.seg = "protected"]
    OBVIOUS
  <2>3. /\ m.seg = "protected" /\ m.pins = en[e].pins /\ m.acc = en[e].acc
        /\ m.occ = en[e].occ /\ m.marked = en[e].marked /\ m.dead = en[e].dead
    BY <2>1, <2>2, ZenonT(60) DEF Entry
  <2>4. en'[e] = m
    BY <1>1, <1>5, <2>2, Zenon DEF TypeOK
  <2> QED BY <2>1, <2>3, <2>4, Zenon
<1>8. /\ MainStep /\ windowCount' <= WindowCap /\ probationCount' \in Nat
      /\ protectedCount' \in Nat
  <2>1. Shrinks("probation") /\ Grows("protected")
    BY <1>5, <1>6, <1>7, SegmentStep, Zenon
  <2>2. /\ probationCount \in Nat /\ probationCount > 0 /\ probationCount <= ProbationCap
        /\ protectedCount \in Nat /\ ProbationCap \in Nat /\ ProtectedCap \in Nat
        /\ windowCount <= WindowCap
    BY <1>1, <1>5, CapAssumption, Zenon DEF MainCountsExact, PinInv, TypeOK
  <2> QED BY <2>1, <2>2 DEF MainStep, CountStep
<1>9. TypeOK'
  BY <1>1, <1>3, <1>6, <1>8, Zenon DEF TypeOK, history
<1>10. JobInv(w)'
  BY <1>3, <1>4, Zenon DEF JobInv, Locked, Evicting, Chosen, Filled, Filling
<1>11. FrameInv(w)'
  <2>1. en'[proc[w].fr].occ
    BY <1>4, <1>6, <1>7, Zenon
  <2> QED BY <1>3, <1>4, <2>1, Zenon DEF FrameInv, Filled, Filling
<1>12. \A g \in Frames : (Uses(w, g)' => Uses(w, g)) /\ ~Owned(w, g)'
  BY <1>1, <1>3, <1>4 DEF Uses, Owned, Filled, Filling
<1>13. PinStep(w, e)
  BY <1>7, <1>12, Zenon DEF PinStep, EntryInv
<1>14. GrabStep(w, e)
  BY <1>12, Zenon DEF GrabStep
<1>15. FieldStep(w, e)
  BY <1>5, <1>7, Zenon DEF FieldStep, EntryInv
<1>16. LockStep(w) /\ NoPanic' /\ bg' = bg
  BY <1>1, Zenon DEF LockStep, NoPanic
<1> QED
  BY <1>3, <1>6, <1>8, <1>9, <1>10, <1>11, <1>12, <1>13, <1>14, <1>15, <1>16, OneStep, Zenon

\* What promoteToProtected knows of its victim.
LEMMA SwapFrame ==
    ASSUME NEW w, NEW p, proc'[w] = p, p.pc = "swap", p.wind = Nil, en'[p.fr].occ,
           en'[p.main].marked, en'[p.main].seg = "protected", en'[p.inc].seg = "probation"
    PROVE  FrameInv(w)'
  BY Zenon DEF FrameInv, Filled, Filling

\* ... or with a victim to exchange it with.
LEMMA PromoteVictim ==
    ASSUME PinInv, NEW w \in Procs, proc[w].pc = "promote", wmu = Nil,
           en[proc[w].inc].seg = "probation", NEW f \in Frames, Eligible(f, "protected"),
           en' = [en EXCEPT ![f] = Victim(@)],
           proc' = [proc EXCEPT ![w].main = f, ![w].pc = "swap"],
           wmu' = w, UNCHANGED counts,
           UNCHANGED <<CacheMap, latch, bg, disk, freeList, history, panic>>
    PROVE  GoodStep(w)
<1>1. /\ TypeOK /\ JobInv(w) /\ FrameInv(w) /\ NoPanic /\ proc[w] \in Proc /\ Nil \notin Frames
  BY Known, Zenon
<1>2. PICK p : p = [proc[w] EXCEPT !.main = f, !.pc = "swap"]
  OBVIOUS
<1>3. p \in Proc
  BY <1>1, <1>2, ZenonT(60) DEF Proc
<1>4. /\ p.pc = "swap" /\ p.main = f /\ p.inc = proc[w].inc /\ p.fr = proc[w].fr
      /\ p.op = proc[w].op /\ p.pid = proc[w].pid /\ p.wind = proc[w].wind
  BY <1>1, <1>2, Zenon DEF Proc
<1>5. proc' \in [Procs -> Proc] /\ proc'[w] = p /\ \A x \in Procs \ {w} : proc'[x] = proc[x]
  BY <1>1, <1>2, <1>3, Zenon DEF TypeOK
<1>6. /\ en' \in [Frames -> Entry] /\ en'[f] = Victim(en[f])
      /\ \A g \in Frames \ {f} : en'[g] = en[g]
  BY <1>1, VictimFacts, Zenon DEF TypeOK
<1>7. /\ en'[f].pins = en[f].pins + 1 /\ en'[f].acc /\ en'[f].marked
      /\ en'[f].occ = en[f].occ /\ en'[f].seg = en[f].seg /\ en'[f].dead = en[f].dead
      /\ EntryInv(f) /\ ~en[f].acc /\ en[f].seg = "protected" /\ en[f].pins \in Nat
  BY <1>1, <1>6, VictimFacts, EntryFields, Zenon DEF TypeOK, PinInv, Eligible
<1>8. TypeOK'
  BY <1>1, <1>5, <1>6, Zenon DEF TypeOK, counts, history
<1>9. /\ p.wind = Nil /\ p.fr \in Frames /\ p.inc \in Frames /\ p.pid \in Pages
      /\ p.op # "delete" /\ en[p.fr].occ
  BY <1>1, <1>4, Zenon DEF JobInv, FrameInv, Chosen, Filled
<1>10. p.fr # f
  <2>1. w \in Holders(p.fr)
    BY <1>4, Zenon DEF Holders
  <2> QED BY <1>1, <1>7, <1>9, <2>1, UsedIsPinned, Zenon DEF PinInv
<1>11. JobInv(w)'
  BY <1>4, <1>5, <1>9, <1>10, ZenonT(60) DEF JobInv, Locked, Evicting, Chosen, Filled, Filling
<1>12. FrameInv(w)'
  <2>1. en'[p.fr].occ /\ en'[p.inc].seg = "probation"
    BY <1>4, <1>6, <1>7, <1>9, Zenon
  <2>2. /\ proc'[w] = p /\ p.pc = "swap" /\ p.wind = Nil
        /\ en'[p.main].marked /\ en'[p.main].seg = "protected"
    BY <1>4, <1>5, <1>7, <1>9, Zenon
  <2> QED BY <2>1, <2>2, SwapFrame, ZenonT(60)
<1>13. \A g \in Frames \ {f} : (Uses(w, g)' => Uses(w, g)) /\ ~Owned(w, g)'
  BY <1>1, <1>4, <1>5, <1>9, ZenonT(60) DEF Uses, Owned, Filled, Filling
<1>14. PinStep(w, f)
  BY <1>7 DEF PinStep
<1>15. GrabStep(w, f)
  BY <1>7, Zenon DEF GrabStep
<1>16. FieldStep(w, f)
  BY <1>7, Zenon DEF FieldStep, EntryInv
<1>17. MainStep /\ windowCount' <= WindowCap
  BY <1>6, <1>7, CountsKept, Zenon DEF PinInv, counts
<1>18. LockStep(w) /\ NoPanic' /\ bg' = bg
  BY <1>1, Zenon DEF LockStep, NoPanic
<1> QED
  BY <1>5, <1>6, <1>8, <1>11, <1>12, <1>13, <1>14, <1>15, <1>16, <1>17, <1>18, OneStep, Zenon

\* promoteToProtected.
LEMMA PromoteStep ==
    ASSUME PinInv, NEW w \in Procs, promoteToProtected(w) PROVE GoodStep(w)
<1>1. proc[w].pc = "promote" /\ wmu = Nil
  BY Zenon DEF promoteToProtected, At
<1>2. CASE Goto(w, proc[w].ret) /\ UNCHANGED <<en, counts, wmu>>
  BY <1>1, <1>2, PromoteNothing, Zenon DEF promoteToProtected
<1>3. CASE /\ en[proc[w].inc].seg = "probation" /\ protectedCount < ProtectedCap
           /\ en' = [en EXCEPT ![proc[w].inc].seg = "protected"]
           /\ probationCount' = probationCount - 1
           /\ protectedCount' = protectedCount + 1
           /\ Goto(w, proc[w].ret)
           /\ UNCHANGED <<windowCount, wmu>>
  BY <1>1, <1>3, PromoteRoom, ZenonT(60) DEF promoteToProtected
<1>4. CASE /\ en[proc[w].inc].seg = "probation"
           /\ \E f \in Frames : /\ Eligible(f, "protected")
                                /\ en' = [en EXCEPT ![f] = Victim(@)]
                                /\ proc' = [proc EXCEPT ![w].main = f, ![w].pc = "swap"]
           /\ wmu' = w
           /\ UNCHANGED counts
  BY <1>1, <1>4, PromoteVictim, ZenonT(60) DEF promoteToProtected
<1> QED BY <1>2, <1>3, <1>4, ZenonT(60) DEF promoteToProtected

\* swapProtected: the entry and the victim change places.
LEMMA SwapStep ==
    ASSUME PinInv, NEW w \in Procs, swapProtected(w) PROVE GoodStep(w)
<1>1. /\ TypeOK /\ JobInv(w) /\ FrameInv(w) /\ NoPanic /\ proc[w] \in Proc /\ Nil \notin Frames
      /\ proc[w].pc = "swap" /\ w # Nil
  BY Known, Zenon DEF swapProtected, At
<1>2. PICK v \in Frames, e \in Frames : v = proc[w].main /\ e = proc[w].inc
  BY <1>1, Zenon DEF JobInv
<1>3. /\ proc[w].wind = Nil /\ wmu = w /\ proc[w].fr \in Frames /\ v # proc[w].fr
      /\ proc[w].pid \in Pages /\ proc[w].op # "delete"
  BY <1>1, <1>2, Zenon DEF JobInv, Chosen, Locked, Filled
<1>4. en[proc[w].fr].occ /\ en[v].seg = "protected" /\ en[e].seg = "probation" /\ v # e
  BY <1>1, <1>2, ZenonT(60) DEF FrameInv, Filled
<1>5. EntryInv(v) /\ EntryInv(e) /\ en[v] \in Entry /\ en[e] \in Entry
  BY <1>1, Zenon DEF PinInv, TypeOK
<1>6. en[v].pins > 0 /\ en[v].acc
  <2>1. w \in Holders(v)
    BY <1>2, Zenon DEF Holders
  <2> QED BY <1>5, <2>1, UsedIsPinned, ZenonT(60)
<1>7. en' = [en EXCEPT ![v] = Released(en[v], "protected", "probation"),
                       ![e] = Moved(en[e], "probation", "protected")]
  BY <1>1, <1>2, <1>4, Zenon DEF swapProtected, Released, TypeOK
<1>8. /\ Released(en[v], "protected", "probation") \in Entry
      /\ Moved(en[e], "probation", "protected") \in Entry
  BY <1>5, <1>6, ReleasedFacts, MovedFacts, Zenon DEF Segments
<1>9. /\ en' \in [Frames -> Entry] /\ en'[v] = Released(en[v], "protected", "probation")
      /\ en'[e] = Moved(en[e], "probation", "protected")
      /\ \A g \in Frames \ {v, e} : en'[g] = en[g]
  BY <1>1, <1>4, <1>7, <1>8, ZenonT(60) DEF TypeOK
<1>10. /\ en'[v].pins = en[v].pins - 1 /\ (en'[v].acc <=> en'[v].pins > 0) /\ ~en'[v].marked
       /\ en'[v].seg = "probation" /\ en'[v].occ = en[v].occ /\ en'[v].dead = en[v].dead
  BY <1>4, <1>5, <1>6, <1>9, ReleasedFacts DEF Segments
<1>11. /\ en'[e].pins = en[e].pins /\ en'[e].acc = en[e].acc /\ en'[e].marked = en[e].marked
       /\ en'[e].seg = "protected" /\ en'[e].occ = en[e].occ /\ en'[e].dead = en[e].dead
  BY <1>4, <1>5, <1>9, MovedFacts DEF Segments
<1>12. PICK pc \in {"hold", "store"} : pc = proc[w].ret
  BY <1>1, Zenon DEF Proc
<1>13. PICK p : p = [proc[w] EXCEPT !.main = Nil, !.pc = pc]
  OBVIOUS
<1>14. p \in Proc
  BY <1>1, <1>13, ZenonT(60) DEF Proc
<1>15. /\ p.pc = pc /\ p.main = Nil /\ p.fr = proc[w].fr
       /\ p.op = proc[w].op /\ p.pid = proc[w].pid /\ p.wind = Nil
  BY <1>1, <1>3, <1>13, Zenon DEF Proc
<1>16. proc' \in [Procs -> Proc] /\ proc'[w] = p /\ \A x \in Procs \ {w} : proc'[x] = proc[x]
  BY <1>1, <1>12, <1>13, <1>14, Zenon DEF TypeOK, swapProtected
<1>17. TypeOK' /\ NoPanic' /\ wmu' = Nil /\ bg' = bg /\ UNCHANGED counts
  BY <1>1, <1>2, <1>6, <1>9, <1>16, ZenonT(60) DEF TypeOK, counts, history, swapProtected, CanUnref, NoPanic
<1>18. JobInv(w)'
  BY <1>1, <1>3, <1>15, <1>16, <1>17, ZenonT(60) DEF JobInv, Locked, Evicting, Chosen, Filled, Filling
<1>19. FrameInv(w)'
  <2>1. en'[proc[w].fr].occ
    BY <1>3, <1>4, <1>9, <1>11, Zenon
  <2> QED BY <1>15, <1>16, <2>1, Zenon DEF FrameInv, Filled, Filling
<1>20. /\ \A g \in Frames : (Uses(w, g)' => Uses(w, g)) /\ ~Owned(w, g)'
       /\ Uses(w, v) /\ ~Uses(w, v)' /\ Owned(w, v)
  BY <1>1, <1>2, <1>3, <1>15, <1>16, Zenon DEF Uses, Owned, Filled, Filling
<1>21. Touch(w, v)
  <2>1. PinStep(w, v)
    BY <1>10, <1>20, Zenon DEF PinStep
  <2>2. GrabStep(w, v)
    BY <1>20, Zenon DEF GrabStep
  <2>3. FieldStep(w, v)
    BY <1>4, <1>5, <1>10, <1>20, ZenonT(60) DEF FieldStep, EntryInv
  <2> QED BY <2>1, <2>2, <2>3, Zenon DEF Touch
<1>22. Touch(w, e)
  <2>1. PinStep(w, e)
    BY <1>5, <1>11, <1>20, ZenonT(60) DEF PinStep, EntryInv
  <2>2. GrabStep(w, e)
    BY <1>20, Zenon DEF GrabStep
  <2>3. FieldStep(w, e)
    BY <1>3, <1>4, <1>5, <1>11, ZenonT(60) DEF FieldStep, EntryInv
  <2> QED BY <2>1, <2>2, <2>3, Zenon DEF Touch
<1>23. \A g \in Frames : Touch(w, g)
  BY <1>9, <1>20, <1>21, <1>22, Untouched, Zenon
<1>24. MainStep /\ windowCount' <= WindowCap
  <2>1. \A s : \A g \in Frames \ {v, e} : en'[g].seg = s <=> en[g].seg = s
    BY <1>9, Zenon
  <2>2. /\ en[v].seg = "protected" /\ en'[v].seg = "probation"
        /\ en[e].seg = "probation" /\ en'[e].seg = "protected" /\ v # e
    BY <1>4, <1>10, <1>11, Zenon
  <2>3. "probation" # "protected" /\ \A s : \A g \in Frames \ {e, v} : en'[g].seg = s <=> en[g].seg = s
    BY <2>1
  <2>4. Swaps("protected")
    BY <2>1, <2>2, <2>3, SegmentStep, Zenon
  <2>5. Swaps("probation")
    BY <2>2, <2>3, SegmentStep, Zenon
  <2> QED BY <1>17, <2>4, <2>5, ZenonT(60) DEF MainCountsExact, PinInv, counts, MainStep, CountStep
<1>25. LockStep(w)
  BY <1>3, <1>17, Zenon DEF LockStep
<1> QED BY <1>16, <1>17, <1>18, <1>19, <1>23, <1>24, <1>25, Zenon DEF GoodStep

-----------------------------------------------------------------------------
(* The caller that was handed a frame.                                     *)

\* A write into the frame.
LEMMA WriteStep ==
    ASSUME PinInv, NEW w \in Procs, Write(w) PROVE GoodStep(w)
<1>1. /\ TypeOK /\ JobInv(w) /\ FrameInv(w) /\ NoPanic /\ proc[w].pc = "hold" /\ wmu # w
  BY Known, Zenon DEF Write, At, JobInv, Locked
<1>2. PICK f \in Frames : f = proc[w].fr
  BY <1>1, Zenon DEF JobInv, Filled
<1>3. /\ UNCHANGED <<CacheMap, latch, counts, wmu, proc, bg, disk, freeList, jobs, panic>>
      /\ writes' \in 0..MaxWrites /\ writes + 2 \in Versions
  BY <1>1, ShardAssumption DEF Write, TypeOK, Versions
<1>4. PICK e : e = [en[f] EXCEPT !.data = writes + 2, !.dirty = TRUE]
  OBVIOUS
<1>5. en[f] \in Entry /\ EntryInv(f)
  BY <1>1, Zenon DEF TypeOK, PinInv
<1>6. /\ e \in Entry
      /\ e.occ = en[f].occ /\ e.dead = en[f].dead /\ e.pins = en[f].pins /\ e.acc = en[f].acc
      /\ e.seg = en[f].seg /\ e.marked = en[f].marked
  BY <1>3, <1>4, <1>5, ZenonT(60) DEF Entry
<1>7. en' \in [Frames -> Entry] /\ en'[f] = e /\ \A g \in Frames \ {f} : en'[g] = en[g]
  BY <1>1, <1>2, <1>4, <1>6, ZenonT(60) DEF TypeOK, Write
<1>8. latest' \in [Pages -> Versions]
  BY <1>1, <1>3, ZenonT(60) DEF TypeOK, Write
<1>9. TypeOK'
  BY <1>1, <1>3, <1>7, <1>8, Zenon DEF TypeOK, counts
<1>10. JobInv(w)'
  BY <1>1, <1>3, ZenonT(60) DEF JobInv, counts
<1>11. FrameInv(w)'
  <2>1. \A g \in Frames : en'[g].occ = en[g].occ /\ en'[g].seg = en[g].seg /\ en'[g].marked = en[g].marked
    BY <1>6, <1>7, Zenon
  <2>2. proc'[w] = proc[w] /\ proc[w].wind = Nil /\ proc[w].main = Nil /\ en'[proc[w].fr].occ
    BY <1>1, <1>2, <1>3, <2>1, ZenonT(60) DEF JobInv, FrameInv, Chosen, Filled
  <2> QED BY <1>1, <2>2, Zenon DEF FrameInv, Filled, Filling
<1>12. \A g \in Frames : (Uses(w, g)' => Uses(w, g)) /\ (Owned(w, g)' => Owned(w, g))
  BY <1>3, Zenon DEF Uses, Owned
<1>13. PinStep(w, f)
  BY <1>5, <1>6, <1>7, <1>12, ZenonT(60) DEF PinStep, EntryInv
<1>14. GrabStep(w, f)
  BY <1>12, Zenon DEF GrabStep
<1>15. FieldStep(w, f)
  BY <1>5, <1>6, <1>7, ZenonT(60) DEF FieldStep, EntryInv, SameFields
<1>16. MainStep /\ windowCount' <= WindowCap
  <2>1. \A g \in Frames : en'[g].seg = en[g].seg
    BY <1>6, <1>7, Zenon
  <2> QED BY <1>3, <2>1, CountsKept, Zenon DEF PinInv, counts
<1>17. LockStep(w) /\ NoPanic' /\ bg' = bg /\ \A x \in Procs \ {w} : proc'[x] = proc[x]
  BY <1>1, <1>3, ZenonT(60) DEF LockStep, NoPanic, counts
<1> QED BY <1>7, <1>9, <1>10, <1>11, <1>12, <1>13, <1>14, <1>15, <1>16, <1>17, OneStep, ZenonT(60)

\* The frame is given back.
LEMMA UnreferenceStep ==
    ASSUME PinInv, NEW w \in Procs, Unreference(w) PROVE GoodStep(w)
<1>1. /\ TypeOK /\ JobInv(w) /\ FrameInv(w) /\ NoPanic /\ proc[w].pc = "hold" /\ wmu # w
  BY Known, ZenonT(60) DEF Unreference, At, JobInv, Locked
<1>2. PICK f \in Frames : f = proc[w].fr
  BY <1>1, Zenon DEF JobInv, Filled
<1>3. UNCHANGED <<CacheMap, latch, counts, wmu, bg, disk, freeList, history>> /\ Done(w)
  BY Zenon DEF Unreference
<1>4. en[f] \in Entry /\ EntryInv(f) /\ Uses(w, f)
  BY <1>1, <1>2, ZenonT(60) DEF TypeOK, PinInv, Uses, Filled
<1>5. en[f].pins > 0 /\ en[f].acc
  <2>1. w \in Holders(f)
    BY <1>1, <1>2, ZenonT(60) DEF Holders
  <2> QED BY <1>4, <2>1, UsedIsPinned, ZenonT(60)
<1>6. /\ en' \in [Frames -> Entry] /\ en'[f] = Unpinned(en[f])
      /\ \A g \in Frames \ {f} : en'[g] = en[g]
  BY <1>1, <1>2, <1>4, <1>5, UnpinnedFacts, ZenonT(60) DEF TypeOK, Unreference
<1>7. /\ en'[f].occ = en[f].occ /\ en'[f].seg = en[f].seg
      /\ en'[f].dead = en[f].dead /\ en'[f].pins = en[f].pins - 1
      /\ (en'[f].acc <=> en'[f].pins > 0) /\ en'[f].marked = en[f].marked
  BY <1>4, <1>5, <1>6, UnpinnedFacts, ZenonT(60)
<1>8. /\ proc' \in [Procs -> Proc] /\ proc'[w] = Idle
      /\ \A x \in Procs \ {w} : proc'[x] = proc[x]
  BY <1>1, <1>3, DoneFacts, ZenonT(60)
<1>9. JobInv(w)' /\ FrameInv(w)' /\ \A g \in Frames : ~Uses(w, g)' /\ ~Owned(w, g)'
  BY <1>1, <1>3, <1>8, IdleHolds, Zenon
<1>10. NoPanic' /\ panic' \in BOOLEAN
  BY <1>2, <1>5, ZenonT(60) DEF Unreference, CanUnref, NoPanic
<1>11. TypeOK'
  BY <1>1, <1>3, <1>6, <1>8, <1>10, Zenon DEF TypeOK, counts, history
<1>12. PinStep(w, f)
  BY <1>4, <1>7, <1>9, ZenonT(60) DEF PinStep
<1>13. GrabStep(w, f)
  BY <1>9, Zenon DEF GrabStep
<1>14. FieldStep(w, f)
  BY <1>4, <1>7, ZenonT(60) DEF FieldStep, EntryInv, SameFields
<1>15. MainStep /\ windowCount' <= WindowCap
  <2>1. \A g \in Frames : en'[g].seg = en[g].seg
    BY <1>6, <1>7, Zenon
  <2> QED BY <1>3, <2>1, CountsKept, ZenonT(60) DEF PinInv, counts
<1>16. LockStep(w) /\ bg' = bg
  BY <1>1, <1>3, Zenon DEF LockStep, counts
<1> QED
  BY <1>6, <1>8, <1>9, <1>10, <1>11, <1>12, <1>13, <1>14, <1>15, <1>16, OneStep, Zenon

-----------------------------------------------------------------------------
(* The background writer.                                                  *)

\* Pager.WritePage writes a version or nothing.
LEMMA WritePageType ==
    ASSUME TypeOK, NEW k \in Pages \cup {Nil}, NEW d \in Versions, NEW dead, WritePage(k, d, dead)
    PROVE  disk' \in [Pages -> Versions] /\ freeList' \subseteq Pages
<1>1. 0 \in Versions
  BY ShardAssumption DEF Versions
<1> QED BY <1>1, Zenon DEF WritePage, TypeOK

\* An entry that the background writer leaves alone.
LEMMA BgUntouched ==
    ASSUME PinInv, NEW f \in Frames, en'[f] = en[f], bg'.fr # f
    PROVE  BgTouch(f)
  BY Zenon DEF PinInv, EntryInv, BgTouch, SameFields

\* It takes a free entry ...
LEMMA RefIfNotStep ==
    ASSUME PinInv, refIfNotReferenced PROVE GoodBgStep
<1>1. PICK f \in Frames : /\ en[f].occ /\ ~en[f].acc /\ ~en[f].marked
                          /\ en' = [en EXCEPT ![f] = Pinned(@)]
                          /\ bg' = [bg EXCEPT !.pc = "copy", !.fr = f]
  BY ZenonT(60) DEF refIfNotReferenced
<1>2. UNCHANGED <<CacheMap, latch, counts, wmu, proc, disk, freeList, history, panic>>
  BY Zenon DEF refIfNotReferenced
<1>3. TypeOK /\ NoPanic /\ BgInv /\ EntryInv(f) /\ en[f] \in Entry /\ Nil \notin Frames
  BY ShardAssumption, Zenon DEF PinInv, TypeOK
<1>4. /\ en' \in [Frames -> Entry] /\ en'[f] = Pinned(en[f])
      /\ \A g \in Frames \ {f} : en'[g] = en[g]
  BY <1>1, <1>3, PinnedFacts, Zenon DEF TypeOK
<1>5. /\ en'[f].pins = en[f].pins + 1 /\ en'[f].acc /\ SameFields(f) /\ en'[f].dead = en[f].dead
      /\ en[f].pins \in Nat
  BY <1>3, <1>4, PinnedFacts, EntryFields DEF SameFields
<1>6. /\ bg' \in [pc : {"idle", "copy", "write"}, fr : Frames \cup {Nil},
                  key : Pages \cup {Nil}, data : Versions, dead : BOOLEAN]
      /\ bg'.pc = "copy" /\ bg'.fr = f /\ bg'.dead = bg.dead
  BY <1>1, <1>3, ZenonT(60) DEF TypeOK
<1>7. TypeOK'
  BY <1>2, <1>3, <1>4, <1>6, Zenon DEF TypeOK, counts, history
<1>8. BgInv' /\ NoPanic'
  BY <1>2, <1>3, <1>6, Zenon DEF BgInv, NoPanic
<1>9. BgTouch(f)
  BY <1>1, <1>5 DEF BgTouch
<1>10. \A g \in Frames : BgTouch(g)
  BY <1>4, <1>6, <1>9, BgUntouched, Zenon
<1> QED BY <1>2, <1>7, <1>8, <1>10, Zenon DEF GoodBgStep

\* ... and gives it back.
LEMMA BgRelease ==
    ASSUME PinInv, bg.pc # "idle", en' = [en EXCEPT ![bg.fr] = Unpinned(@)],
           panic' = ~CanUnref(en[bg.fr]), bg' = BgIdle,
           disk' \in [Pages -> Versions], freeList' \subseteq Pages,
           UNCHANGED <<CacheMap, latch, counts, wmu, proc, history>>
    PROVE  GoodBgStep
<1>1. TypeOK /\ NoPanic /\ BgInv /\ Nil \notin Frames
  BY ShardAssumption, Zenon DEF PinInv
<1>2. PICK f \in Frames : f = bg.fr
  BY <1>1, Zenon DEF TypeOK, BgInv
<1>3. EntryInv(f) /\ en[f] \in Entry
  BY <1>1, Zenon DEF PinInv, TypeOK
<1>4. en[f].pins > 0 /\ en[f].acc
  <2>1. Nil \in Holders(f)
    BY <1>2, ZenonT(60) DEF Holders
  <2> QED BY <1>1, <1>3, <2>1, UsedIsPinned, Zenon
<1>5. /\ en' \in [Frames -> Entry] /\ en'[f] = Unpinned(en[f])
      /\ \A g \in Frames \ {f} : en'[g] = en[g]
  BY <1>1, <1>2, <1>3, <1>4, UnpinnedFacts, Zenon DEF TypeOK
<1>6. /\ SameFields(f) /\ en'[f].dead = en[f].dead /\ en'[f].pins = en[f].pins - 1
      /\ (en'[f].acc <=> en'[f].pins > 0)
  BY <1>3, <1>4, <1>5, UnpinnedFacts DEF SameFields
<1>7. /\ bg' \in [pc : {"idle", "copy", "write"}, fr : Frames \cup {Nil},
                  key : Pages \cup {Nil}, data : Versions, dead : BOOLEAN]
      /\ bg'.pc = "idle" /\ bg'.fr = Nil /\ ~bg'.dead
  BY ShardAssumption DEF BgIdle, Versions
<1>8. NoPanic' /\ panic' \in BOOLEAN
  BY <1>2, <1>4, ZenonT(60) DEF CanUnref, NoPanic
<1>9. TypeOK'
  BY <1>1, <1>5, <1>7, <1>8, Zenon DEF TypeOK, counts, history
<1>10. BgInv'
  BY <1>7, Zenon DEF BgInv
<1>11. BgTouch(f)
  BY <1>1, <1>2, <1>6, <1>7, Zenon DEF BgTouch
<1>12. \A g \in Frames : BgTouch(g)
  BY <1>1, <1>5, <1>7, <1>11, BgUntouched, Zenon
<1> QED BY <1>8, <1>9, <1>10, <1>12, Zenon DEF GoodBgStep

\* In between it copies the frame and marks it clean.
LEMMA BgCopyStep ==
    ASSUME PinInv, bgCopy PROVE GoodBgStep
<1>1. TypeOK /\ NoPanic /\ BgInv /\ Nil \notin Frames /\ bg.pc = "copy"
  BY ShardAssumption, Zenon DEF PinInv, bgCopy, BgAt
<1>2. UNCHANGED <<CacheMap, latch, counts, wmu, proc, disk, freeList, history>>
  BY Zenon DEF bgCopy
<1>3. PICK f \in Frames : f = bg.fr
  BY <1>1, Zenon DEF TypeOK, BgInv
<1>4. EntryInv(f) /\ en[f] \in Entry
  BY <1>1, Zenon DEF PinInv, TypeOK
<1>5. CASE en' = [en EXCEPT ![bg.fr] = Unpinned(@)] /\ panic' = ~CanUnref(en[bg.fr]) /\ bg' = BgIdle
  BY <1>1, <1>2, <1>5, BgRelease, Zenon DEF TypeOK
<1>6. CASE /\ en' = [en EXCEPT ![f].dirty = FALSE] /\ panic' = panic
           /\ bg' = [bg EXCEPT !.pc = "write", !.key = en[f].key, !.data = en[f].data, !.dead = en[f].dead]
  <2>1. PICK e : e = [en[f] EXCEPT !.dirty = FALSE]
    BY ZenonT(60)
  <2>2. /\ e \in Entry /\ e.occ = en[f].occ /\ e.seg = en[f].seg /\ e.dead = en[f].dead
        /\ e.pins = en[f].pins /\ e.acc = en[f].acc /\ e.marked = en[f].marked
    BY <1>4, <2>1, ZenonT(60) DEF Entry
  <2>3. en' \in [Frames -> Entry] /\ en'[f] = e /\ \A g \in Frames \ {f} : en'[g] = en[g]
    BY <1>1, <1>6, <2>1, <2>2, Zenon DEF TypeOK
  <2>4. /\ en[f].key \in Pages \cup {Nil} /\ en[f].data \in Versions /\ en[f].dead \in BOOLEAN
        /\ ~en[f].dead
    BY <1>4, EntryFields, Zenon DEF EntryInv
  <2>5. /\ bg' \in [pc : {"idle", "copy", "write"}, fr : Frames \cup {Nil},
                    key : Pages \cup {Nil}, data : Versions, dead : BOOLEAN]
        /\ bg'.pc = "write" /\ bg'.fr = f /\ ~bg'.dead
    BY <1>1, <1>3, <1>6, <2>4, ZenonT(60) DEF TypeOK
  <2>6. TypeOK'
    BY <1>1, <1>2, <1>6, <2>3, <2>5, Zenon DEF TypeOK, counts, history
  <2>7. BgInv' /\ NoPanic'
    BY <1>1, <1>6, <2>5, Zenon DEF BgInv, NoPanic
  <2>8. BgTouch(f)
    BY <1>3, <1>4, <2>2, <2>3, ZenonT(60) DEF BgTouch, SameFields, EntryInv
  <2>9. \A g \in Frames : BgTouch(g)
    BY <2>3, <2>5, <2>8, BgUntouched, Zenon
  <2> QED BY <1>2, <2>6, <2>7, <2>9, Zenon DEF GoodBgStep
<1> QED BY <1>3, <1>5, <1>6, Zenon DEF bgCopy

\* bgWrite: the copy is written, or the write fails, and the entry released.
LEMMA BgWriteStep ==
    ASSUME PinInv, bgWrite PROVE GoodBgStep
<1>1. TypeOK /\ bg.pc = "write" /\ bg.key \in Pages \cup {Nil} /\ bg.data \in Versions
  BY Zenon DEF PinInv, bgWrite, BgAt, TypeOK
<1>2. disk' \in [Pages -> Versions] /\ freeList' \subseteq Pages
  <2>1. CASE WritePage(bg.key, bg.data, bg.dead)
    BY <1>1, <2>1, WritePageType, Zenon
  <2>2. CASE UNCHANGED <<disk, freeList>>
    BY <1>1, <2>2, Zenon DEF TypeOK
  <2> QED BY <2>1, <2>2, Zenon DEF bgWrite
<1> QED BY <1>1, <1>2, BgRelease, Zenon DEF bgWrite
=============================================================================
