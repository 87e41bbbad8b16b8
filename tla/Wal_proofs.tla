----------------------------- MODULE Wal_proofs -----------------------------
(***************************************************************************)
(* Proofs about the LSNs of the write-ahead log, for any number of clients *)
(* and any sizes of pages, headers, logs and checkpoints.                  *)
(***************************************************************************)
EXTENDS Wal, TLAPS

\* What assignLSN has left behind.
LsnType ==
    /\ maxPage \in Nat /\ maxOffset \in Nat
    /\ lsns \in Seq(Item)

\* The page layout, and the sizes that assignLSN is called with.
LEMMA Layout ==
    /\ PAGE \in Nat /\ HDR \in Nat \ {0} /\ CHK \in Nat \ {0} /\ HDR + CHK < PAGE
    /\ \A s \in Sizes \cup {CHK} : s \in Nat \ {0}
BY LayoutAssumption

\* A page number times the size of a page, and the next page.
LEMMA PageStart == \A n \in Nat : n * PAGE \in Nat /\ (n + 1) * PAGE = n * PAGE + PAGE
BY Layout

\* Addresses are numbers.
LEMMA AddrType ==
    ASSUME LsnType PROVE NextAddr \in Nat /\ \A i \in Items : Addr(lsns[i]) \in Nat /\ lsns[i].size \in Nat
<1>1. \A i \in Items : lsns[i].page \in Nat /\ lsns[i].off \in Nat /\ lsns[i].size \in Nat
    <2>1. \A i \in Items : lsns[i] \in Item
        BY DEF LsnType, Items
    <2> QED
        BY <2>1 DEF Item
<1>2. ASSUME NEW i \in Items PROVE lsns[i].page * PAGE \in Nat
    <2>1. PICK n \in Nat : n = lsns[i].page
        BY <1>1
    <2> QED
        BY <2>1, PageStart
<1>3. maxPage * PAGE \in Nat
    BY PageStart DEF LsnType
<1> QED
    BY <1>1, <1>2, <1>3, SMTT(60) DEF LsnType, NextAddr, Addr

\* The offset that follows one at the end of an item.
Behind(o) == IF o >= PAGE THEN (o - PAGE) + HDR ELSE o

\* assignLSN moves the next LSN behind the item, over the header of a new page.
LEMMA AdvanceStep ==
    ASSUME LsnType, NEW size \in Sizes \cup {CHK}, Advance(size)
    PROVE  /\ maxPage' \in Nat /\ maxOffset' \in Nat
           /\ maxOffset < PAGE /\ size <= PAGE - HDR => maxOffset' < PAGE
           /\ HDR <= maxOffset => HDR <= maxOffset'
           /\ NextAddr + size <= NextAddr'
           /\ maxOffset' = Behind(maxOffset + size)
           /\ NextAddr' = NextAddr + size + (IF maxOffset + size >= PAGE THEN HDR ELSE 0)
<1>1. size \in Nat \ {0}
    BY Layout
<1>2. maxPage \in Nat /\ maxOffset \in Nat
    BY DEF LsnType
<1>3. maxPage * PAGE \in Nat /\ (maxPage + 1) * PAGE = maxPage * PAGE + PAGE
    BY <1>2, PageStart
<1>4. CASE maxOffset + size >= PAGE
    <2>1. maxOffset' = (maxOffset + size - PAGE) + HDR /\ maxPage' = maxPage + 1
        BY <1>1, <1>2, <1>4, Layout DEF Advance
    <2>2. PICK start \in Nat : maxPage * PAGE = start /\ maxPage' * PAGE = start + PAGE
        BY <1>3, <2>1
    <2>3. NextAddr = start + maxOffset /\ NextAddr' = start + PAGE + maxOffset'
        BY <1>2, <2>1, <2>2, Layout DEF NextAddr
    <2> QED
        BY <1>1, <1>2, <1>4, <2>1, <2>3, Layout DEF Behind
<1>5. CASE ~(maxOffset + size >= PAGE)
    <2>1. maxOffset' = maxOffset + size /\ maxPage' = maxPage
        BY <1>5 DEF Advance
    <2> QED
        BY <1>1, <1>2, <1>3, <1>5, <2>1, Layout DEF NextAddr, Behind
<1> QED
    BY <1>4, <1>5

\* The offsets, without what follows from them for checkLogOverflow.
OffsetInv ==
    /\ \A i \in Items : HDR <= lsns[i].off /\ (Fit(i - 1) => lsns[i].off < PAGE)
    /\ HDR <= maxOffset
    /\ AllFit => maxOffset < PAGE

\* LsnType, OffsetInv and LsnsDisjoint are inductive together.
LEMMA AssignStep ==
    ASSUME LsnType, OffsetInv, LsnsDisjoint, NEW kind \in {"log", "checkpoint"},
           NEW size \in Sizes \cup {CHK}, NEW redo \in Nat, NEW upto \in Nat,
           assignLSN(kind, size, redo, upto)
    PROVE  LsnType' /\ OffsetInv' /\ LsnsDisjoint'
<1> DEFINE l == [kind |-> kind, page |-> maxPage, off |-> maxOffset,
                 size |-> size, redo |-> redo, upto |-> upto]
           n == Len(lsns) + 1
<1>1. size \in Nat \ {0}
    BY Layout
<1>2. l \in Item /\ lsns \in Seq(Item) /\ lsns' = Append(lsns, l)
    BY <1>1 DEF Item, LsnType, assignLSN
<1>3. /\ lsns' \in Seq(Item) /\ Len(lsns) \in Nat /\ Len(lsns') = n
      /\ lsns'[n] = l /\ \A i \in Items : lsns'[i] = lsns[i]
    BY <1>2 DEF Items
<1>4. /\ maxPage' \in Nat /\ maxOffset' \in Nat
      /\ HDR <= maxOffset'
      /\ maxOffset < PAGE /\ size <= PAGE - HDR => maxOffset' < PAGE
      /\ NextAddr + size <= NextAddr'
    BY AdvanceStep DEF assignLSN, OffsetInv
<1>5. LsnType'
    BY <1>3, <1>4 DEF LsnType
<1>6. \A i \in Items' : i \in Items \/ i = n
    BY <1>3 DEF Items
<1>7. OffsetInv'
    <2>0. PICK m \in Nat : m = Len(lsns)
        BY <1>3
    <2>1. \A i \in Items' : \A j \in 1..(i - 1) : j \in Items
        BY <1>3, <1>6 DEF Items
    <2>2. \A i \in Items : Fit(i - 1)' => Fit(i - 1)
        BY <1>3, <1>6, <2>1 DEF Fit, Items
    <2>3. Fit(m)' => AllFit
        BY <1>3, <2>0 DEF Fit, AllFit, Items
    <2>4. AllFit' => AllFit /\ size <= PAGE - HDR
        <3>1. AllFit' => Fit(m)' /\ lsns'[n].size <= PAGE - HDR
            BY <1>3, <2>0 DEF AllFit, Fit
        <3> QED
            BY <1>3, <2>3, <3>1
    <2>5. ASSUME NEW i \in Items' PROVE HDR <= lsns'[i].off /\ (Fit(i - 1)' => lsns'[i].off < PAGE)
        <3>1. CASE i \in Items
            BY <1>3, <2>2, <3>1 DEF OffsetInv
        <3>2. CASE i = n
            <4>1. lsns'[n].off = maxOffset
                BY <1>3
            <4>2. i - 1 = m
                BY <2>0, <3>2
            <4> QED
                BY <2>3, <3>2, <4>1, <4>2 DEF OffsetInv
        <3> QED
            BY <1>6, <3>1, <3>2
    <2> QED
        BY <1>4, <2>4, <2>5 DEF OffsetInv
<1>8. /\ NextAddr \in Nat /\ NextAddr' \in Nat
      /\ \A i \in Items : Addr(lsns[i]) \in Nat /\ lsns[i].size \in Nat
    <2>1. maxPage' * PAGE \in Nat
        BY <1>4, PageStart
    <2>2. NextAddr' = maxPage' * PAGE + maxOffset'
        BY DEF NextAddr
    <2> QED
        BY <1>4, <2>1, <2>2, AddrType
<1>9. /\ \A i \in Items : Addr(lsns'[i]) = Addr(lsns[i]) /\ lsns'[i].size = lsns[i].size
      /\ Addr(lsns'[n]) = NextAddr /\ lsns'[n].size = size
    BY <1>3 DEF Addr, NextAddr
<1>10. ASSUME NEW i \in Items' PROVE Addr(lsns'[i]) + lsns'[i].size <= NextAddr'
    BY <1>1, <1>4, <1>6, <1>8, <1>9, SMTT(60) DEF LsnsDisjoint
<1>11. ASSUME NEW i \in Items', NEW j \in Items', i < j
       PROVE  Addr(lsns'[i]) + lsns'[i].size <= Addr(lsns'[j])
    <2>1. i \in Items
        BY <1>3, <1>6, <1>11 DEF Items
    <2>2. CASE j \in Items
        BY <1>9, <1>11, <2>1, <2>2 DEF LsnsDisjoint
    <2>3. CASE j = n
        BY <1>9, <2>1, <2>3 DEF LsnsDisjoint
    <2> QED
        BY <1>6, <2>2, <2>3
<1>12. LsnsDisjoint'
    BY <1>10, <1>11 DEF LsnsDisjoint, Addr, Items
<1> QED
    BY <1>5, <1>7, <1>12

\* So every step keeps them, and only assignLSN has to be looked at.
LEMMA LsnStep ==
    LsnType /\ OffsetInv /\ LsnsDisjoint /\ [Next]_vars => LsnType' /\ OffsetInv' /\ LsnsDisjoint'
<1> SUFFICES ASSUME LsnType, OffsetInv, LsnsDisjoint, [Next]_vars
             PROVE  LsnType' /\ OffsetInv' /\ LsnsDisjoint'
    OBVIOUS
<1>1. ASSUME NEW c \in Clients, AddLog(c) PROVE LsnType' /\ OffsetInv' /\ LsnsDisjoint'
    BY <1>1, AssignStep DEF AddLog
<1>2. ASSUME NEW i \in Items, AddCheckpoint(i) PROVE LsnType' /\ OffsetInv' /\ LsnsDisjoint'
    <2>1. RedoPoint(i) \in Nat
        BY AddrType DEF RedoPoint
    <2>2. i \in Nat
        BY DEF Items, LsnType
    <2> QED
        BY <1>2, <2>1, <2>2, AssignStep DEF AddCheckpoint
<1>3. ASSUME UNCHANGED <<maxPage, maxOffset, lsns>>
      PROVE  LsnType' /\ OffsetInv' /\ LsnsDisjoint'
    BY <1>3 DEF LsnType, OffsetInv, LsnsDisjoint, Items, Addr, NextAddr, Fit, AllFit
<1>4. ASSUME NEW c \in Clients, Add(c) PROVE UNCHANGED <<maxPage, maxOffset, lsns>>
    BY <1>4 DEF Add
<1>5. ASSUME AddCheckpointRecord \/ truncateConfig \/ saveCheckpoint \/ flushWal \/ writeWal
      PROVE  UNCHANGED <<maxPage, maxOffset, lsns>>
    BY <1>5 DEF AddCheckpointRecord, truncateConfig, saveCheckpoint, flushWal, writeWal
<1> QED
    BY <1>1, <1>2, <1>3, <1>4, <1>5 DEF Next, Checkpoint, vars

\* They hold in every state.
LEMMA LsnInvariant == Spec => [](LsnType /\ OffsetInv /\ LsnsDisjoint)
<1>1. Init => LsnType /\ OffsetInv /\ LsnsDisjoint
    <2> SUFFICES ASSUME Init PROVE LsnType /\ OffsetInv /\ LsnsDisjoint
        OBVIOUS
    <2>1. /\ maxPage = 0 /\ maxOffset = HDR + CHK /\ lsns = <<FirstCheckpoint>>
          /\ Len(lsns) = 1 /\ lsns[1] = FirstCheckpoint
        BY DEF Init
    <2>2. FirstCheckpoint \in Item
        BY Layout DEF FirstCheckpoint, Item
    <2>3. LsnType
        BY <2>1, <2>2, Layout DEF LsnType
    <2>4. Items = {1}
        BY <2>1 DEF Items
    <2>5. Addr(lsns[1]) = HDR /\ lsns[1].size = CHK /\ lsns[1].off = HDR /\ NextAddr = HDR + CHK
        BY <2>1, Layout DEF Addr, NextAddr, FirstCheckpoint
    <2>6. OffsetInv
        BY <2>1, <2>4, <2>5, Layout DEF OffsetInv
    <2>7. LsnsDisjoint
        BY <2>4, <2>5, Layout DEF LsnsDisjoint
    <2> QED
        BY <2>3, <2>6, <2>7
<1> QED
    BY <1>1, LsnStep, PTL DEF Spec

\* assignLSN: the byte ranges of all logs and checkpoints are disjoint and in order.
THEOREM LsnsAreDisjoint == Spec => []LsnsDisjoint
BY LsnInvariant, PTL

\* assignLSN and checkLogOverflow: no LSN points into a page header and, until a log
\* or checkpoint is larger than what a page holds, none points behind its page and
\* checkLogOverflow cuts every record within its bytes.
THEOREM OffsetsAreInPages == Spec => []OffsetInPage
<1>1. LsnType /\ OffsetInv => OffsetInPage
    <2> SUFFICES ASSUME LsnType, OffsetInv, NEW i \in Items, Fit(i) PROVE ~OutOfRange(i)
        BY DEF OffsetInv, OffsetInPage
    <2>1. i \in Nat \ {0} /\ lsns[i] \in Item
        BY DEF Items, LsnType
    <2>2. Fit(i - 1)
        BY <2>1 DEF Fit
    <2>3. PICK o \in Nat, s \in Nat : o = lsns[i].off /\ s = lsns[i].size /\ o < PAGE
        BY <2>1, <2>2 DEF Item, OffsetInv
    <2>4. o \div PAGE = 0 /\ PAGE * (o \div PAGE + 1) - o = PAGE - o
        <3>1. o \div PAGE = 0
            BY <2>3, Layout
        <3> QED
            BY <2>3, <3>1, Layout
    <2> QED
        BY <2>3, <2>4, Layout DEF OutOfRange, checkLogOverflow
<1> QED
    BY LsnInvariant, <1>1, PTL

-----------------------------------------------------------------------------
(* Where the records lie in the file.                                      *)

\* What assignLSN leaves as it was.
LEMMA AssignKeeps ==
    ASSUME LsnType, NEW kind, NEW size, NEW redo, NEW upto, assignLSN(kind, size, redo, upto)
    PROVE  /\ Items \subseteq Items' /\ Len(lsns) + 1 \in Items' /\ Items' = Items \cup {Len(lsns) + 1}
           /\ \A i \in Items : lsns'[i] = lsns[i]
           /\ lsns'[Len(lsns) + 1] = [kind |-> kind, page |-> maxPage, off |-> maxOffset,
                                      size |-> size, redo |-> redo, upto |-> upto]
<1>1. lsns \in Seq(Item) /\ Len(lsns) \in Nat
    BY DEF LsnType
<1>2. Len(lsns') = Len(lsns) + 1
    BY <1>1 DEF assignLSN
<1> QED
    BY <1>1, <1>2 DEF assignLSN, Items

\* Only items that received an LSN are on their way to the file.
FlowInv ==
    /\ client \in [Clients -> Items \cup {0}]
    /\ buffer \in Seq(Items) /\ taken \in Seq(Items)
    /\ cp \in [pc : {"idle", "assigned", "added", "truncated"}, id : Items \cup {0}]
    /\ cp.pc = "assigned" => cp.id \in Items

\* The sizes of the items, and the REDO points of the checkpoints.
ItemInv ==
    \A i \in Items :
        /\ lsns[i].size \in Nat \ {0}
        /\ lsns[i].kind = "checkpoint" /\ lsns[i].upto # 0 =>
                /\ lsns[i].upto \in Items
                /\ lsns[i].redo = Addr(lsns[lsns[i].upto]) + lsns[lsns[i].upto].size

\* The next LSN begins where an item ends.
ChainInv ==
    \A i \in Items :
        IF i < Len(lsns)
        THEN /\ lsns[i + 1].off = Behind(lsns[i].off + lsns[i].size)
             /\ Addr(lsns[i + 1]) = LsnEnd(lsns[i])
        ELSE /\ maxOffset = Behind(lsns[i].off + lsns[i].size)
             /\ NextAddr = LsnEnd(lsns[i])

\* The records of the file; a header is inserted into those that leave their page,
\* and the next record begins behind the last one.
FileInv ==
    /\ file \in Seq(Record) /\ Len(file) > 0
    /\ \A k \in 1..Len(file) :
        /\ file[k].id \in Items
        /\ file[k].cut > 0 <=> lsns[file[k].id].off + lsns[file[k].id].size >= PAGE
    /\ walSize = EndOf(file[Len(file)])
    /\ AlignedInOrder

\* A sequence over a set is one over every larger set.
LEMMA SeqGrows == \A S, T : S \subseteq T => Seq(S) \subseteq Seq(T)
OBVIOUS

\* Every step keeps FlowInv.
LEMMA FlowStep ==
    ASSUME LsnType, FlowInv, [Next]_vars PROVE FlowInv'
<1>1. ASSUME NEW c \in Clients, AddLog(c) PROVE FlowInv'
    <2>1. PICK size \in Sizes : assignLSN("log", size, 0, 0)
        BY <1>1 DEF AddLog
    <2>2. Items \subseteq Items' /\ Len(lsns) + 1 \in Items'
        BY <2>1, AssignKeeps
    <2>3. client' \in [Clients -> Items' \cup {0}]
        BY <1>1, <2>2 DEF AddLog, FlowInv
    <2>4. buffer' \in Seq(Items') /\ taken' \in Seq(Items')
        BY <1>1, <2>2, SeqGrows DEF AddLog, FlowInv
    <2> QED
        BY <1>1, <2>2, <2>3, <2>4 DEF AddLog, FlowInv
<1>2. ASSUME NEW i \in Items, AddCheckpoint(i) PROVE FlowInv'
    <2>1. Items \subseteq Items' /\ Len(lsns) + 1 \in Items'
        BY <1>2, AssignKeeps DEF AddCheckpoint
    <2>2. client' \in [Clients -> Items' \cup {0}]
        BY <1>2, <2>1 DEF AddCheckpoint, FlowInv
    <2>3. buffer' \in Seq(Items') /\ taken' \in Seq(Items')
        BY <1>2, <2>1, SeqGrows DEF AddCheckpoint, FlowInv
    <2> QED
        BY <1>2, <2>1, <2>2, <2>3 DEF AddCheckpoint, FlowInv
<1>3. ASSUME NEW c \in Clients, Add(c) PROVE FlowInv'
    <2>1. client[c] \in Items /\ lsns' = lsns
        BY <1>3 DEF Add, FlowInv
    <2>2. buffer' \in Seq(Items)
        BY <1>3, <2>1 DEF Add, FlowInv
    <2>3. client' \in [Clients -> Items \cup {0}]
        BY <1>3 DEF Add, FlowInv
    <2> QED
        BY <1>3, <2>2, <2>3 DEF Add, FlowInv, Items
<1>4. CASE AddCheckpointRecord
    <2>1. buffer' \in Seq(Items)
        BY <1>4 DEF AddCheckpointRecord, FlowInv
    <2>2. /\ cp' \in [pc : {"idle", "assigned", "added", "truncated"}, id : Items \cup {0}]
          /\ cp'.pc = "added"
        BY <1>4 DEF AddCheckpointRecord, FlowInv
    <2> QED
        BY <1>4, <2>1, <2>2 DEF AddCheckpointRecord, FlowInv, Items
<1>5. CASE truncateConfig \/ saveCheckpoint
    BY <1>5 DEF truncateConfig, saveCheckpoint, FlowInv, Items
<1>6. CASE flushWal
    BY <1>6 DEF flushWal, FlowInv, Items
<1>7. CASE writeWal
    BY <1>7 DEF writeWal, FlowInv, Items
<1>8. CASE UNCHANGED vars
    BY <1>8 DEF vars, FlowInv, Items
<1> QED
    BY <1>1, <1>2, <1>3, <1>4, <1>5, <1>6, <1>7, <1>8 DEF Next, Checkpoint

\* Every step keeps ItemInv.
LEMMA ItemStep ==
    ASSUME LsnType, ItemInv, [Next]_vars PROVE ItemInv'
<1>1. ASSUME NEW kind, NEW size \in Sizes \cup {CHK}, NEW redo, NEW upto,
             assignLSN(kind, size, redo, upto),
             kind = "checkpoint" => upto \in Items /\ redo = RedoPoint(upto)
      PROVE  ItemInv'
    <2>1. /\ Items' = Items \cup {Len(lsns) + 1} /\ \A i \in Items : lsns'[i] = lsns[i]
          /\ lsns'[Len(lsns) + 1] = [kind |-> kind, page |-> maxPage, off |-> maxOffset,
                                     size |-> size, redo |-> redo, upto |-> upto]
        BY <1>1, AssignKeeps
    <2>2. size \in Nat \ {0}
        BY Layout
    <2> SUFFICES ASSUME NEW i \in Items'
                 PROVE  /\ lsns'[i].size \in Nat \ {0}
                        /\ lsns'[i].kind = "checkpoint" /\ lsns'[i].upto # 0 =>
                             /\ lsns'[i].upto \in Items
                             /\ lsns'[i].redo = Addr(lsns[lsns'[i].upto]) + lsns[lsns'[i].upto].size
        BY <2>1 DEF ItemInv, Addr
    <2>3. CASE i \in Items
        BY <2>1, <2>3 DEF ItemInv
    <2>4. CASE i = Len(lsns) + 1
        BY <1>1, <2>1, <2>2, <2>4 DEF RedoPoint
    <2> QED
        BY <2>1, <2>3, <2>4
<1>2. ASSUME NEW c \in Clients, AddLog(c) PROVE ItemInv'
    BY <1>1, <1>2 DEF AddLog
<1>3. ASSUME NEW i \in Items, AddCheckpoint(i) PROVE ItemInv'
    BY <1>1, <1>3 DEF AddCheckpoint
<1>4. ASSUME UNCHANGED lsns PROVE ItemInv'
    BY <1>4 DEF ItemInv, Items, Addr
<1>5. ASSUME NEW c \in Clients, Add(c) PROVE UNCHANGED lsns
    BY <1>5 DEF Add
<1>6. ASSUME AddCheckpointRecord \/ truncateConfig \/ saveCheckpoint \/ flushWal \/ writeWal
      PROVE  UNCHANGED lsns
    BY <1>6 DEF AddCheckpointRecord, truncateConfig, saveCheckpoint, flushWal, writeWal
<1> QED
    BY <1>2, <1>3, <1>4, <1>5, <1>6 DEF Next, Checkpoint, vars

\* Every step keeps ChainInv.
LEMMA ChainStep ==
    ASSUME LsnType, ChainInv, [Next]_vars PROVE ChainInv'
<1>1. ASSUME NEW kind, NEW size \in Sizes \cup {CHK}, NEW redo, NEW upto,
             assignLSN(kind, size, redo, upto)
      PROVE  ChainInv'
    <2>1. PICK n \in Nat : n = Len(lsns) /\ Len(lsns') = n + 1
        BY <1>1 DEF LsnType, assignLSN
    <2>2. /\ Items' = Items \cup {n + 1} /\ \A i \in Items : lsns'[i] = lsns[i]
          /\ lsns'[n + 1] = [kind |-> kind, page |-> maxPage, off |-> maxOffset,
                             size |-> size, redo |-> redo, upto |-> upto]
        BY <1>1, <2>1, AssignKeeps
    <2>3. /\ maxOffset' = Behind(maxOffset + size)
          /\ NextAddr' = NextAddr + size + (IF maxOffset + size >= PAGE THEN HDR ELSE 0)
        BY <1>1, AdvanceStep DEF assignLSN
    <2>4. Addr(lsns'[n + 1]) = NextAddr
        BY <2>2 DEF Addr, NextAddr
    <2>5. NextAddr' = LsnEnd(lsns'[n + 1])
        BY <2>2, <2>3, <2>4 DEF LsnEnd
    <2> SUFFICES ASSUME NEW i \in Items'
                 PROVE  IF i < n + 1
                        THEN /\ lsns'[i + 1].off = Behind(lsns'[i].off + lsns'[i].size)
                             /\ Addr(lsns'[i + 1]) = LsnEnd(lsns'[i])
                        ELSE /\ maxOffset' = Behind(lsns'[i].off + lsns'[i].size)
                             /\ NextAddr' = LsnEnd(lsns'[i])
        BY <2>1 DEF ChainInv, Addr, LsnEnd, Behind
    <2>6. CASE i = n + 1
        BY <2>1, <2>2, <2>3, <2>5, <2>6
    <2>7. CASE i \in Items /\ i < n
        <3>1. i + 1 \in Items
            BY <2>1, <2>7 DEF Items
        <3> QED
            BY <2>1, <2>2, <2>7, <3>1 DEF ChainInv, Items
    <2>8. CASE i \in Items /\ i = n
        BY <2>1, <2>2, <2>4, <2>8 DEF ChainInv
    <2> QED
        BY <2>1, <2>2, <2>6, <2>7, <2>8 DEF Items
<1>2. ASSUME NEW c \in Clients, AddLog(c) PROVE ChainInv'
    BY <1>1, <1>2 DEF AddLog
<1>3. ASSUME NEW i \in Items, AddCheckpoint(i) PROVE ChainInv'
    BY <1>1, <1>3 DEF AddCheckpoint
<1>4. ASSUME UNCHANGED <<maxPage, maxOffset, lsns>> PROVE ChainInv'
    BY <1>4 DEF ChainInv, Items, Addr, NextAddr, LsnEnd, Behind
<1>5. ASSUME NEW c \in Clients, Add(c) PROVE UNCHANGED <<maxPage, maxOffset, lsns>>
    BY <1>5 DEF Add
<1>6. ASSUME AddCheckpointRecord \/ truncateConfig \/ saveCheckpoint \/ flushWal \/ writeWal
      PROVE  UNCHANGED <<maxPage, maxOffset, lsns>>
    BY <1>6 DEF AddCheckpointRecord, truncateConfig, saveCheckpoint, flushWal, writeWal
<1> QED
    BY <1>2, <1>3, <1>4, <1>5, <1>6 DEF Next, Checkpoint, vars

-----------------------------------------------------------------------------
\* An address has one page and one offset.
LEMMA AddressUnique ==
    \A p, q, x, y \in Nat : x < PAGE /\ y < PAGE /\ p * PAGE + x = q * PAGE + y => x = y
<1>1. ASSUME NEW p \in Nat, NEW q \in Nat, p < q PROVE p * PAGE + PAGE <= q * PAGE
    <2>1. PICK d \in Nat : q = p + 1 + d
        BY <1>1
    <2>2. q * PAGE = p * PAGE + PAGE + d * PAGE /\ d * PAGE \in Nat /\ p * PAGE \in Nat
        BY <2>1, Layout
    <2> QED
        BY <2>2, Layout
<1> SUFFICES ASSUME NEW p \in Nat, NEW q \in Nat, NEW x \in Nat, NEW y \in Nat,
                    x < PAGE, y < PAGE, p * PAGE + x = q * PAGE + y
             PROVE  x = y
    OBVIOUS
<1>2. p * PAGE \in Nat /\ q * PAGE \in Nat
    BY PageStart
<1>3. CASE p = q
    BY <1>2, <1>3
<1>4. CASE p < q
    BY <1>1, <1>2, <1>4, Layout
<1>5. CASE q < p
    BY <1>1, <1>2, <1>5, Layout
<1> QED
    BY <1>3, <1>4, <1>5

\* The fields of an item, as numbers.
LEMMA ItemFacts ==
    ASSUME LsnType, ItemInv, NEW i \in Items
    PROVE  /\ lsns[i].page \in Nat /\ lsns[i].off \in Nat /\ lsns[i].size \in Nat
           /\ 1 <= lsns[i].size
           /\ Addr(lsns[i]) \in Nat
<1>1. lsns[i] \in Item
    BY DEF LsnType, Items
<1>2. lsns[i].page \in Nat /\ lsns[i].off \in Nat
    BY <1>1 DEF Item
<1>3. lsns[i].size \in Nat \ {0}
    BY DEF ItemInv
<1> QED
    BY <1>2, <1>3, AddrType, Layout

\* The LSN behind an item that does not end exactly with its page is not the first
\* one of a page.
LEMMA NotFirst ==
    ASSUME LsnType, OffsetInv, LsnsDisjoint, ItemInv, ChainInv, NEW i \in Items, NEW j \in Items,
           Addr(lsns[j]) = LsnEnd(lsns[i]), lsns[i].off + lsns[i].size # PAGE
    PROVE  HDR < lsns[j].off
<1>1. \A k \in Items : Addr(lsns[k]) \in Nat /\ lsns[k].size \in Nat /\ 1 <= lsns[k].size
    BY ItemFacts
<1>2. NextAddr \in Nat /\ Len(lsns) \in Nat /\ i \in Nat /\ j \in Nat
    BY AddrType DEF LsnType, Items
<1>3. i < Len(lsns)
    <2> SUFFICES ASSUME ~(i < Len(lsns)) PROVE FALSE
        OBVIOUS
    <2>1. NextAddr = Addr(lsns[j])
        BY DEF ChainInv
    <2> QED
        BY <1>1, <1>2, <2>1 DEF LsnsDisjoint
<1>4. i + 1 \in Items /\ Addr(lsns[i + 1]) = Addr(lsns[j])
    BY <1>2, <1>3 DEF ChainInv, Items
<1>5. j = i + 1
    <2>1. PICK a \in Nat, x \in Nat, y \in Nat :
                /\ a = Addr(lsns[j]) /\ a = Addr(lsns[i + 1])
                /\ x = lsns[j].size /\ y = lsns[i + 1].size /\ 1 <= x /\ 1 <= y
        BY <1>1, <1>4
    <2>2. ~(a + x <= a) /\ ~(a + y <= a)
        BY <2>1
    <2>3. ~(j < i + 1) /\ ~(i + 1 < j)
        BY <1>4, <2>1, <2>2 DEF LsnsDisjoint
    <2> QED
        BY <1>2, <2>3
<1>6. lsns[j].off = Behind(lsns[i].off + lsns[i].size)
    BY <1>3, <1>5 DEF ChainInv
<1>7. PICK o \in Nat, s \in Nat : o = lsns[i].off /\ s = lsns[i].size /\ HDR <= o /\ 1 <= s
    BY ItemFacts DEF OffsetInv
<1> QED
    BY <1>6, <1>7, Layout DEF Behind

\* What checkLogOverflow makes of an item.
LEMMA OverflowFacts ==
    ASSUME LsnType, ItemInv, NEW i \in Items, NEW at \in Nat
    PROVE  LET r == checkLogOverflow(i, at)
           IN  /\ r \in Record /\ r.id = i
               /\ lsns[i].off + lsns[i].size >= PAGE =>
                     /\ r.cut > 0 /\ r.start = at
                     /\ lsns[i].off < PAGE => r.cut = PAGE - lsns[i].off
               /\ lsns[i].off + lsns[i].size < PAGE =>
                     r.cut = 0 /\ r.start = (IF lsns[i].off <= HDR THEN at + HDR ELSE at)
<1>1. PICK o \in Nat, s \in Nat : o = lsns[i].off /\ s = lsns[i].size
    BY ItemFacts
<1>2. PICK c : c = PAGE * (o \div PAGE + 1) - o
    OBVIOUS
<1>3. c \in Nat \ {0} /\ (o < PAGE => c = PAGE - o)
    <2>1. PICK d \in Nat \ {0} : d = PAGE
        BY Layout
    <2>2. PICK q \in Nat, m \in Nat : q = o \div d /\ m = o % d /\ m < d
        BY <2>1
    <2>3. o = d * q + m
        BY <2>1, <2>2
    <2>4. d * (q + 1) = d * q + d /\ d * q \in Nat
        BY <2>1, <2>2
    <2>5. c = d - m
        BY <1>2, <2>1, <2>2, <2>3, <2>4
    <2>6. o < d => q = 0
        BY <2>2
    <2> QED
        BY <2>1, <2>2, <2>3, <2>5, <2>6
<1>4. i \in Nat
    BY DEF Items, LsnType
<1> QED
    BY <1>1, <1>2, <1>3, <1>4, Layout DEF checkLogOverflow, Record

\* Under the conditions of AlignedInOrder a record ends where the next LSN begins.
LEMMA EndIsLsnEnd ==
    ASSUME LsnType, ItemInv, FileInv, NEW k \in 1..Len(file), Aligned(file[k])
    PROVE  EndOf(file[k]) = LsnEnd(lsns[file[k].id])
BY ItemFacts DEF FileInv, EndOf, LsnEnd, Aligned

\* flushWal writes a record behind the last one and keeps FileInv.
LEMMA WriteStep ==
    ASSUME LsnType, OffsetInv, LsnsDisjoint, ItemInv, ChainInv, FlowInv, FileInv, writeWal
    PROVE  FileInv'
<1> DEFINE h == Head(taken)
           n == Len(file)
           r == checkLogOverflow(h, walSize)
<1>1. /\ h \in Items /\ file' = Append(file, r) /\ walSize' = EndOf(r) /\ lsns' = lsns
      /\ Items' = Items
    BY DEF writeWal, FlowInv, Items
<1>2. file \in Seq(Record) /\ n \in Nat \ {0} /\ file[n].id \in Items /\ file[n] \in Record
    BY DEF FileInv
<1>3. walSize \in Nat
    <2>1. walSize = file[n].start + lsns[file[n].id].size + (IF file[n].cut > 0 THEN HDR ELSE 0)
        BY DEF FileInv, EndOf
    <2>2. file[n].start \in Nat /\ lsns[file[n].id].size \in Nat
        BY <1>2, ItemFacts DEF Record
    <2> HIDE DEF n
    <2>3. PICK a \in Nat, b \in Nat : walSize = a + b + (IF file[n].cut > 0 THEN HDR ELSE 0)
        BY <2>1, <2>2
    <2> QED
        BY <2>3, Layout
<1>4. /\ r \in Record /\ r.id = h
      /\ r.cut > 0 <=> lsns[h].off + lsns[h].size >= PAGE
      /\ HDR < lsns[h].off => r.start = walSize
    <2>1. /\ r \in Record /\ r.id = h
          /\ lsns[h].off + lsns[h].size >= PAGE => r.cut > 0 /\ r.start = walSize
          /\ lsns[h].off + lsns[h].size < PAGE =>
                r.cut = 0 /\ r.start = (IF lsns[h].off <= HDR THEN walSize + HDR ELSE walSize)
        BY <1>1, <1>3, OverflowFacts
    <2>2. PICK o \in Nat, s \in Nat : o = lsns[h].off /\ s = lsns[h].size
        BY <1>1, ItemFacts
    <2> HIDE DEF r, h
    <2> QED
        BY <2>1, <2>2, Layout
<1> HIDE DEF r, h
<1>5. /\ file' \in Seq(Record) /\ Len(file') = n + 1 /\ file'[n + 1] = r
      /\ \A k \in 1..n : file'[k] = file[k]
    BY <1>1, <1>2, <1>4
<1>6. ASSUME NEW k \in 1..Len(file')
      PROVE  /\ file'[k].id \in Items
             /\ file'[k].cut > 0 <=> lsns[file'[k].id].off + lsns[file'[k].id].size >= PAGE
    <2>1. CASE k \in 1..n
        BY <1>5, <2>1 DEF FileInv
    <2>2. CASE k = n + 1
        BY <1>1, <1>4, <1>5, <2>2
    <2> QED
        BY <1>2, <1>5, <2>1, <2>2
<1>7. walSize' = EndOf(file[Len(file)])'
    BY <1>1, <1>5 DEF EndOf
<1>8. AlignedInOrder'
    <2> SUFFICES ASSUME InLsnOrder', NoExactFit', NEW k \in 1..Len(file')
                 PROVE  Aligned(file'[k])
        BY <1>1 DEF AlignedInOrder, Aligned, Addr
    <2>1. \A m \in 1..n : Addr(lsns[file'[m + 1].id]) = LsnEnd(lsns[file'[m].id])
        BY <1>1, <1>2, <1>5 DEF InLsnOrder, Addr, LsnEnd
    <2>2. \A m \in 1..n : ~ExactFit(file'[m])
        BY <1>1, <1>2, <1>5 DEF NoExactFit, ExactFit
    <2>3. InLsnOrder /\ NoExactFit
        <3>1. \A m \in 1..(n - 1) : m \in 1..n /\ m + 1 \in 1..n
            BY <1>2
        <3> QED
            BY <1>5, <2>1, <2>2, <3>1 DEF InLsnOrder, NoExactFit
    <2>4. \A m \in 1..n : Aligned(file[m])
        BY <2>3 DEF FileInv, AlignedInOrder
    <2>5. CASE k \in 1..n
        BY <1>5, <2>4, <2>5
    <2>6. CASE k = n + 1
        <3>1. n \in 1..n
            BY <1>2
        <3>2. walSize = LsnEnd(lsns[file[n].id])
            BY <2>4, <3>1, EndIsLsnEnd DEF FileInv
        <3>3. Addr(lsns[h]) = LsnEnd(lsns[file[n].id])
            BY <1>4, <1>5, <2>1, <3>1
        <3>4. lsns[file[n].id].off + lsns[file[n].id].size # PAGE
            BY <1>5, <2>2, <3>1 DEF ExactFit
        <3>5. HDR < lsns[h].off
            BY <1>1, <1>2, <3>3, <3>4, NotFirst
        <3> QED
            BY <1>4, <1>5, <2>6, <3>2, <3>3, <3>5 DEF Aligned
    <2> QED
        BY <1>2, <1>5, <2>5, <2>6
<1>9. Len(file') > 0
    BY <1>2, <1>5
<1> QED
    BY <1>1, <1>5, <1>6, <1>7, <1>8, <1>9 DEF FileInv

\* Every step keeps FileInv.
LEMMA FileStep ==
    ASSUME LsnType, OffsetInv, LsnsDisjoint, ItemInv, ChainInv, FlowInv, FileInv, [Next]_vars
    PROVE  FileInv'
<1>1. ASSUME UNCHANGED <<file, walSize>>, Items \subseteq Items', \A i \in Items : lsns'[i] = lsns[i]
      PROVE  FileInv'
    <2>1. /\ file \in Seq(Record) /\ Len(file) \in Nat /\ Len(file) > 0
          /\ \A k \in 1..Len(file) : file[k].id \in Items
        BY DEF FileInv
    <2>2. \A k \in 1..Len(file) : lsns'[file[k].id] = lsns[file[k].id]
        BY <1>1, <2>1
    <2>3. \A k \in 1..(Len(file) - 1) : k \in 1..Len(file) /\ k + 1 \in 1..Len(file)
        BY <2>1
    <2>4. InLsnOrder' => InLsnOrder
        BY <1>1, <2>2, <2>3 DEF InLsnOrder, Addr, LsnEnd
    <2>5. NoExactFit' => NoExactFit
        BY <1>1, <2>2, <2>3 DEF NoExactFit, ExactFit
    <2>6. AlignedInOrder'
        BY <1>1, <2>2, <2>4, <2>5 DEF FileInv, AlignedInOrder, Aligned, Addr
    <2>7. walSize' = EndOf(file[Len(file)])'
        BY <1>1, <2>1, <2>2 DEF FileInv, EndOf
    <2> QED
        BY <1>1, <2>1, <2>2, <2>6, <2>7 DEF FileInv
<1>2. ASSUME NEW c \in Clients, AddLog(c) PROVE FileInv'
    BY <1>1, <1>2, AssignKeeps DEF AddLog
<1>3. ASSUME NEW i \in Items, AddCheckpoint(i) PROVE FileInv'
    BY <1>1, <1>3, AssignKeeps DEF AddCheckpoint
<1>4. ASSUME UNCHANGED <<file, walSize, lsns>> PROVE FileInv'
    BY <1>1, <1>4 DEF Items
<1>5. ASSUME NEW c \in Clients, Add(c) PROVE FileInv'
    BY <1>4, <1>5 DEF Add
<1>6. CASE AddCheckpointRecord \/ truncateConfig \/ saveCheckpoint \/ flushWal
    BY <1>4, <1>6 DEF AddCheckpointRecord, truncateConfig, saveCheckpoint, flushWal
<1>7. CASE writeWal
    BY <1>7, WriteStep
<1>8. CASE UNCHANGED vars
    BY <1>4, <1>8 DEF vars
<1> QED
    BY <1>2, <1>3, <1>5, <1>6, <1>7, <1>8 DEF Next, Checkpoint

\* The invariants of the file hold in every state.
LEMMA FileInvariant ==
    Spec => [](LsnType /\ ItemInv /\ ChainInv /\ FlowInv /\ FileInv)
<1>1. Init => ItemInv /\ ChainInv /\ FlowInv /\ FileInv
    <2> SUFFICES ASSUME Init PROVE ItemInv /\ ChainInv /\ FlowInv /\ FileInv
        OBVIOUS
    <2>1. /\ lsns = <<FirstCheckpoint>> /\ Len(lsns) = 1 /\ lsns[1] = FirstCheckpoint
          /\ Items = {1}
        BY DEF Init, Items
    <2>2. /\ FirstCheckpoint.page = 0 /\ FirstCheckpoint.off = HDR /\ FirstCheckpoint.size = CHK
          /\ FirstCheckpoint.upto = 0
        BY DEF FirstCheckpoint
    <2>3. ItemInv
        BY <2>1, <2>2, Layout DEF ItemInv
    <2>4. FlowInv
        BY <2>1 DEF Init, FlowInv
    <2>5. /\ file \in Seq(Record) /\ Len(file) = 1 /\ walSize = HDR + CHK
          /\ file[1] = [id |-> 1, start |-> HDR, cut |-> 0]
        BY Layout DEF Init, Record
    <2>6. Addr(lsns[1]) = HDR
        BY <2>1, <2>2, Layout DEF Addr
    <2>7. \A k \in 1..Len(file) : k = 1
        BY <2>5
    <2>8. walSize = EndOf(file[Len(file)]) /\ AlignedInOrder
        BY <2>1, <2>2, <2>5, <2>6, <2>7, Layout DEF EndOf, AlignedInOrder, Aligned
    <2>9. ChainInv
        <3>1. maxOffset = HDR + CHK /\ NextAddr = HDR + CHK
            BY Layout DEF Init, NextAddr
        <3>2. LsnEnd(lsns[1]) = HDR + CHK /\ Behind(HDR + CHK) = HDR + CHK
            BY <2>1, <2>2, <2>6, Layout DEF LsnEnd, Behind
        <3> QED
            BY <2>1, <2>2, <3>1, <3>2, Layout DEF ChainInv
    <2> QED
        BY <2>1, <2>2, <2>3, <2>4, <2>5, <2>7, <2>8, <2>9, Layout DEF FileInv
<1>2. LsnType /\ OffsetInv /\ LsnsDisjoint /\ ItemInv /\ ChainInv /\ FlowInv /\ FileInv /\ [Next]_vars
        => ItemInv' /\ ChainInv' /\ FlowInv' /\ FileInv'
    BY ItemStep, ChainStep, FlowStep, FileStep
<1> QED
    BY <1>1, <1>2, LsnInvariant, PTL DEF Spec

\* checkLogOverflow and assignLSN agree: whatever the sizes of pages, headers and
\* logs, a record lies where its LSN says while the conditions of AlignedInOrder hold.
THEOREM RecordsAligned == Spec => []AlignedInOrder
<1>1. FileInv => AlignedInOrder
    BY DEF FileInv
<1> QED
    BY FileInvariant, <1>1, PTL

\* AddCheckpoint: under the same conditions the REDO point lies between the log that
\* was applied last and the record behind it.
THEOREM RedoIsBetween == Spec => []RedoBetweenRecords
<1>1. LsnType /\ ItemInv /\ FileInv => RedoBetweenRecords
    <2> SUFFICES ASSUME LsnType, ItemInv, FileInv, InLsnOrder, NoExactFit,
                        NEW i \in Items, NEW k \in 1..Len(file), lsns[i].kind = "checkpoint",
                        file[k].id = lsns[i].upto, file[k].cut = 0
                 PROVE  /\ EndOf(file[k]) <= lsns[i].redo
                        /\ k < Len(file) => lsns[i].redo <= file[k + 1].start
        BY DEF RedoBetweenRecords
    <2>1. file[k].id \in Items /\ file[k].id # 0 /\ Len(file) \in Nat
        BY DEF FileInv, Items
    <2>2. lsns[i].redo = Addr(lsns[file[k].id]) + lsns[file[k].id].size
        BY <2>1 DEF ItemInv
    <2>3. \A m \in 1..Len(file) : Aligned(file[m])
        BY DEF FileInv, AlignedInOrder
    <2>4. Addr(lsns[file[k].id]) \in Nat /\ lsns[file[k].id].size \in Nat
        BY <2>1, ItemFacts
    <2>5. EndOf(file[k]) = lsns[i].redo
        BY <2>2, <2>3, <2>4 DEF EndOf, Aligned
    <2>6. ASSUME k < Len(file) PROVE lsns[i].redo <= file[k + 1].start
        <3>1. k \in 1..(Len(file) - 1) /\ k + 1 \in 1..Len(file)
            BY <2>1, <2>6
        <3>2. file[k + 1].start = LsnEnd(lsns[file[k].id])
            BY <2>3, <3>1 DEF Aligned, InLsnOrder
        <3> QED
            BY <2>2, <2>4, <3>2, Layout DEF LsnEnd
    <2> QED
        BY <2>2, <2>4, <2>5, <2>6
<1> QED
    BY FileInvariant, <1>1, PTL

-----------------------------------------------------------------------------
(* No item is lost or doubled on its way to the file.                      *)

\* Item i is at place k of the kind t.
At(i, t, k) ==
    \/ t = "adding" /\ k \in Clients /\ client[k] = i
    \/ t = "cp" /\ k = i /\ cp.pc = "assigned" /\ cp.id = i
    \/ t = "buffer" /\ k \in 1..Len(buffer) /\ buffer[k] = i
    \/ t = "taken" /\ k \in 1..Len(taken) /\ taken[k] = i
    \/ t = "file" /\ k \in 1..Len(file) /\ file[k].id = i

Somewhere(i) == \E t, k : At(i, t, k)

Unique(i) == \A t, k, u, l : At(i, t, k) /\ At(i, u, l) => t = u /\ k = l

PlaceInv == \A i \in Items : Somewhere(i) /\ Unique(i)

\* An item whose places stay the same still has exactly one.
LEMMA PlacesUnchanged ==
    ASSUME NEW i, Somewhere(i), Unique(i), \A t, k : At(i, t, k)' <=> At(i, t, k)
    PROVE  Somewhere(i)' /\ Unique(i)'
BY DEF Somewhere, Unique

\* An item that is only at place k of the kind t.
LEMMA OnlyPlace ==
    ASSUME NEW i, NEW t, NEW k, At(i, t, k)', \A u, l : At(i, u, l)' => u = t /\ l = k
    PROVE  Somewhere(i)' /\ Unique(i)'
<1>1. Somewhere(i)'
    BY DEF Somewhere
<1>2. ASSUME NEW u, NEW l, NEW v, NEW m, At(i, u, l)', At(i, v, m)' PROVE u = v /\ l = m
    BY <1>2
<1> QED
    BY <1>1, <1>2 DEF Unique

\* An item that receives its LSN is with its client or with the checkpointer.
LEMMA NewItemPlace ==
    ASSUME LsnType, FlowInv, FileInv, PlaceInv,
           NEW kind, NEW size, NEW redo, NEW upto, assignLSN(kind, size, redo, upto),
           UNCHANGED <<buffer, taken, file>>,
           \/ /\ cp' = cp
              /\ \E c \in Clients : client[c] = 0 /\ client' = [client EXCEPT ![c] = Len(lsns) + 1]
           \/ /\ client' = client /\ cp.pc = "idle"
              /\ cp' = [pc |-> "assigned", id |-> Len(lsns) + 1]
    PROVE  PlaceInv'
<1>0. PICK n \in Nat : n = Len(lsns) + 1
    BY DEF LsnType
<1>1. Items' = Items \cup {n} /\ n \notin Items /\ n # 0 /\ 0 \notin Items
    <2>1. Items' = Items \cup {n}
        BY <1>0, AssignKeeps
    <2> QED
        BY <1>0, <2>1 DEF LsnType, Items
<1>2. \A t, k : ~At(n, t, k)
    BY <1>1 DEF At, FlowInv, FileInv
<1>3. ASSUME NEW i \in Items PROVE Somewhere(i)' /\ Unique(i)'
    <2>1. \A t, k : At(i, t, k)' <=> At(i, t, k)
        BY <1>0, <1>1, <1>3 DEF At, FlowInv
    <2> QED
        BY <1>3, <2>1, PlacesUnchanged DEF PlaceInv
<1>4. Somewhere(n)' /\ Unique(n)'
    <2>1. ASSUME cp' = cp, NEW c \in Clients, client[c] = 0, client' = [client EXCEPT ![c] = n]
          PROVE  Somewhere(n)' /\ Unique(n)'
        <3>1. At(n, "adding", c)'
            BY <2>1 DEF At, FlowInv
        <3>2. \A u, l : At(n, u, l)' => u = "adding" /\ l = c
            BY <1>2, <2>1 DEF At, FlowInv
        <3> QED
            BY <3>1, <3>2, OnlyPlace
    <2>2. ASSUME client' = client, cp' = [pc |-> "assigned", id |-> n]
          PROVE  Somewhere(n)' /\ Unique(n)'
        <3>1. At(n, "cp", n)'
            BY <2>2 DEF At
        <3>2. \A u, l : At(n, u, l)' => u = "cp" /\ l = n
            BY <1>2, <2>2 DEF At, FlowInv
        <3> QED
            BY <3>1, <3>2, OnlyPlace
    <2> QED
        BY <1>0, <2>1, <2>2
<1> QED
    BY <1>1, <1>3, <1>4 DEF PlaceInv

\* The places are those five.
LEMMA PlaceNames ==
    \A i, t, k : At(i, t, k) \/ At(i, t, k)' => t \in {"adding", "cp", "buffer", "taken", "file"}
BY SMTT(60) DEF At

\* The buffer gains a place when an item is appended.
LEMMA BufferGrows ==
    ASSUME FlowInv, NEW j, buffer' = Append(buffer, j), UNCHANGED <<taken, file>>
    PROVE  /\ \A i, l : At(i, "buffer", l)' <=> At(i, "buffer", l) \/ (l = Len(buffer) + 1 /\ i = j)
           /\ \A i, l : (At(i, "taken", l)' <=> At(i, "taken", l)) /\ (At(i, "file", l)' <=> At(i, "file", l))
<1>0. PICK m \in Nat : m = Len(buffer) + 1
    BY DEF FlowInv
<1>1. /\ Len(buffer) \in Nat /\ Len(buffer') = m /\ buffer'[m] = j
      /\ \A l \in 1..Len(buffer) : buffer'[l] = buffer[l]
    BY <1>0 DEF FlowInv
<1>2. \A l : l \in 1..Len(buffer') <=> l \in 1..Len(buffer) \/ l = m
    BY <1>0, <1>1
<1>3. m \notin 1..Len(buffer)
    BY <1>0, <1>1
<1>4. \A i, l : At(i, "buffer", l)' <=> At(i, "buffer", l) \/ (l = m /\ i = j)
    BY <1>1, <1>2, <1>3 DEF At
<1>5. \A i, l : (At(i, "taken", l)' <=> At(i, "taken", l)) /\ (At(i, "file", l)' <=> At(i, "file", l))
    BY DEF At
<1> QED
    BY <1>0, <1>4, <1>5

\* An item moves to the end of the buffer.
LEMMA ToBuffer ==
    ASSUME LsnType, FlowInv, PlaceInv, NEW j \in Items, NEW t, NEW k, At(j, t, k),
           t # "buffer", ~At(j, t, k)', buffer' = Append(buffer, j), UNCHANGED <<lsns, taken, file>>,
           \A i \in Items : \A l : At(i, "adding", l)' => At(i, "adding", l),
           \A i \in Items : \A l : At(i, "cp", l)' => At(i, "cp", l),
           \A i \in Items \ {j} : \A l : At(i, "adding", l) => At(i, "adding", l)',
           \A i \in Items \ {j} : \A l : At(i, "cp", l) => At(i, "cp", l)'
    PROVE  PlaceInv'
<1>0. PICK m : m = Len(buffer) + 1
    OBVIOUS
<1>1. Items' = Items
    BY DEF Items
<1>2. /\ \A i, l : At(i, "buffer", l)' <=> At(i, "buffer", l) \/ (l = m /\ i = j)
      /\ \A i, l : (At(i, "taken", l)' <=> At(i, "taken", l)) /\ (At(i, "file", l)' <=> At(i, "file", l))
    BY <1>0, BufferGrows
<1>3. ASSUME NEW i \in Items \ {j} PROVE Somewhere(i)' /\ Unique(i)'
    <2>1. \A u, l : At(i, u, l)' <=> At(i, u, l)
        BY <1>2, <1>3, PlaceNames
    <2> QED
        BY <2>1, PlacesUnchanged DEF PlaceInv
<1>4. At(j, "buffer", m)'
    BY <1>2
<1>5. ASSUME NEW u, NEW l, At(j, u, l)' PROVE u = "buffer" /\ l = m
    <2>1. CASE At(j, u, l)
        <3>1. u = t /\ l = k
            BY <2>1 DEF PlaceInv, Unique
        <3> QED
            BY <1>5, <3>1
    <2>2. CASE ~At(j, u, l)
        BY <1>2, <1>5, <2>2, PlaceNames
    <2> QED
        BY <2>1, <2>2
<1>6. Somewhere(j)' /\ Unique(j)'
    BY <1>4, <1>5, OnlyPlace
<1> QED
    BY <1>1, <1>3, <1>6 DEF PlaceInv

\* The buffer as a whole becomes the items taken by flushWal.
LEMMA FlushPlace ==
    ASSUME LsnType, PlaceInv, flushWal PROVE PlaceInv'
<1>1. /\ taken = <<>> /\ taken' = buffer /\ buffer' = <<>> /\ UNCHANGED <<client, cp, file>>
      /\ Items' = Items
    BY DEF flushWal, Items
<1>2. \A i, l : ~At(i, "taken", l) /\ (At(i, "taken", l)' <=> At(i, "buffer", l)) /\ ~At(i, "buffer", l)'
    BY <1>1 DEF At
<1>3. \A i, u, l : u # "taken" /\ u # "buffer" => (At(i, u, l)' <=> At(i, u, l))
    BY <1>1, SMTT(60) DEF At
<1> SUFFICES ASSUME NEW i \in Items PROVE Somewhere(i)' /\ Unique(i)'
    BY <1>1 DEF PlaceInv
<1>4. PICK t, k : At(i, t, k)
    BY DEF PlaceInv, Somewhere
<1>5. \A u, l : At(i, u, l) => u = t /\ l = k
    BY <1>4 DEF PlaceInv, Unique
<1>6. CASE t = "buffer"
    <2>1. At(i, "taken", k)'
        BY <1>2, <1>4, <1>6
    <2>2. \A u, l : At(i, u, l)' => u = "taken" /\ l = k
        BY <1>2, <1>3, <1>5, <1>6
    <2> QED
        BY <2>1, <2>2, OnlyPlace
<1>7. CASE t # "buffer"
    <2>1. At(i, t, k)'
        BY <1>2, <1>3, <1>4, <1>7
    <2>2. \A u, l : At(i, u, l)' => u = t /\ l = k
        BY <1>2, <1>3, <1>5, <1>7
    <2> QED
        BY <2>1, <2>2, OnlyPlace
<1> QED
    BY <1>6, <1>7

\* The first item taken moves to the end of the file.
LEMMA WritePlace ==
    ASSUME LsnType, ItemInv, FlowInv, FileInv, PlaceInv, writeWal PROVE PlaceInv'
<1>0. PICK n, h : n \in Nat /\ n = Len(file) + 1 /\ h = Head(taken)
    BY DEF FileInv
<1>1. /\ taken \in Seq(Items) /\ taken # <<>> /\ taken' = Tail(taken)
      /\ UNCHANGED <<client, cp, buffer>> /\ Items' = Items
    BY DEF writeWal, FlowInv, Items
<1>2. PICK r : file' = Append(file, r) /\ r.id = h
    <2>1. checkLogOverflow(Head(taken), walSize).id = Head(taken)
        BY DEF checkLogOverflow
    <2> QED
        BY <1>0, <2>1 DEF writeWal
<1>3. /\ Len(file) \in Nat /\ Len(file') = n /\ file'[n] = r
      /\ \A l \in 1..Len(file) : file'[l] = file[l]
    BY <1>0, <1>2 DEF FileInv
<1>4. \A l : l \in 1..Len(file') <=> l \in 1..Len(file) \/ l = n
    BY <1>0, <1>3
<1>5. n \notin 1..Len(file)
    BY <1>0, <1>3
<1>6. \A i, l : At(i, "file", l)' <=> At(i, "file", l) \/ (l = n /\ i = h)
    BY <1>2, <1>3, <1>4, <1>5 DEF At
<1>7. /\ Len(taken) \in Nat /\ Len(taken) > 0 /\ taken[1] = h /\ Len(taken') = Len(taken) - 1
      /\ \A l \in 1..Len(taken') : taken'[l] = taken[l + 1]
    BY <1>0, <1>1
<1>8. \A i, l : At(i, "taken", l)' => l \in Nat /\ l > 0 /\ At(i, "taken", l + 1)
    BY <1>7 DEF At
<1>9. \A i, l : At(i, "taken", l) =>
            (l = 1 /\ i = h) \/ (l \in Nat /\ l > 1 /\ At(i, "taken", l - 1)')
    BY <1>7 DEF At
<1>10. \A i, u, l : u # "taken" /\ u # "file" => (At(i, u, l)' <=> At(i, u, l))
    BY <1>1 DEF At
<1>11. At(h, "taken", 1)
    BY <1>7 DEF At
<1> SUFFICES ASSUME NEW i \in Items PROVE Somewhere(i)' /\ Unique(i)'
    BY <1>1 DEF PlaceInv
<1>12. PICK t, k : At(i, t, k)
    BY DEF PlaceInv, Somewhere
<1>13. \A u, l : At(i, u, l) => u = t /\ l = k
    BY <1>12 DEF PlaceInv, Unique
<1>14. CASE i = h
    <2>1. t = "taken" /\ k = 1
        BY <1>11, <1>13, <1>14
    <2>2. At(i, "file", n)'
        BY <1>6, <1>14
    <2>3. \A l : ~At(i, "taken", l)'
        BY <1>8, <1>13, <2>1
    <2>4. \A u, l : At(i, u, l)' => u = "file" /\ l = n
        BY <1>6, <1>10, <1>13, <2>1, <2>3
    <2> QED
        BY <2>2, <2>4, OnlyPlace
<1>15. CASE i # h /\ t = "taken"
    <2>1. k \in Nat /\ At(i, "taken", k - 1)'
        BY <1>9, <1>12, <1>15
    <2>2. \A l : At(i, "taken", l)' => l = k - 1
        BY <1>8, <1>13
    <2>3. \A u, l : At(i, u, l)' => u = "taken" /\ l = k - 1
        BY <1>6, <1>10, <1>13, <1>15, <2>2
    <2> QED
        BY <2>1, <2>3, OnlyPlace
<1>16. CASE i # h /\ t # "taken"
    <2>1. \A u, l : At(i, u, l)' <=> At(i, u, l)
        <3>1. \A l : ~At(i, "taken", l) /\ ~At(i, "taken", l)'
            BY <1>8, <1>13, <1>16
        <3> QED
            BY <1>6, <1>10, <1>16, <3>1
    <2> QED
        BY <2>1, PlacesUnchanged DEF PlaceInv
<1> QED
    BY <1>14, <1>15, <1>16

\* Every step keeps PlaceInv.
LEMMA PlaceStep ==
    ASSUME LsnType, ItemInv, FlowInv, FileInv, PlaceInv, [Next]_vars PROVE PlaceInv'
<1>1. ASSUME NEW c \in Clients, AddLog(c) PROVE PlaceInv'
    BY <1>1, NewItemPlace DEF AddLog
<1>2. ASSUME NEW i \in Items, AddCheckpoint(i) PROVE PlaceInv'
    BY <1>2, NewItemPlace DEF AddCheckpoint
<1>3. ASSUME NEW c \in Clients, Add(c) PROVE PlaceInv'
    <2>1. PICK j \in Items : j = client[c]
        BY <1>3 DEF Add, FlowInv
    <2>2. /\ client' = [client EXCEPT ![c] = 0] /\ buffer' = Append(buffer, j)
          /\ UNCHANGED <<lsns, taken, file, cp>> /\ client \in [Clients -> Items \cup {0}]
        BY <1>3, <2>1 DEF Add, FlowInv
    <2>3. 0 \notin Items
        BY DEF Items
    <2>4. At(j, "adding", c) /\ ~At(j, "adding", c)'
        BY <2>1, <2>2, <2>3 DEF At
    <2>5. /\ \A i \in Items : \A l : At(i, "adding", l)' => At(i, "adding", l)
          /\ \A i \in Items : \A l : At(i, "cp", l)' <=> At(i, "cp", l)
          /\ \A i \in Items \ {j} : \A l : At(i, "adding", l) => At(i, "adding", l)'
        BY <2>1, <2>2, <2>3 DEF At
    <2> QED
        BY <2>2, <2>4, <2>5, ToBuffer
<1>4. CASE AddCheckpointRecord
    <2>1. PICK j \in Items : j = cp.id /\ cp.pc = "assigned"
        BY <1>4 DEF AddCheckpointRecord, FlowInv
    <2>2. /\ cp'.pc = "added" /\ buffer' = Append(buffer, j)
          /\ UNCHANGED <<lsns, taken, file, client>>
        BY <1>4, <2>1 DEF AddCheckpointRecord, FlowInv
    <2>3. At(j, "cp", j) /\ ~At(j, "cp", j)'
        BY <2>1, <2>2 DEF At
    <2>4. /\ \A i \in Items : \A l : At(i, "adding", l)' <=> At(i, "adding", l)
          /\ \A i \in Items : \A l : ~At(i, "cp", l)'
          /\ \A i \in Items \ {j} : \A l : ~At(i, "cp", l)
        BY <2>1, <2>2 DEF At
    <2> QED
        BY <2>2, <2>3, <2>4, ToBuffer
<1>5. ASSUME UNCHANGED <<client, buffer, taken, file, lsns>>, cp.pc # "assigned", cp'.pc # "assigned"
      PROVE  PlaceInv'
    <2>1. \A i, u, l : At(i, u, l)' <=> At(i, u, l)
        BY <1>5 DEF At
    <2> QED
        BY <1>5, <2>1, PlacesUnchanged DEF PlaceInv, Items
<1>6. CASE truncateConfig \/ saveCheckpoint
    BY <1>5, <1>6 DEF truncateConfig, saveCheckpoint, FlowInv
<1>7. CASE flushWal
    BY <1>7, FlushPlace
<1>8. CASE writeWal
    BY <1>8, WritePlace
<1>9. CASE UNCHANGED vars
    <2>1. \A i, u, l : At(i, u, l)' <=> At(i, u, l)
        BY <1>9 DEF At, vars
    <2> QED
        BY <1>9, <2>1, PlacesUnchanged DEF PlaceInv, Items, vars
<1> QED
    BY <1>1, <1>2, <1>3, <1>4, <1>6, <1>7, <1>8, <1>9 DEF Next, Checkpoint

\* WALBuffer and flushWal: every log and checkpoint that received an LSN is in
\* exactly one place, however many clients there are.
THEOREM NoItemLost == Spec => []ItemsConserved
<1>1. Init => PlaceInv
    <2> SUFFICES ASSUME Init PROVE Somewhere(1) /\ Unique(1)
        BY DEF Init, PlaceInv, Items
    <2>1. At(1, "file", 1)
        BY DEF Init, At
    <2>2. \A t, k : At(1, t, k) => t = "file" /\ k = 1
        BY DEF Init, At
    <2> QED
        BY <2>1, <2>2 DEF Somewhere, Unique
<1>2. PlaceInv => ItemsConserved
    <2> SUFFICES ASSUME PlaceInv, NEW i \in Items
                 PROVE  LET adding == {c \in Clients : client[c] = i}
                            inCp == {x \in {cp.id} : cp.pc = "assigned" /\ x = i}
                            inBuf == Occurrences(i, buffer)
                            inTaken == Occurrences(i, taken)
                            inFile == {k \in 1..Len(file) : file[k].id = i}
                            places == ({"adding"} \X adding) \cup ({"cp"} \X inCp)
                                        \cup ({"buffer"} \X inBuf) \cup ({"taken"} \X inTaken)
                                        \cup ({"file"} \X inFile)
                        IN  \E p \in places : places = {p}
        BY DEF ItemsConserved
    <2> DEFINE adding == {c \in Clients : client[c] = i}
               inCp == {x \in {cp.id} : cp.pc = "assigned" /\ x = i}
               inBuf == Occurrences(i, buffer)
               inTaken == Occurrences(i, taken)
               inFile == {k \in 1..Len(file) : file[k].id = i}
               places == ({"adding"} \X adding) \cup ({"cp"} \X inCp) \cup ({"buffer"} \X inBuf)
                            \cup ({"taken"} \X inTaken) \cup ({"file"} \X inFile)
    <2>1. /\ \A k : k \in adding <=> At(i, "adding", k)
          /\ \A k : k \in inCp <=> At(i, "cp", k)
          /\ \A k : k \in inBuf <=> At(i, "buffer", k)
          /\ \A k : k \in inTaken <=> At(i, "taken", k)
          /\ \A k : k \in inFile <=> At(i, "file", k)
        BY DEF At, Occurrences
    <2>2. \A t, k : At(i, t, k) => t \in {"adding", "cp", "buffer", "taken", "file"}
        BY DEF At
    <2>3. PICK t, k : At(i, t, k)
        BY DEF PlaceInv, Somewhere
    <2>4. \A u, l : At(i, u, l) => u = t /\ l = k
        BY <2>3 DEF PlaceInv, Unique
    <2> HIDE DEF adding, inCp, inBuf, inTaken, inFile
    <2>5. <<t, k>> \in places
        BY <2>1, <2>2, <2>3
    <2>6. \A p \in places : p = <<t, k>>
        BY <2>1, <2>4
    <2>7. \E p \in places : places = {p}
        BY <2>5, <2>6
    <2> QED
        BY <2>7 DEF adding, inCp, inBuf, inTaken, inFile
<1>3. LsnType /\ ItemInv /\ FlowInv /\ FileInv /\ PlaceInv /\ [Next]_vars => PlaceInv'
    BY PlaceStep
<1> QED
    BY <1>1, <1>2, <1>3, FileInvariant, PTL DEF Spec
=============================================================================
