--------------------------- MODULE Recovery_proofs ---------------------------
(***************************************************************************)
(* Theorems about crashes, restarts and recovery (module Recovery), for    *)
(* any number of clients and crashes, any part of the file that a crash    *)
(* takes, and any sizes of pages, headers, logs and checkpoints: the LSNs  *)
(* continue after a restart, and the walk replays what it has to.          *)
(***************************************************************************)
EXTENDS Recovery, Wal_proofs

recAll == <<vars, recVars>>

\* What is known of the items: a log is longer than its header, and the log that a
\* checkpoint names is older than the checkpoint.
KindInv ==
    \A i \in Items :
        /\ lsns[i].off < PAGE /\ lsns[i].size <= PAGE - HDR
        /\ lsns[i].kind = "log" => LOGHDR < lsns[i].size
        /\ lsns[i].kind = "checkpoint" => /\ lsns[i].size = CHK /\ lsns[i].upto < i
                                          /\ lsns[i].upto = 0 => lsns[i].redo = HDR

IsCheckpoint(i) == i \in Items /\ lsns[i].kind = "checkpoint"

\* The first n records are at their LSNs; they were added in LSN order and only the
\* last of them may end with its page.
AlignedTo(n) == \A k \in 1..n : Aligned(file[k])

OrderedTo(n) ==
    \A k \in 1..(n - 1) : /\ Addr(lsns[file[k + 1].id]) = LsnEnd(lsns[file[k].id])
                          /\ ~ExactFit(file[k])

\* The header is inserted into the records that leave their page, where the page ends.
CutInv(r) ==
    LET l == lsns[r.id]
    IN  IF l.off + l.size >= PAGE THEN r.cut = PAGE - l.off ELSE r.cut = 0

\* Whatever a crash leaves of the file begins with the first checkpoint, and its records
\* follow each other; those at their LSNs without a gap.
RecordsInv ==
    /\ file \in Seq(Record) /\ Len(file) > 0 /\ file[1].start = HDR
    /\ walSize = EndOf(file[Len(file)])
    /\ \A k \in 1..Len(file) : file[k].id \in Items /\ CutInv(file[k])
    /\ \A j, k \in 1..Len(file) : j < k => EndOf(file[j]) <= file[k].start
    /\ \A n \in 1..Len(file) :
        /\ OrderedTo(n) => Aligned(file[n])
        /\ AlignedTo(n) => /\ HDR <= lsns[file[n].id].off
                           /\ n > 1 => file[n].start = EndOf(file[n - 1])

\* An item is on its way to the file.
InFlight(i) ==
    \/ \E c \in Clients : client[c] = i
    \/ \E k \in 1..Len(buffer) : buffer[k] = i
    \/ \E k \in 1..Len(taken) : taken[k] = i
    \/ cp.pc = "assigned" /\ cp.id = i

\* Such an item received its LSN since the restart.
FlightInv ==
    \A i \in Items : InFlight(i) =>
        /\ from < i /\ mode # "down"
        /\ Addr(lsns[i]) + lsns[i].size <= NextAddr
        /\ AlignedTo(Len(file)) => HDR <= lsns[i].off

\* The next LSN since the restart.
NextInv ==
    /\ maxOffset < PAGE
    /\ mode # "down" => /\ OrderedTo(Len(file)) => LsnsBehind
                        /\ AlignedTo(Len(file)) => HDR <= maxOffset

\* The checkpoints that the config file, AddCheckpoint and recovery name.
NamedInv == \A i \in {conf, cp.id, from} : i = 0 \/ IsCheckpoint(i)

LogInv == /\ LsnType /\ FlowInv /\ ItemInv /\ KindInv /\ NamedInv
          /\ RecordsInv /\ FlightInv /\ NextInv

\* Division by the size of a page, and its remainder.
LEMMA PageOfAddr ==
    ASSUME NEW n \in Nat
    PROVE  /\ n \div PAGE \in Nat /\ n % PAGE \in Nat /\ n % PAGE < PAGE
           /\ n = (n \div PAGE) * PAGE + (n % PAGE)
<1>1. PICK d \in Nat \ {0} : d = PAGE
    BY Layout
<1>2. n \div d \in Nat /\ n % d \in Nat /\ n % d < d
    OBVIOUS
<1>3. n - d * (n \div d) = n % d
    OBVIOUS
<1>4. ASSUME NEW q \in Nat, NEW r \in Nat, n - d * q = r PROVE n = q * d + r
    BY <1>4
<1> QED
    BY <1>1, <1>2, <1>3, <1>4, Zenon

\* The page of an address, and whether a range that begins in a page leaves it.
LEMMA PageRange ==
    ASSUME NEW p \in Nat, NEW y \in Nat, y < PAGE, NEW x \in Nat
    PROVE  /\ (p * PAGE + y) \div PAGE = p /\ (p * PAGE + y) % PAGE = y
           /\ IsMultipage(p * PAGE + y, p * PAGE + y + x) <=> y + x >= PAGE
<1>1. PICK b \in Nat : b = p * PAGE
    BY PageStart
<1>2. ASSUME NEW z \in Nat, z < PAGE PROVE (b + z) \div PAGE = p /\ (b + z) % PAGE = z
    <2>1. PICK q \in Nat, r \in Nat : /\ q = (b + z) \div PAGE /\ r = (b + z) % PAGE
                                      /\ r < PAGE /\ b + z = q * PAGE + r
        BY PageOfAddr
    <2>2. r = z
        BY <1>1, <1>2, <2>1, AddressUnique
    <2>3. q * PAGE = p * PAGE
        <3>1. PICK c \in Nat : c = q * PAGE
            BY PageStart
        <3>2. b + z = c + z
            BY <2>1, <2>2, <3>1
        <3> QED
            BY <1>1, <3>1, <3>2
    <2>4. q = p
        <3>1. PICK d \in Nat \ {0} : d = PAGE
            BY Layout
        <3> QED
            BY <2>3, <3>1
    <2> QED
        BY <2>1, <2>2, <2>4
<1>3. CASE y + x < PAGE
    <2>1. b + y + x = b + (y + x) /\ y + x \in Nat
        OBVIOUS
    <2>2. (b + y) \div PAGE = p /\ (b + y + x) \div PAGE = p
        BY <1>2, <1>3, <2>1
    <2> QED
        BY <1>1, <1>2, <1>3, <2>2, Layout DEF IsMultipage
<1>4. CASE y + x >= PAGE
    <2>1. PICK q \in Nat, r \in Nat : /\ q = (b + y + x) \div PAGE /\ r = (b + y + x) % PAGE
                                      /\ r < PAGE /\ b + y + x = q * PAGE + r
        BY PageOfAddr
    <2>2. q # p
        <3> SUFFICES ASSUME q = p PROVE FALSE
            OBVIOUS
        <3>1. b + y + x = b + r
            BY <1>1, <2>1
        <3> QED
            BY <1>4, <2>1, <3>1, Layout
    <2> QED
        BY <1>1, <1>2, <1>4, <2>1, <2>2 DEF IsMultipage
<1> QED
    BY <1>3, <1>4, Layout

\* assignLSN adds an item that lies where the next LSN was.
LEMMA Assigned ==
    ASSUME LsnType, NEW kind, NEW size \in Sizes \cup {CHK}, NEW redo, NEW upto,
           assignLSN(kind, size, redo, upto)
    PROVE  LET n == Len(lsns) + 1
           IN  /\ n \in Nat /\ Items' = Items \cup {n} /\ \A i \in Items : i < n /\ lsns'[i] = lsns[i]
               /\ lsns'[n].kind = kind /\ lsns'[n].size = size /\ lsns'[n].off = maxOffset
               /\ lsns'[n].upto = upto /\ lsns'[n].redo = redo
               /\ Addr(lsns'[n]) = NextAddr
               /\ NextAddr \in Nat /\ NextAddr' \in Nat /\ NextAddr + size <= NextAddr'
               /\ maxOffset < PAGE /\ size <= PAGE - HDR => maxOffset' < PAGE
               /\ HDR <= maxOffset => HDR <= maxOffset'
<1>1. PICK n : n = Len(lsns) + 1
    OBVIOUS
<1>2. n \in Nat /\ \A i \in Items : i < n
    <2>1. lsns \in Seq(Item)
        BY Zenon DEF LsnType
    <2> QED
        BY <1>1, <2>1 DEF Items
<1>3. /\ Items' = Items \cup {n} /\ \A i \in Items : lsns'[i] = lsns[i]
      /\ lsns'[n] = [kind |-> kind, page |-> maxPage, off |-> maxOffset,
                     size |-> size, redo |-> redo, upto |-> upto]
    BY <1>1, AssignKeeps, Zenon
<1>4. Addr(lsns'[n]) = NextAddr
    BY <1>3 DEF Addr, NextAddr
<1>5. /\ maxPage' \in Nat /\ maxOffset' \in Nat
      /\ maxOffset < PAGE /\ size <= PAGE - HDR => maxOffset' < PAGE
      /\ HDR <= maxOffset => HDR <= maxOffset'
      /\ NextAddr + size <= NextAddr'
    BY AdvanceStep, Zenon DEF assignLSN
<1>6. NextAddr \in Nat /\ NextAddr' \in Nat
    <2>1. maxPage' * PAGE \in Nat
        BY <1>5, PageStart
    <2>2. NextAddr' = maxPage' * PAGE + maxOffset'
        BY DEF NextAddr
    <2> QED
        BY <1>5, <2>1, <2>2, AddrType
<1> QED
    BY <1>1, <1>2, <1>3, <1>4, <1>5, <1>6

\* A record that lies at its LSN ends where the next LSN begins, behind the header of
\* a page and before the end of that page.
LEMMA EndInPage ==
    ASSUME LsnType, ItemInv, NEW r \in Record, r.id \in Items, CutInv(r), Aligned(r),
           HDR <= lsns[r.id].off, lsns[r.id].off < PAGE, lsns[r.id].size <= PAGE - HDR
    PROVE  /\ EndOf(r) = LsnEnd(lsns[r.id])
           /\ \E p, y \in Nat : EndOf(r) = p * PAGE + y /\ HDR <= y /\ y < PAGE
<1>1. PICK p \in Nat, o \in Nat, s \in Nat :
            p = lsns[r.id].page /\ o = lsns[r.id].off /\ s = lsns[r.id].size
    BY ItemFacts
<1>2. HDR <= o /\ o < PAGE /\ 1 <= s /\ s <= PAGE - HDR
    BY <1>1, ItemFacts
<1>3. PICK b \in Nat : b = p * PAGE /\ (p + 1) * PAGE = b + PAGE
    BY PageStart
<1>4. r.start = b + o
    BY <1>1, <1>3 DEF Aligned, Addr
<1>5. CASE o + s >= PAGE
    <2>1. r.cut = PAGE - o
        BY <1>1, <1>5 DEF CutInv
    <2>2. r.cut > 0
        BY <1>2, <2>1, Layout
    <2>3. EndOf(r) = b + o + s + HDR
        BY <1>1, <1>4, <2>2, Layout DEF EndOf
    <2>4. LsnEnd(lsns[r.id]) = b + o + s + HDR
        BY <1>1, <1>3, <1>5 DEF LsnEnd, Addr
    <2>5. PICK y \in Nat : y = (o + s - PAGE) + HDR
        BY <1>5, Layout
    <2>6. HDR <= y /\ y < PAGE /\ b + o + s + HDR = (b + PAGE) + y
        BY <1>2, <1>5, <2>5, Layout
    <2>7. EndOf(r) = (p + 1) * PAGE + y
        BY <1>3, <2>3, <2>6
    <2> QED
        BY <2>3, <2>4, <2>6, <2>7
<1>6. CASE o + s < PAGE
    <2>1. r.cut = 0
        BY <1>1, <1>6, Layout DEF CutInv
    <2>2. EndOf(r) = b + o + s
        BY <1>1, <1>4, <2>1 DEF EndOf
    <2>3. LsnEnd(lsns[r.id]) = b + o + s
        BY <1>1, <1>3, <1>6, Layout DEF LsnEnd, Addr
    <2>4. PICK y \in Nat : y = o + s
        OBVIOUS
    <2>5. HDR <= y /\ y < PAGE /\ EndOf(r) = p * PAGE + y
        BY <1>2, <1>3, <1>6, <2>2, <2>4, Layout
    <2> QED
        BY <2>2, <2>3, <2>5
<1> QED
    BY <1>5, <1>6, Layout

\* The size of an item that fits a page.
LEMMA FitFacts == AllFit' => \A i \in Items' : lsns'[i].size <= PAGE - HDR
BY DEF AllFit, Fit, Items

\* The kinds and sizes of the items.
LEMMA KindStep ==
    ASSUME LsnType, maxOffset < PAGE, AllFit', KindInv, [Next]_vars PROVE KindInv'
<1>1. ASSUME NEW kind, NEW size \in Sizes \cup {CHK}, NEW redo, NEW upto,
             assignLSN(kind, size, redo, upto),
             kind = "log" => size \in Sizes,
             kind = "checkpoint" => size = CHK /\ upto \in Items
      PROVE  KindInv'
    <2>1. PICK n : n = Len(lsns) + 1
        OBVIOUS
    <2>2. /\ n \in Nat /\ Items' = Items \cup {n} /\ \A i \in Items : i < n /\ lsns'[i] = lsns[i]
          /\ lsns'[n].kind = kind /\ lsns'[n].size = size /\ lsns'[n].off = maxOffset
          /\ lsns'[n].upto = upto
        BY <1>1, <2>1, Assigned, Zenon
    <2>3. \A i \in Items : i # 0
        BY DEF Items
    <2> SUFFICES ASSUME NEW i \in Items'
                 PROVE  /\ lsns'[i].off < PAGE /\ lsns'[i].size <= PAGE - HDR
                        /\ lsns'[i].kind = "log" => LOGHDR < lsns'[i].size
                        /\ lsns'[i].kind = "checkpoint" =>
                                /\ lsns'[i].size = CHK /\ lsns'[i].upto < i
                                /\ lsns'[i].upto = 0 => lsns'[i].redo = HDR
        BY Zenon DEF KindInv
    <2>4. CASE i \in Items
        BY <2>2, <2>4, Zenon DEF KindInv
    <2>5. CASE i = n
        <3>1. lsns'[i].size <= PAGE - HDR
            BY FitFacts, Zenon
        <3> QED
            BY <1>1, <2>2, <2>3, <2>5, <3>1, RecoveryAssumption, Zenon
    <2> QED
        BY <2>2, <2>4, <2>5, Zenon
<1>2. ASSUME NEW c \in Clients, AddLog(c) PROVE KindInv'
    BY <1>1, <1>2 DEF AddLog
<1>3. ASSUME NEW i \in Items, AddCheckpoint(i) PROVE KindInv'
    BY <1>1, <1>3 DEF AddCheckpoint
<1>4. ASSUME UNCHANGED lsns PROVE KindInv'
    BY <1>4 DEF KindInv, Items
<1>5. ASSUME NEW c \in Clients, Add(c) PROVE UNCHANGED lsns
    BY <1>5 DEF Add
<1>6. ASSUME AddCheckpointRecord \/ truncateConfig \/ saveCheckpoint \/ flushWal \/ writeWal
      PROVE  UNCHANGED lsns
    BY <1>6 DEF AddCheckpointRecord, truncateConfig, saveCheckpoint, flushWal, writeWal
<1> QED
    BY <1>2, <1>3, <1>4, <1>5, <1>6 DEF Next, Checkpoint, vars

\* What the steps of the log keep of the items.
LEMMA ItemsKept ==
    ASSUME LsnType, [Next]_vars
    PROVE  Items \subseteq Items' /\ \A i \in Items : lsns'[i] = lsns[i]
<1>1. ASSUME NEW c \in Clients, AddLog(c)
      PROVE  Items \subseteq Items' /\ \A i \in Items : lsns'[i] = lsns[i]
    BY <1>1, AssignKeeps DEF AddLog
<1>2. ASSUME NEW i \in Items, AddCheckpoint(i)
      PROVE  Items \subseteq Items' /\ \A j \in Items : lsns'[j] = lsns[j]
    BY <1>2, AssignKeeps DEF AddCheckpoint
<1>3. ASSUME UNCHANGED lsns PROVE Items \subseteq Items' /\ \A i \in Items : lsns'[i] = lsns[i]
    BY <1>3 DEF Items
<1>4. ASSUME NEW c \in Clients, Add(c) PROVE UNCHANGED lsns
    BY <1>4 DEF Add
<1>5. ASSUME AddCheckpointRecord \/ truncateConfig \/ saveCheckpoint \/ flushWal \/ writeWal
      PROVE  UNCHANGED lsns
    BY <1>5 DEF AddCheckpointRecord, truncateConfig, saveCheckpoint, flushWal, writeWal
<1> QED
    BY <1>1, <1>2, <1>3, <1>4, <1>5, Zenon DEF Next, Checkpoint, vars

\* A checkpoint stays one.
LEMMA CheckpointKept ==
    ASSUME LsnType, [Next]_vars, NEW i, IsCheckpoint(i) PROVE IsCheckpoint(i)'
BY ItemsKept, Zenon DEF IsCheckpoint

\* The config file names checkpoints only.
LEMMA NamedStep ==
    ASSUME LsnType, maxOffset < PAGE, NamedInv, [Next]_vars, UNCHANGED from PROVE NamedInv'
<1>1. ASSUME NEW i \in {conf, cp.id, from} PROVE i = 0 \/ IsCheckpoint(i)'
    BY <1>1, CheckpointKept, Zenon DEF NamedInv
<1>2. cp'.id \in {0, cp.id} \/ IsCheckpoint(cp.id)'
    <2>1. ASSUME NEW c \in Clients, AddLog(c) \/ Add(c) PROVE cp' = cp
        BY <2>1 DEF AddLog, Add
    <2>2. ASSUME NEW i \in Items, AddCheckpoint(i) PROVE IsCheckpoint(cp.id)'
        <3>1. /\ assignLSN("checkpoint", CHK, RedoPoint(i), i)
              /\ cp' = [pc |-> "assigned", id |-> Len(lsns) + 1]
            BY <2>2, Zenon DEF AddCheckpoint
        <3>2. Len(lsns) + 1 \in Items' /\ lsns'[Len(lsns) + 1].kind = "checkpoint"
            BY <3>1, Assigned
        <3> QED
            BY <3>1, <3>2 DEF IsCheckpoint
    <2>3. CASE AddCheckpointRecord \/ truncateConfig
        <3>1. \E v : cp' = [cp EXCEPT !.pc = v]
            BY <2>3 DEF AddCheckpointRecord, truncateConfig
        <3> QED
            BY <3>1
    <2>4. CASE saveCheckpoint
        BY <2>4 DEF saveCheckpoint
    <2>5. CASE flushWal \/ writeWal \/ UNCHANGED vars
        BY <2>5 DEF flushWal, writeWal, vars
    <2> QED
        BY <2>1, <2>2, <2>3, <2>4, <2>5, Zenon DEF Next, Checkpoint
<1>3. conf' \in {0, conf, cp.id}
    <2>1. ASSUME NEW c \in Clients, AddLog(c) \/ Add(c) PROVE conf' = conf
        BY <2>1 DEF AddLog, Add
    <2>2. ASSUME NEW i \in Items, AddCheckpoint(i) PROVE conf' = conf
        BY <2>2 DEF AddCheckpoint
    <2>3. CASE AddCheckpointRecord \/ truncateConfig \/ saveCheckpoint \/ flushWal \/ writeWal \/ UNCHANGED vars
        BY <2>3 DEF AddCheckpointRecord, truncateConfig, saveCheckpoint, flushWal, writeWal, vars
    <2> QED
        BY <2>1, <2>2, <2>3, Zenon DEF Next, Checkpoint
<1>4. ASSUME NEW i \in {conf', cp'.id, from'} PROVE i = 0 \/ IsCheckpoint(i)'
    <2>1. CASE i = conf'
        <3>1. i = 0 \/ i \in {conf, cp.id, from}
            BY <1>3, <2>1
        <3> QED
            BY <1>1, <3>1, Zenon DEF IsCheckpoint
    <2>2. CASE i = cp'.id
        BY <1>1, <1>2, <2>2, Zenon DEF IsCheckpoint
    <2>3. CASE i = from'
        BY <1>1, <2>3, Zenon DEF IsCheckpoint
    <2> QED
        BY <1>4, <2>1, <2>2, <2>3, Zenon
<1> QED
    BY <1>4, Zenon DEF NamedInv, IsCheckpoint

\* What is always known of the records.
LEMMA FileFacts ==
    ASSUME RecordsInv
    PROVE  /\ file \in Seq(Record) /\ Len(file) \in Nat \ {0} /\ file[1].start = HDR
           /\ walSize = EndOf(file[Len(file)])
           /\ \A k \in 1..Len(file) : /\ file[k] \in Record /\ CutInv(file[k])
                                       /\ file[k].id \in Items /\ file[k].id \in Nat \ {0}
<1>1. /\ file \in Seq(Record) /\ Len(file) > 0 /\ file[1].start = HDR
      /\ walSize = EndOf(file[Len(file)])
      /\ \A k \in 1..Len(file) : file[k].id \in Items /\ CutInv(file[k])
    BY Zenon DEF RecordsInv
<1>2. Len(file) \in Nat \ {0} /\ \A k \in 1..Len(file) : file[k] \in Record
    BY <1>1
<1>3. \A i \in Items : i \in Nat \ {0}
    BY DEF Items
<1> QED
    BY <1>1, <1>2, <1>3, Zenon

\* Steps that leave the file alone.
LEMMA SameFile ==
    ASSUME LsnType, ItemInv, RecordsInv, UNCHANGED <<file, walSize>>, Items \subseteq Items',
           \A i \in Items : lsns'[i] = lsns[i]
    PROVE  /\ RecordsInv'
           /\ \A n \in 1..Len(file) : /\ AlignedTo(n)' <=> AlignedTo(n)
                                      /\ OrderedTo(n)' <=> OrderedTo(n)
<1>1. /\ file \in Seq(Record) /\ Len(file) \in Nat /\ Len(file) > 0
      /\ \A k \in 1..Len(file) : file[k].id \in Items
    BY FileFacts
<1>2. \A k \in 1..Len(file) : lsns'[file[k].id] = lsns[file[k].id]
    BY <1>1, Zenon
<1>3. ASSUME NEW n \in 1..Len(file)
      PROVE  (AlignedTo(n)' <=> AlignedTo(n)) /\ (OrderedTo(n)' <=> OrderedTo(n))
    <2>1. \A k \in 1..n : k \in 1..Len(file)
        BY <1>1
    <2>2. \A k \in 1..(n - 1) : k \in 1..Len(file) /\ k + 1 \in 1..Len(file)
        BY <1>1
    <2>3. AlignedTo(n)' <=> AlignedTo(n)
        BY <1>2, <2>1, Zenon DEF AlignedTo, Aligned, Addr
    <2>4. OrderedTo(n)' <=> OrderedTo(n)
        BY <1>2, <2>2, Zenon DEF OrderedTo, Addr, LsnEnd, ExactFit
    <2> QED
        BY <2>3, <2>4
<1>4. \A k \in 1..Len(file) :
            /\ EndOf(file[k])' = EndOf(file[k])
            /\ Aligned(file[k])' <=> Aligned(file[k])
            /\ CutInv(file[k])' <=> CutInv(file[k])
            /\ lsns'[file[k].id].off = lsns[file[k].id].off
    BY <1>2, Zenon DEF EndOf, Aligned, Addr, CutInv
<1>5. Len(file) \in 1..Len(file)
    BY <1>1
<1>6. \A n \in 1..Len(file) : n > 1 => n - 1 \in 1..Len(file)
    BY <1>1
<1>7. /\ walSize' = EndOf(file[Len(file)])'
      /\ \A k \in 1..Len(file) : file[k].id \in Items' /\ CutInv(file[k])'
      /\ \A j, k \in 1..Len(file) : j < k => EndOf(file[j])' <= file[k].start
    BY <1>1, <1>4, <1>5, Zenon DEF RecordsInv
<1>8. \A n \in 1..Len(file) :
        /\ OrderedTo(n)' => Aligned(file[n])'
        /\ AlignedTo(n)' => /\ HDR <= lsns'[file[n].id].off
                            /\ n > 1 => file[n].start = EndOf(file[n - 1])'
    BY <1>3, <1>4, <1>6, Zenon DEF RecordsInv
<1>9. file' = file
    OBVIOUS
<1>10. RecordsInv'
    BY <1>1, <1>7, <1>8, <1>9, Zenon DEF RecordsInv, EndOf, Aligned, CutInv, OrderedTo, AlignedTo
<1> QED
    BY <1>3, <1>10

\* The end of a record is a number.
LEMMA EndType ==
    ASSUME LsnType, ItemInv, NEW r \in Record, r.id \in Items
    PROVE  EndOf(r) \in Nat /\ r.start \in Nat /\ r.start + lsns[r.id].size <= EndOf(r)
<1>1. PICK s \in Nat, a \in Nat : s = lsns[r.id].size /\ a = r.start
    BY ItemFacts DEF Record
<1>2. EndOf(r) = a + s + (IF r.cut > 0 THEN HDR ELSE 0)
    BY <1>1 DEF EndOf
<1> QED
    BY <1>1, <1>2, Layout

\* writeWal: the new record.
NewRecord(h, r, at) ==
    /\ r \in Record /\ r.id = h /\ CutInv(r) /\ at <= r.start
    /\ HDR < lsns[h].off => r.start = at

\* What checkLogOverflow makes of an item, in these terms.
LEMMA RecordWritten ==
    ASSUME LsnType, ItemInv, KindInv, NEW h \in Items, NEW at \in Nat
    PROVE  NewRecord(h, checkLogOverflow(h, at), at)
<1>1. PICK r : r = checkLogOverflow(h, at)
    OBVIOUS
<1>2. PICK o \in Nat, s \in Nat : o = lsns[h].off /\ s = lsns[h].size /\ o < PAGE
    BY ItemFacts DEF KindInv
<1>3. /\ r \in Record /\ r.id = h
      /\ o + s >= PAGE => r.cut = PAGE - o /\ r.start = at
      /\ o + s < PAGE => r.cut = 0 /\ r.start = (IF o <= HDR THEN at + HDR ELSE at)
    BY <1>1, <1>2, OverflowFacts, Zenon
<1>4. CASE o + s >= PAGE
    BY <1>1, <1>2, <1>3, <1>4 DEF NewRecord, CutInv
<1>5. CASE o + s < PAGE
    BY <1>1, <1>2, <1>3, <1>5, Layout DEF NewRecord, CutInv
<1> QED
    BY <1>2, <1>4, <1>5, Layout

\* A record at its LSN that follows one at its LSN follows it without a gap.
LEMMA NoGap ==
    ASSUME LsnType, ItemInv, KindInv, NEW q \in Record, q.id \in Items, CutInv(q), Aligned(q),
           HDR <= lsns[q.id].off, NEW h \in Items, HDR <= lsns[h].off,
           NEW r, r = checkLogOverflow(h, EndOf(q)), Aligned(r)
    PROVE  r.start = EndOf(q)
<1>1. PICK e \in Nat : e = EndOf(q)
    BY EndType
<1>2. PICK p \in Nat, o \in Nat, s \in Nat :
            p = lsns[h].page /\ o = lsns[h].off /\ s = lsns[h].size /\ o < PAGE
    BY ItemFacts DEF KindInv
<1>3. /\ r.id = h
      /\ o + s >= PAGE => r.start = e
      /\ o + s < PAGE => r.start = (IF o <= HDR THEN e + HDR ELSE e)
    BY <1>1, <1>2, OverflowFacts, Zenon
<1>4. CASE o + s < PAGE /\ o = HDR
    <2>1. r.start = p * PAGE + HDR /\ r.start = e + HDR
        BY <1>2, <1>3, <1>4, Layout DEF Aligned, Addr
    <2>2. PICK b \in Nat : b = p * PAGE
        BY PageStart
    <2>3. e = p * PAGE + 0
        BY <2>1, <2>2, Layout
    <2>4. PICK x \in Nat, y \in Nat : e = x * PAGE + y /\ HDR <= y /\ y < PAGE
        <3>1. lsns[q.id].off < PAGE /\ lsns[q.id].size <= PAGE - HDR
            BY DEF KindInv
        <3> QED
            BY <1>1, <3>1, EndInPage, Zenon
    <2>5. 0 \in Nat /\ 0 < PAGE /\ p * PAGE + 0 = x * PAGE + y
        BY <2>3, <2>4, Layout
    <2>6. y = 0
        BY <2>4, <2>5, AddressUnique, Zenon
    <2> QED
        BY <2>4, <2>6, Layout
<1>5. CASE o + s >= PAGE \/ HDR < o
    BY <1>1, <1>2, <1>3, <1>5, Layout
<1> QED
    BY <1>2, <1>4, <1>5, Layout

\* The LSN behind an item that does not end exactly with its page is not the first
\* one of a page, also when a restart assigned it.
LEMMA BehindEnd ==
    ASSUME LsnType, ItemInv, NEW i \in Items, NEW j \in Items,
           HDR <= lsns[i].off, lsns[i].off < PAGE, lsns[i].size <= PAGE - HDR, lsns[j].off < PAGE,
           Addr(lsns[j]) = LsnEnd(lsns[i]), lsns[i].off + lsns[i].size # PAGE
    PROVE  HDR < lsns[j].off
<1>1. PICK p \in Nat, o \in Nat, s \in Nat : p = lsns[i].page /\ o = lsns[i].off /\ s = lsns[i].size
    BY ItemFacts
<1>2. PICK q \in Nat, x \in Nat : q = lsns[j].page /\ x = lsns[j].off
    BY ItemFacts
<1>3. HDR <= o /\ o < PAGE /\ 1 <= s /\ s <= PAGE - HDR /\ x < PAGE /\ o + s # PAGE
    BY <1>1, <1>2, ItemFacts
<1>4. p * PAGE \in Nat /\ (p + 1) * PAGE = p * PAGE + PAGE /\ q * PAGE \in Nat
    BY PageStart
<1>5. q * PAGE + x = p * PAGE + o + s + (IF o + s >= PAGE THEN HDR ELSE 0)
    BY <1>1, <1>2 DEF LsnEnd, Addr
<1>6. CASE o + s < PAGE
    <2>1. q * PAGE + x = p * PAGE + (o + s)
        BY <1>3, <1>4, <1>5, <1>6, Layout
    <2>2. x = o + s
        BY <1>3, <1>6, <2>1, AddressUnique
    <2> QED
        BY <1>2, <1>3, <2>2, Layout
<1>7. CASE o + s > PAGE
    <2>1. PICK y \in Nat : y = o + s - PAGE + HDR
        BY <1>3, <1>7, Layout
    <2>2. y < PAGE /\ HDR < y
        BY <1>3, <1>7, <2>1, Layout
    <2>3. q * PAGE + x = (p + 1) * PAGE + y
        BY <1>3, <1>4, <1>5, <1>7, <2>1, Layout
    <2>4. x = y
        BY <1>3, <2>2, <2>3, AddressUnique
    <2> QED
        BY <1>2, <2>2, <2>4
<1> QED
    BY <1>3, <1>6, <1>7, Layout

\* writeWal keeps RecordsInv.
LEMMA RecordsWritten ==
    ASSUME LsnType, ItemInv, KindInv, FlowInv, RecordsInv, FlightInv, writeWal
    PROVE  /\ RecordsInv' /\ Len(file') = Len(file) + 1 /\ file'[Len(file) + 1].id = Head(taken)
           /\ \A k \in 1..Len(file) : file'[k] = file[k]
           /\ AlignedTo(Len(file))' => AlignedTo(Len(file))
           /\ OrderedTo(Len(file))' => OrderedTo(Len(file))
<1>0. PICK h : h = Head(taken)
    OBVIOUS
<1>1. h \in Items /\ lsns' = lsns /\ Items' = Items /\ InFlight(h)
    <2>1. taken # <<>> /\ lsns' = lsns
        BY DEF writeWal
    <2>2. taken \in Seq(Items)
        BY DEF FlowInv
    <2>3. h \in Items /\ 1 \in 1..Len(taken) /\ taken[1] = h
        BY <1>0, <2>1, <2>2
    <2> QED
        BY <2>1, <2>3, Zenon DEF InFlight, Items
<1>2. PICK n \in Nat \ {0} : n = Len(file)
    BY FileFacts
<1>3. file \in Seq(Record) /\ n \in 1..n /\ file[n].id \in Items /\ file[n] \in Record
    BY <1>2, FileFacts
<1>4. PICK e \in Nat : e = walSize /\ e = EndOf(file[n])
    BY <1>2, <1>3, EndType, FileFacts
<1>5. PICK r : r = checkLogOverflow(h, e)
    OBVIOUS
<1>6. NewRecord(h, r, e)
    BY <1>1, <1>5, RecordWritten
<1>7. file' = Append(file, r) /\ walSize' = EndOf(r)
    BY <1>0, <1>4, <1>5 DEF writeWal
<1>8. /\ file' \in Seq(Record) /\ Len(file') = n + 1 /\ file'[n + 1] = r
      /\ \A k \in 1..n : file'[k] = file[k]
    BY <1>2, <1>3, <1>6, <1>7 DEF NewRecord
<1>10. \A m \in 1..n : /\ AlignedTo(m)' <=> AlignedTo(m)
                       /\ OrderedTo(m)' <=> OrderedTo(m)
    <2> SUFFICES ASSUME NEW m \in 1..n
                 PROVE  (AlignedTo(m)' <=> AlignedTo(m)) /\ (OrderedTo(m)' <=> OrderedTo(m))
        BY Zenon
    <2>1. \A k \in 1..m : k \in 1..n
        BY <1>2
    <2>2. \A k \in 1..(m - 1) : k \in 1..n /\ k + 1 \in 1..n
        BY <1>2
    <2>3. AlignedTo(m)' <=> AlignedTo(m)
        BY <1>1, <1>8, <2>1, Zenon DEF AlignedTo, Aligned, Addr
    <2>4. OrderedTo(m)' <=> OrderedTo(m)
        BY <1>1, <1>8, <2>2, Zenon DEF OrderedTo, Addr, LsnEnd, ExactFit
    <2> QED
        BY <2>3, <2>4
<1>11. /\ AlignedTo(n + 1)' => AlignedTo(n) /\ Aligned(r)
       /\ OrderedTo(n + 1)' => /\ OrderedTo(n) /\ Addr(lsns[h]) = LsnEnd(lsns[file[n].id])
                               /\ ~ExactFit(file[n])
    <2>1. \A k \in 1..n : k \in 1..(n + 1)
        BY <1>2
    <2>2. n + 1 \in 1..(n + 1) /\ n \in 1..((n + 1) - 1) /\ \A k \in 1..(n - 1) : k \in 1..((n + 1) - 1)
        BY <1>2
    <2>3. AlignedTo(n + 1)' => AlignedTo(n)' /\ Aligned(r)
        BY <1>1, <1>8, <2>1, <2>2, Zenon DEF AlignedTo, Aligned, Addr
    <2>4. OrderedTo(n + 1)' => OrderedTo(n)'
        BY <2>2, Zenon DEF OrderedTo
    <2>5. OrderedTo(n + 1)' => /\ Addr(lsns[file'[n + 1].id]) = LsnEnd(lsns[file'[n].id])
                               /\ ~ExactFit(file'[n])
        BY <1>1, <2>2, Zenon DEF OrderedTo, ExactFit, Addr, LsnEnd
    <2> QED
        BY <1>3, <1>6, <1>8, <1>10, <2>3, <2>4, <2>5, Zenon DEF NewRecord, ExactFit
<1>12. \A m \in 1..n : OrderedTo(m) => AlignedTo(m)
    <2> SUFFICES ASSUME NEW m \in 1..n, OrderedTo(m), NEW k \in 1..m PROVE Aligned(file[k])
        BY Zenon DEF AlignedTo
    <2>1. k \in 1..n /\ \A j \in 1..(k - 1) : j \in 1..(m - 1)
        BY <1>2
    <2>2. OrderedTo(k)
        BY <2>1, Zenon DEF OrderedTo
    <2> QED
        BY <1>2, <2>1, <2>2, Zenon DEF RecordsInv
<1>13. AlignedTo(n) => /\ Aligned(file[n]) /\ HDR <= lsns[file[n].id].off
                       /\ HDR <= lsns[h].off
    BY <1>1, <1>2, <1>3, Zenon DEF AlignedTo, RecordsInv, FlightInv
<1>14. AlignedTo(n + 1)' => HDR <= lsns[h].off /\ r.start = EndOf(file[n])
    <2>1. CutInv(file[n])
        BY <1>2, <1>3, Zenon DEF RecordsInv
    <2> QED
        BY <1>1, <1>3, <1>4, <1>5, <1>11, <1>13, <2>1, NoGap, Zenon
<1>15. OrderedTo(n + 1)' => Aligned(r)
    <2> SUFFICES ASSUME OrderedTo(n + 1)' PROVE Aligned(r)
        OBVIOUS
    <2>1. /\ Addr(lsns[h]) = LsnEnd(lsns[file[n].id]) /\ ~ExactFit(file[n])
          /\ Aligned(file[n]) /\ HDR <= lsns[file[n].id].off
        BY <1>3, <1>11, <1>12, <1>13, Zenon
    <2>2. /\ lsns[file[n].id].off < PAGE /\ lsns[file[n].id].size <= PAGE - HDR
          /\ lsns[h].off < PAGE /\ CutInv(file[n])
        BY <1>1, <1>2, <1>3, Zenon DEF KindInv, RecordsInv
    <2>3. e = LsnEnd(lsns[file[n].id])
        BY <1>3, <1>4, <2>1, <2>2, EndInPage, Zenon
    <2>4. HDR < lsns[h].off
        BY <1>1, <1>3, <2>1, <2>2, BehindEnd, Zenon DEF ExactFit
    <2> QED
        BY <1>6, <2>1, <2>3, <2>4, Zenon DEF NewRecord, Aligned
<1>16. ASSUME NEW k \in 1..(n + 1) PROVE k \in 1..n \/ k = n + 1
    BY <1>2, <1>16
<1>17. ASSUME NEW k \in 1..(n + 1) PROVE file'[k].id \in Items /\ CutInv(file'[k])
    <2>1. CASE k \in 1..n
        BY <1>2, <1>8, <2>1, Zenon DEF RecordsInv
    <2>2. CASE k = n + 1
        BY <1>1, <1>6, <1>8, <2>2, Zenon DEF NewRecord
    <2> QED
        BY <1>16, <2>1, <2>2
<1>18. ASSUME NEW j \in 1..(n + 1), NEW k \in 1..(n + 1), j < k
       PROVE  EndOf(file'[j]) <= file'[k].start
    <2>1. j \in 1..n
        BY <1>2, <1>18
    <2>2. CASE k \in 1..n
        BY <1>2, <1>8, <1>18, <2>1, <2>2, Zenon DEF RecordsInv
    <2>3. CASE k = n + 1
        <3>1. EndOf(file[j]) <= e
            <4>1. CASE j = n
                BY <1>4, <4>1
            <4>2. CASE j # n
                <5>1. j < n
                    BY <1>2, <2>1, <4>2
                <5>2. EndOf(file[j]) <= file[n].start
                    BY <1>2, <1>3, <2>1, <5>1, Zenon DEF RecordsInv
                <5>3. EndOf(file[j]) \in Nat
                    BY <1>2, <1>3, <2>1, EndType, FileFacts
                <5>4. /\ file[n].start \in Nat /\ lsns[file[n].id].size \in Nat
                      /\ file[n].start + lsns[file[n].id].size <= EndOf(file[n])
                    BY <1>3, EndType, ItemFacts
                <5> QED
                    BY <1>4, <5>2, <5>3, <5>4
            <4> QED
                BY <4>1, <4>2
        <3>2. e <= r.start /\ r.start \in Nat
            BY <1>6 DEF NewRecord, Record
        <3>3. EndOf(file[j]) \in Nat
            BY <1>2, <1>3, <2>1, EndType, FileFacts
        <3>4. EndOf(file[j]) <= r.start
            BY <3>1, <3>2, <3>3
        <3> QED
            BY <1>8, <2>1, <2>3, <3>4, Zenon
    <2> QED
        BY <1>16, <2>2, <2>3
<1>19. ASSUME NEW m \in 1..(n + 1)
       PROVE  /\ OrderedTo(m)' => Aligned(file'[m])
              /\ AlignedTo(m)' => /\ HDR <= lsns[file'[m].id].off
                                  /\ m > 1 => file'[m].start = EndOf(file'[m - 1])
    <2>1. CASE m \in 1..n
        <3>1. m > 1 => m - 1 \in 1..n
            BY <1>2, <2>1
        <3> QED
            BY <1>2, <1>8, <1>10, <2>1, <3>1, Zenon DEF RecordsInv
    <2>2. CASE m = n + 1
        <3>1. m - 1 = n
            BY <1>2, <2>2
        <3> QED
            BY <1>3, <1>6, <1>8, <1>14, <1>15, <2>2, <3>1, Zenon DEF NewRecord
    <2> QED
        BY <1>16, <2>1, <2>2
<1>20. file'[1].start = HDR /\ Len(file') > 0
    <2>1. 1 \in 1..n /\ n + 1 > 0
        BY <1>2
    <2> QED
        BY <1>2, <1>8, <2>1, Zenon DEF RecordsInv
<1>21. RecordsInv'
    <2>1. (walSize = EndOf(file[Len(file)]))'
        BY <1>1, <1>7, <1>8, Zenon DEF EndOf
    <2>2. (\A k \in 1..Len(file) : file[k].id \in Items /\ CutInv(file[k]))'
        BY <1>1, <1>8, <1>17, Zenon DEF CutInv
    <2>3. (\A j, k \in 1..Len(file) : j < k => EndOf(file[j]) <= file[k].start)'
        BY <1>1, <1>8, <1>18, Zenon DEF EndOf
    <2>4. (\A m \in 1..Len(file) :
             /\ OrderedTo(m) => Aligned(file[m])
             /\ AlignedTo(m) => /\ HDR <= lsns[file[m].id].off
                                /\ m > 1 => file[m].start = EndOf(file[m - 1]))'
        BY <1>1, <1>8, <1>19, Zenon DEF EndOf, Aligned, Addr
    <2> QED
        BY <1>8, <1>20, <2>1, <2>2, <2>3, <2>4, Zenon DEF RecordsInv
<1> QED
    BY <1>0, <1>2, <1>6, <1>8, <1>11, <1>21, Zenon DEF NewRecord

\* The items on their way and the next LSN, in steps that leave the file alone.
LEMMA FlightStep ==
    ASSUME LsnType, FlowInv, ItemInv, KindInv, RecordsInv, FlightInv, NextInv, AllFit', mode # "down",
           from \in Items \cup {0}, UNCHANGED <<from, mode>>, [Next]_vars, UNCHANGED <<file, walSize>>
    PROVE  FlightInv' /\ NextInv'
<1>1. /\ Items \subseteq Items' /\ \A i \in Items : lsns'[i] = lsns[i]
      /\ \A n \in 1..Len(file) : (AlignedTo(n)' <=> AlignedTo(n)) /\ (OrderedTo(n)' <=> OrderedTo(n))
    BY ItemsKept, SameFile, Zenon
<1>2. Len(file) \in 1..Len(file) /\ \A k \in 1..Len(file) : file[k].id \in Items
    BY FileFacts
<1>3. /\ AlignedTo(Len(file))' <=> AlignedTo(Len(file))
      /\ OrderedTo(Len(file))' <=> OrderedTo(Len(file))
    <2>1. Len(file') = Len(file)
        OBVIOUS
    <2> QED
        BY <1>1, <1>2, <2>1, Zenon DEF AlignedTo, OrderedTo
\* Steps that assign no LSN.
<1>4. ASSUME UNCHANGED <<lsns, maxPage, maxOffset>>, \A i \in Items : InFlight(i)' => InFlight(i)
      PROVE  FlightInv' /\ NextInv'
    <2>1. NextAddr' = NextAddr /\ Items' = Items
        BY <1>4 DEF NextAddr, Items
    <2>2. LsnsBehind => LsnsBehind'
        BY <1>4, <2>1, Zenon DEF LsnsBehind, Addr
    <2>3. NextInv'
        BY <1>3, <1>4, <2>2, Zenon DEF NextInv
    <2>4. FlightInv'
        BY <1>3, <1>4, <2>1, Zenon DEF FlightInv, Addr
    <2> QED
        BY <2>3, <2>4
\* Steps that assign one.
<1>5. ASSUME NEW kind, NEW size \in Sizes \cup {CHK}, NEW redo, NEW upto,
             assignLSN(kind, size, redo, upto), \A i \in Items : InFlight(i)' => InFlight(i)
      PROVE  FlightInv' /\ NextInv'
    <2>1. PICK n : n = Len(lsns) + 1
        OBVIOUS
    <2>2. maxOffset < PAGE
        BY DEF NextInv
    <2>3. /\ n \in Nat /\ Items' = Items \cup {n} /\ \A i \in Items : i < n
          /\ lsns'[n].size = size /\ lsns'[n].off = maxOffset /\ Addr(lsns'[n]) = NextAddr
          /\ NextAddr \in Nat /\ NextAddr' \in Nat /\ NextAddr + size <= NextAddr'
          /\ maxOffset < PAGE /\ size <= PAGE - HDR => maxOffset' < PAGE
          /\ HDR <= maxOffset => HDR <= maxOffset'
        BY <1>5, <2>1, Assigned, Zenon
    <2>4. size \in Nat
        BY Layout
    <2>5. \A i \in Items : /\ Addr(lsns'[i]) = Addr(lsns[i]) /\ lsns'[i].size = lsns[i].size
                           /\ Addr(lsns[i]) \in Nat /\ lsns[i].size \in Nat
        BY <1>1, ItemFacts, Zenon DEF Addr
    <2>6. ASSUME NEW i \in Items, Addr(lsns[i]) + lsns[i].size <= NextAddr
          PROVE  Addr(lsns'[i]) + lsns'[i].size <= NextAddr'
        <3>1. PICK a \in Nat, s \in Nat : a = Addr(lsns[i]) /\ s = lsns[i].size
            BY <2>5
        <3> QED
            BY <2>3, <2>4, <2>5, <2>6, <3>1
    <2>7. LsnsBehind => LsnsBehind'
        BY <1>2, <2>6, Zenon DEF LsnsBehind, Addr
    <2>8. NextInv'
        <3>1. size <= PAGE - HDR
            BY <2>3, FitFacts, Zenon
        <3> QED
            BY <1>3, <2>2, <2>3, <2>7, <3>1, Zenon DEF NextInv
    <2>9. from < n
        BY <2>3, <2>1 DEF LsnType
    <2>10. ASSUME NEW i \in Items', InFlight(i)'
           PROVE  /\ from' < i /\ mode' # "down"
                  /\ Addr(lsns'[i]) + lsns'[i].size <= NextAddr'
                  /\ AlignedTo(Len(file))' => HDR <= lsns'[i].off
        <3>1. CASE i \in Items
            <4>1. InFlight(i)
                BY <1>5, <2>10, <3>1, Zenon DEF InFlight
            <4> QED
                BY <1>1, <1>3, <2>6, <3>1, <4>1, Zenon DEF FlightInv
        <3>2. CASE i = n
            BY <1>3, <2>3, <2>9, <3>2, Zenon DEF NextInv
        <3> QED
            BY <2>3, <3>1, <3>2, Zenon
    <2>11. FlightInv'
        BY <2>10, Zenon DEF FlightInv, Addr
    <2> QED
        BY <2>8, <2>11
<1>6. ASSUME NEW c \in Clients, AddLog(c) PROVE FlightInv' /\ NextInv'
    <2>1. PICK size \in Sizes : assignLSN("log", size, 0, 0)
        BY <1>6, Zenon DEF AddLog
    <2>2. ASSUME NEW i \in Items, InFlight(i)' PROVE InFlight(i)
        <3>1. i # Len(lsns) + 1
            BY DEF Items, LsnType
        <3>2. client \in [Clients -> Items \cup {0}] /\ client' = [client EXCEPT ![c] = Len(lsns) + 1]
            BY <1>6, Zenon DEF AddLog, FlowInv
        <3>3. \A d \in Clients : client'[d] = i => client[d] = i
            BY <3>1, <3>2
        <3>4. UNCHANGED <<buffer, taken, cp>>
            BY <1>6, Zenon DEF AddLog
        <3> QED
            BY <2>2, <3>3, <3>4, Zenon DEF InFlight
    <2> QED
        BY <1>5, <2>1, <2>2
<1>7. ASSUME NEW j \in Items, AddCheckpoint(j) PROVE FlightInv' /\ NextInv'
    <2>1. /\ assignLSN("checkpoint", CHK, RedoPoint(j), j) /\ UNCHANGED <<client, buffer, taken>>
          /\ cp' = [pc |-> "assigned", id |-> Len(lsns) + 1]
        BY <1>7, Zenon DEF AddCheckpoint
    <2>2. ASSUME NEW i \in Items, InFlight(i)' PROVE InFlight(i)
        <3>1. cp'.id # i
            BY <2>1 DEF Items, LsnType
        <3> QED
            BY <2>1, <2>2, <3>1, Zenon DEF InFlight
    <2> QED
        BY <1>5, <2>1, <2>2
<1>8. ASSUME NEW j \in Items, InFlight(j), buffer' = Append(buffer, j), UNCHANGED taken,
             \A i \in Items : \A c \in Clients : client'[c] = i => client[c] = i,
             \A i \in Items : cp'.pc = "assigned" /\ cp'.id = i => cp.pc = "assigned" /\ cp.id = i
      PROVE  \A i \in Items : InFlight(i)' => InFlight(i)
    <2> SUFFICES ASSUME NEW i \in Items, InFlight(i)' PROVE InFlight(i)
        BY Zenon DEF InFlight
    <2>1. \A k \in 1..Len(buffer') : (k \in 1..Len(buffer) /\ buffer'[k] = buffer[k]) \/ buffer'[k] = j
        BY <1>8 DEF FlowInv
    <2> QED
        BY <1>8, <2>1, Zenon DEF InFlight
<1>9. ASSUME NEW c \in Clients, Add(c) PROVE FlightInv' /\ NextInv'
    <2>1. /\ client[c] \in Items /\ buffer' = Append(buffer, client[c])
          /\ client' = [client EXCEPT ![c] = 0] /\ UNCHANGED <<lsns, maxPage, maxOffset, taken, cp>>
        BY <1>9 DEF Add, FlowInv
    <2>2. \A i \in Items : \A d \in Clients : client'[d] = i => client[d] = i
        <3>1. \A i \in Items : i # 0
            BY DEF Items
        <3> QED
            BY <2>1, <3>1 DEF FlowInv
    <2>3. InFlight(client[c])
        BY Zenon DEF InFlight
    <2>4. \A i \in Items : InFlight(i)' => InFlight(i)
        BY <1>8, <2>1, <2>2, <2>3, Zenon
    <2> QED
        BY <1>4, <2>1, <2>4
<1>10. CASE AddCheckpointRecord
    <2>1. /\ cp.pc = "assigned" /\ cp.id \in Items /\ buffer' = Append(buffer, cp.id)
          /\ UNCHANGED <<lsns, maxPage, maxOffset, client, taken>> /\ cp'.pc = "added"
        BY <1>10 DEF AddCheckpointRecord, FlowInv
    <2>2. InFlight(cp.id)
        BY <2>1, Zenon DEF InFlight
    <2>3. \A i \in Items : InFlight(i)' => InFlight(i)
        BY <1>8, <2>1, <2>2
    <2> QED
        BY <1>4, <2>1, <2>3
<1>11. CASE truncateConfig \/ saveCheckpoint
    <2>1. UNCHANGED <<lsns, maxPage, maxOffset, client, buffer, taken>> /\ cp'.pc # "assigned"
        BY <1>11 DEF truncateConfig, saveCheckpoint, FlowInv
    <2>2. \A i \in Items : InFlight(i)' => InFlight(i)
        BY <2>1, Zenon DEF InFlight
    <2> QED
        BY <1>4, <2>1, <2>2
<1>12. CASE flushWal
    <2>1. /\ UNCHANGED <<lsns, maxPage, maxOffset, client, cp>> /\ taken' = buffer /\ buffer' = <<>>
          /\ \A k : k \notin 1..Len(buffer')
        BY <1>12 DEF flushWal
    <2>2. \A i \in Items : InFlight(i)' => InFlight(i)
        BY <2>1, Zenon DEF InFlight
    <2> QED
        BY <1>4, <2>1, <2>2
<1>13. CASE UNCHANGED vars
    <2>1. UNCHANGED <<lsns, maxPage, maxOffset, client, buffer, taken, cp>>
        BY <1>13 DEF vars
    <2>2. \A i \in Items : InFlight(i)' => InFlight(i)
        BY <2>1, Zenon DEF InFlight
    <2> QED
        BY <1>4, <2>1, <2>2
<1>14. CASE writeWal
    <2>1. file' = Append(file, checkLogOverflow(Head(taken), walSize))
        BY <1>14 DEF writeWal
    <2>2. file' # file
        BY <2>1, FileFacts
    <2> QED
        BY <2>2
<1> QED
    BY <1>6, <1>7, <1>9, <1>10, <1>11, <1>12, <1>13, <1>14, Zenon DEF Next, Checkpoint

\* ... and in writeWal.
LEMMA FlightWritten ==
    ASSUME LsnType, FlowInv, ItemInv, KindInv, RecordsInv, FlightInv, NextInv, mode # "down",
           UNCHANGED <<from, mode>>, writeWal
    PROVE  FlightInv' /\ NextInv'
<1>1. /\ Len(file') = Len(file) + 1 /\ file'[Len(file) + 1].id = Head(taken)
      /\ \A k \in 1..Len(file) : file'[k] = file[k]
      /\ AlignedTo(Len(file))' => AlignedTo(Len(file))
      /\ OrderedTo(Len(file))' => OrderedTo(Len(file))
    BY RecordsWritten, Zenon
<1>2. /\ taken # <<>> /\ taken' = Tail(taken)
      /\ UNCHANGED <<maxPage, maxOffset, lsns, client, buffer, cp>>
    BY Zenon DEF writeWal
<1>3. NextAddr' = NextAddr /\ Items' = Items
    BY <1>2 DEF NextAddr, Items
<1>4. \A k \in 1..Len(taken') : k + 1 \in 1..Len(taken) /\ taken'[k] = taken[k + 1]
    BY <1>2 DEF FlowInv
<1>5. \A i \in Items : InFlight(i)' => InFlight(i)
    BY <1>2, <1>4, Zenon DEF InFlight
<1>6. FlightInv'
    BY <1>1, <1>2, <1>3, <1>5, Zenon DEF FlightInv, Addr
<1>7. Head(taken) \in Items /\ InFlight(Head(taken))
    <2>1. Head(taken) \in Items /\ 1 \in 1..Len(taken) /\ taken[1] = Head(taken)
        BY <1>2 DEF FlowInv
    <2> QED
        BY <2>1, Zenon DEF InFlight
<1>8. LsnsBehind => LsnsBehind'
    <2> SUFFICES ASSUME LsnsBehind, NEW k \in 1..Len(file')
                 PROVE  Addr(lsns[file'[k].id]) + lsns[file'[k].id].size <= NextAddr
        BY <1>2, <1>3, Zenon DEF LsnsBehind, Addr
    <2>1. k \in 1..Len(file) \/ k = Len(file) + 1
        BY <1>1, FileFacts
    <2> QED
        BY <1>1, <1>7, <2>1, Zenon DEF LsnsBehind, FlightInv
<1>9. NextInv'
    BY <1>1, <1>2, <1>8, Zenon DEF NextInv
<1> QED
    BY <1>6, <1>9

\* What a crash leaves of the file.
LEMMA FileCut ==
    ASSUME LsnType, ItemInv, RecordsInv, NEW n \in 1..Len(file), file' = SubSeq(file, 1, n),
           walSize' = EndOf(file[n]), lsns' = lsns
    PROVE  RecordsInv'
<1>0. PICK m \in Nat \ {0} : m = n /\ m <= Len(file)
    BY FileFacts
<1>1. /\ file' \in Seq(Record) /\ Len(file') = m /\ Len(file) \in Nat
      /\ \A k \in 1..m : k \in 1..Len(file) /\ file'[k] = file[k]
    BY <1>0, FileFacts
<1>2. Items' = Items
    BY DEF Items
<1>3. m \in 1..m /\ 1 \in 1..m /\ Len(file') > 0
    BY <1>0, <1>1
<1>4. ASSUME NEW j \in 1..m
      PROVE  (AlignedTo(j)' <=> AlignedTo(j)) /\ (OrderedTo(j)' <=> OrderedTo(j))
    <2>1. \A k \in 1..j : k \in 1..m
        BY <1>0
    <2>2. \A k \in 1..(j - 1) : k \in 1..m /\ k + 1 \in 1..m
        BY <1>0
    <2>3. AlignedTo(j)' <=> AlignedTo(j)
        BY <1>1, <2>1, Zenon DEF AlignedTo, Aligned, Addr
    <2>4. ASSUME NEW k \in 1..m
          PROVE  /\ Addr(lsns[file[k].id])' = Addr(lsns[file[k].id])
                 /\ LsnEnd(lsns[file[k].id])' = LsnEnd(lsns[file[k].id])
                 /\ ExactFit(file[k])' <=> ExactFit(file[k])
        <3>1. file'[k] = file[k]
            BY <1>1, Zenon
        <3> QED
            BY <3>1, Zenon DEF Addr, LsnEnd, ExactFit
    <2>5. OrderedTo(j)' <=> OrderedTo(j)
        BY <2>2, <2>4, Zenon DEF OrderedTo
    <2> QED
        BY <2>3, <2>5
<1>5. \A j \in 1..m : j > 1 => j - 1 \in 1..m
    BY <1>0
<1>6. (walSize = EndOf(file[Len(file)]))'
    BY <1>0, <1>1, <1>3, Zenon DEF EndOf
<1>7. (\A k \in 1..Len(file) : file[k].id \in Items /\ CutInv(file[k]))'
    BY <1>1, <1>2, Zenon DEF RecordsInv, CutInv
<1>8. (\A j, k \in 1..Len(file) : j < k => EndOf(file[j]) <= file[k].start)'
    BY <1>1, Zenon DEF RecordsInv, EndOf
<1>9. (\A j \in 1..Len(file) :
             /\ OrderedTo(j) => Aligned(file[j])
             /\ AlignedTo(j) => /\ HDR <= lsns[file[j].id].off
                                /\ j > 1 => file[j].start = EndOf(file[j - 1]))'
    <2> SUFFICES ASSUME NEW j \in 1..m
                 PROVE  (/\ OrderedTo(j) => Aligned(file[j])
                         /\ AlignedTo(j) => /\ HDR <= lsns[file[j].id].off
                                            /\ j > 1 => file[j].start = EndOf(file[j - 1]))'
        BY <1>1, Zenon
    <2>1. /\ OrderedTo(j)' => Aligned(file[j])
          /\ AlignedTo(j)' => /\ HDR <= lsns[file[j].id].off
                              /\ j > 1 => file[j].start = EndOf(file[j - 1])
        BY <1>1, <1>4, Zenon DEF RecordsInv
    <2>2. Aligned(file[j])' <=> Aligned(file[j])
        BY <1>1, Zenon DEF Aligned, Addr
    <2>3. j > 1 => EndOf(file[j - 1])' = EndOf(file[j - 1])
        BY <1>1, <1>5, Zenon DEF EndOf
    <2> QED
        BY <1>1, <2>1, <2>2, <2>3, Zenon
<1>10. file'[1].start = HDR
    BY <1>1, <1>3, Zenon DEF RecordsInv
<1> QED
    BY <1>1, <1>3, <1>6, <1>7, <1>8, <1>9, <1>10, Zenon DEF RecordsInv

\* A crash keeps what is known of the log.
LEMMA CrashLog == ASSUME LogInv, Crash PROVE LogInv'
<1>1. /\ mode' = "down" /\ client' = [c \in Clients |-> 0] /\ buffer' = <<>> /\ taken' = <<>>
      /\ cp' = [pc |-> "idle", id |-> 0]
      /\ UNCHANGED <<maxPage, maxOffset, lsns, conf, from>>
    BY Zenon DEF Crash
<1>2. Items' = Items
    BY <1>1 DEF Items
<1>3. LsnType' /\ ItemInv' /\ KindInv'
    BY <1>1, <1>2, Zenon DEF LogInv, LsnType, ItemInv, KindInv, Addr
<1>4. FlowInv'
    BY <1>1, <1>2 DEF FlowInv
<1>5. \A i \in Items : i # 0 /\ ~InFlight(i)'
    <2>1. \A i \in Items : i # 0
        BY DEF Items
    <2>2. /\ \A c \in Clients : client'[c] = 0
          /\ \A k : k \notin 1..Len(buffer') /\ k \notin 1..Len(taken')
        BY <1>1
    <2> QED
        BY <1>1, <2>1, <2>2 DEF InFlight
<1>6. FlightInv'
    BY <1>2, <1>5, Zenon DEF FlightInv
<1>7. NextInv'
    BY <1>1, Zenon DEF LogInv, NextInv
<1>8. NamedInv'
    <2>1. cp'.id = 0
        BY <1>1
    <2>2. \A i : IsCheckpoint(i)' <=> IsCheckpoint(i)
        BY <1>1, <1>2, Zenon DEF IsCheckpoint
    <2>3. ASSUME NEW i \in {conf', cp'.id, from'} PROVE i = 0 \/ IsCheckpoint(i)
        BY <1>1, <2>1, <2>3, Zenon DEF LogInv, NamedInv
    <2> QED
        BY <1>1, <1>2, <2>3, Zenon DEF NamedInv, IsCheckpoint
<1>9. RecordsInv'
    BY <1>1, FileCut, Zenon DEF LogInv, Crash
<1> QED
    BY <1>3, <1>4, <1>6, <1>7, <1>8, <1>9, Zenon DEF LogInv

\* Records in the file that lie at their LSNs end before its end.
LEMMA AlignedBehind ==
    ASSUME LsnType, ItemInv, RecordsInv, NEW k \in 1..Len(file)
    PROVE  /\ EndOf(file[k]) \in Nat /\ walSize \in Nat /\ EndOf(file[k]) <= walSize
           /\ Aligned(file[k]) => Addr(lsns[file[k].id]) + lsns[file[k].id].size <= walSize
<1>1. PICK n \in Nat \ {0} : n = Len(file)
    BY FileFacts
<1>2. n \in 1..n /\ file[n] \in Record /\ file[n].id \in Items /\ file[k] \in Record /\ file[k].id \in Items
    BY <1>1, FileFacts
<1>3. walSize = EndOf(file[n])
    BY <1>1, FileFacts
<1>4. /\ EndOf(file[n]) \in Nat /\ file[n].start \in Nat /\ lsns[file[n].id].size \in Nat
      /\ file[n].start + lsns[file[n].id].size <= EndOf(file[n])
    BY <1>2, EndType, ItemFacts
<1>5. /\ EndOf(file[k]) \in Nat /\ file[k].start \in Nat /\ lsns[file[k].id].size \in Nat
      /\ file[k].start + lsns[file[k].id].size <= EndOf(file[k])
    BY <1>2, EndType, ItemFacts
<1>6. k < n => EndOf(file[k]) <= file[n].start
    BY <1>1, <1>2, Zenon DEF RecordsInv
<1>7. k = n \/ k < n
    BY <1>1
<1>8. EndOf(file[k]) <= walSize
    BY <1>3, <1>4, <1>5, <1>6, <1>7, SMTT(60)
<1>9. Aligned(file[k]) => Addr(lsns[file[k].id]) = file[k].start
    BY DEF Aligned
<1> QED
    BY <1>3, <1>4, <1>5, <1>8, <1>9, SMTT(60)

\* What was added in LSN order lies at its LSN.
LEMMA OrderedAligned ==
    ASSUME RecordsInv, NEW n \in 1..Len(file), OrderedTo(n) PROVE AlignedTo(n)
<1> SUFFICES ASSUME NEW k \in 1..n PROVE Aligned(file[k])
    BY Zenon DEF AlignedTo
<1>1. k \in 1..Len(file) /\ \A j \in 1..(k - 1) : j \in 1..(n - 1)
    BY FileFacts
<1>2. OrderedTo(k)
    BY <1>1, Zenon DEF OrderedTo
<1> QED
    BY <1>1, <1>2, Zenon DEF RecordsInv

\* loadMaxLSN: the size of the file continues the LSNs in it.
LEMMA RestartLog == ASSUME LogInv, Restart PROVE LogInv'
<1>0. LsnType /\ FlowInv /\ ItemInv /\ KindInv /\ NamedInv /\ RecordsInv /\ FlightInv
    BY Zenon DEF LogInv
<1>1. /\ mode = "down" /\ maxPage' = walSize \div PAGE /\ maxOffset' = walSize % PAGE
      /\ from' = conf /\ UNCHANGED <<lsns, client, buffer, taken, file, walSize, conf, cp>>
    BY Zenon DEF Restart
<1>2. Items' = Items
    BY <1>1 DEF Items
<1>3. PICK n \in 1..Len(file) : n = Len(file)
    BY <1>0, FileFacts
<1>4. file[n] \in Record /\ file[n].id \in Items /\ CutInv(file[n]) /\ walSize = EndOf(file[n])
    BY <1>0, <1>3, FileFacts
<1>5. walSize \in Nat
    BY <1>0, <1>3, AlignedBehind
<1>6. /\ maxPage' \in Nat /\ maxOffset' \in Nat /\ maxOffset' < PAGE
      /\ walSize = maxPage' * PAGE + maxOffset'
    BY <1>1, <1>5, PageOfAddr, Zenon
<1>7. NextAddr' = walSize
    BY <1>6 DEF NextAddr
<1>8. LsnType' /\ ItemInv' /\ KindInv' /\ FlowInv'
    <2>1. LsnType'
        BY <1>0, <1>1, <1>6 DEF LsnType
    <2>2. ItemInv' /\ KindInv'
        BY <1>0, <1>1, <1>2, Zenon DEF ItemInv, KindInv, Addr
    <2>3. FlowInv'
        BY <1>0, <1>1, <1>2, Zenon DEF FlowInv
    <2> QED
        BY <2>1, <2>2, <2>3
<1>9. RecordsInv'
    BY <1>0, <1>1, <1>2, SameFile, Zenon
<1>10. FlightInv'
    <2>1. \A i \in Items : ~InFlight(i)
        BY <1>0, <1>1, Zenon DEF FlightInv
    <2> QED
        BY <1>1, <1>2, <2>1, Zenon DEF FlightInv, InFlight
<1>11. AlignedTo(Len(file)) => HDR <= maxOffset'
    <2> SUFFICES ASSUME AlignedTo(n) PROVE HDR <= maxOffset'
        BY <1>3
    <2>1. Aligned(file[n]) /\ HDR <= lsns[file[n].id].off
        <3>1. n \in 1..n
            BY <1>0, <1>3, FileFacts
        <3> QED
            BY <1>0, <1>3, <3>1, Zenon DEF AlignedTo, RecordsInv
    <2>2. lsns[file[n].id].off < PAGE /\ lsns[file[n].id].size <= PAGE - HDR
        BY <1>0, <1>4 DEF KindInv
    <2>3. PICK p \in Nat, y \in Nat : walSize = p * PAGE + y /\ HDR <= y /\ y < PAGE
        BY <1>0, <1>4, <2>1, <2>2, EndInPage, Zenon
    <2>4. walSize % PAGE = y
        BY <2>3, PageRange, 0 \in Nat, Zenon
    <2> QED
        BY <1>1, <2>3, <2>4
<1>12. OrderedTo(Len(file)) => LsnsBehind'
    <2> SUFFICES ASSUME OrderedTo(Len(file)), NEW k \in 1..Len(file)
                 PROVE  Addr(lsns[file[k].id]) + lsns[file[k].id].size <= walSize
        BY <1>1, <1>7, Zenon DEF LsnsBehind, Addr
    <2>1. AlignedTo(Len(file))
        BY <1>0, <1>3, OrderedAligned, Zenon
    <2> QED
        BY <1>0, <2>1, AlignedBehind, Zenon DEF AlignedTo
<1>13. NextInv'
    <2>1. /\ AlignedTo(Len(file))' <=> AlignedTo(Len(file))
          /\ OrderedTo(Len(file))' <=> OrderedTo(Len(file))
        BY <1>1, Zenon DEF AlignedTo, OrderedTo, Aligned, Addr, LsnEnd, ExactFit
    <2> QED
        BY <1>6, <1>11, <1>12, <2>1, Zenon DEF NextInv
<1>14. NamedInv'
    <2>1. ASSUME NEW i \in {conf', cp'.id, from'} PROVE i = 0 \/ IsCheckpoint(i)
        <3>1. i = conf \/ i = cp.id
            BY <1>1, <2>1
        <3> QED
            BY <1>0, <3>1, Zenon DEF NamedInv
    <2> QED
        BY <1>1, <1>2, <2>1, Zenon DEF NamedInv, IsCheckpoint
<1> QED
    BY <1>8, <1>9, <1>10, <1>13, <1>14, Zenon DEF LogInv

\* Every step keeps LogInv, as long as the items fit a page.
LEMMA LogStep == LogInv /\ AllFit' /\ [RecNext]_recAll => LogInv'
<1> SUFFICES ASSUME LogInv, AllFit', [RecNext]_recAll PROVE LogInv'
    OBVIOUS
<1>0. LsnType /\ FlowInv /\ ItemInv /\ KindInv /\ NamedInv /\ RecordsInv /\ FlightInv /\ NextInv
    BY Zenon DEF LogInv
<1>1. CASE mode = "up" /\ Next /\ UNCHANGED recVars
    <2>1. [Next]_vars /\ UNCHANGED <<from, mode>> /\ mode # "down" /\ maxOffset < PAGE
        BY <1>0, <1>1 DEF recVars, NextInv
    <2>2. FlowInv' /\ ItemInv' /\ KindInv' /\ NamedInv'
        BY <1>0, <2>1, FlowStep, ItemStep, KindStep, NamedStep, Zenon
    <2>3. LsnType'
        <3>1. ASSUME NEW kind \in {"log", "checkpoint"}, NEW size \in Sizes \cup {CHK},
                     NEW redo \in Nat, NEW upto \in Nat, assignLSN(kind, size, redo, upto)
              PROVE  LsnType'
            <4>1. size \in Nat
                BY Layout
            <4>2. /\ lsns \in Seq(Item)
                  /\ lsns' = Append(lsns, [kind |-> kind, page |-> maxPage, off |-> maxOffset,
                                           size |-> size, redo |-> redo, upto |-> upto])
                BY <1>0, <3>1, Zenon DEF LsnType, assignLSN
            <4>3. [kind |-> kind, page |-> maxPage, off |-> maxOffset,
                   size |-> size, redo |-> redo, upto |-> upto] \in Item
                BY <1>0, <4>1 DEF LsnType, Item
            <4>4. lsns' \in Seq(Item)
                BY <4>2, <4>3
            <4>5. maxPage' \in Nat /\ maxOffset' \in Nat
                BY <1>0, <2>1, <3>1, AdvanceStep, Zenon DEF assignLSN
            <4> QED
                BY <4>4, <4>5 DEF LsnType
        <3>2. ASSUME NEW c \in Clients, AddLog(c) PROVE LsnType'
            BY <3>1, <3>2 DEF AddLog
        <3>3. ASSUME NEW i \in Items, AddCheckpoint(i) PROVE LsnType'
            <4>1. RedoPoint(i) \in Nat /\ i \in Nat
                BY <1>0, AddrType DEF RedoPoint, Items
            <4> QED
                BY <3>1, <3>3, <4>1 DEF AddCheckpoint
        <3>4. ASSUME UNCHANGED <<maxPage, maxOffset, lsns>> PROVE LsnType'
            BY <1>0, <3>4 DEF LsnType
        <3>5. ASSUME NEW c \in Clients, Add(c) PROVE LsnType'
            BY <3>4, <3>5 DEF Add
        <3>6. CASE AddCheckpointRecord \/ truncateConfig \/ saveCheckpoint \/ flushWal \/ writeWal
            BY <3>4, <3>6 DEF AddCheckpointRecord, truncateConfig, saveCheckpoint, flushWal, writeWal
        <3> QED
            BY <1>1, <3>2, <3>3, <3>5, <3>6, Zenon DEF Next, Checkpoint
    <2>4. CASE writeWal
        <3>1. RecordsInv' /\ FlightInv' /\ NextInv'
            BY <1>0, <2>1, <2>4, RecordsWritten, FlightWritten, Zenon
        <3> QED
            BY <2>2, <2>3, <3>1, Zenon DEF LogInv
    <2>5. CASE UNCHANGED <<file, walSize>>
        <3>1. from \in Items \cup {0}
            BY <1>0, Zenon DEF NamedInv, IsCheckpoint
        <3>2. RecordsInv' /\ FlightInv' /\ NextInv'
            BY <1>0, <2>1, <2>5, <3>1, ItemsKept, SameFile, FlightStep, Zenon
        <3> QED
            BY <2>2, <2>3, <3>2, Zenon DEF LogInv
    <2>6. writeWal \/ UNCHANGED <<file, walSize>>
        BY <1>1 DEF Next, Checkpoint, AddLog, Add, AddCheckpoint, AddCheckpointRecord,
                    truncateConfig, saveCheckpoint, flushWal
    <2> QED
        BY <2>4, <2>5, <2>6
<1>2. CASE Crash
    BY <1>2, CrashLog
<1>3. CASE Restart
    BY <1>3, RestartLog
<1>4. ASSUME UNCHANGED <<vars, from>>, mode' = mode \/ (mode = "walk" /\ mode' # "down")
      PROVE  LogInv'
    <2>1. /\ UNCHANGED <<maxPage, maxOffset, lsns, client, buffer, taken>>
          /\ UNCHANGED <<file, walSize, conf, cp, from>>
        BY <1>4, Zenon DEF vars
    <2>2. Items' = Items /\ NextAddr' = NextAddr /\ (mode' = "down" <=> mode = "down")
        BY <1>4, <2>1 DEF Items, NextAddr
    <2>3. LsnType' /\ FlowInv' /\ ItemInv' /\ KindInv'
        BY <1>0, <2>1, <2>2, Zenon DEF LsnType, FlowInv, ItemInv, KindInv, Addr
    <2>4. NamedInv'
        BY <1>0, <2>1, <2>2, Zenon DEF NamedInv, IsCheckpoint
    <2>5. RecordsInv'
        BY <1>0, <2>1, <2>2, SameFile, Zenon
    <2>6. /\ AlignedTo(Len(file))' <=> AlignedTo(Len(file))
          /\ OrderedTo(Len(file))' <=> OrderedTo(Len(file))
        BY <2>1, Zenon DEF AlignedTo, OrderedTo, Aligned, Addr, LsnEnd, ExactFit
    <2>7. FlightInv'
        BY <1>0, <2>1, <2>2, <2>6, Zenon DEF FlightInv, InFlight, Addr
    <2>8. LsnsBehind' <=> LsnsBehind
        BY <2>1, <2>2, Zenon DEF LsnsBehind, Addr
    <2>9. NextInv'
        BY <1>0, <2>1, <2>2, <2>6, <2>8, Zenon DEF NextInv
    <2> QED
        BY <2>3, <2>4, <2>5, <2>7, <2>9, Zenon DEF LogInv
<1>5. CASE WalkEnd \/ WalkGarbage \/ WalkCheckpoint \/ WalkLog \/ reapplyFails \/ UNCHANGED recAll
    <2>1. UNCHANGED <<vars, from>>
        BY <1>5 DEF WalkEnd, WalkGarbage, WalkCheckpoint, WalkLog, reapplyFails, recAll, recVars
    <2>2. mode' = mode \/ (mode = "walk" /\ mode' # "down")
        BY <1>5 DEF WalkEnd, WalkGarbage, WalkCheckpoint, WalkLog, reapplyFails, recAll, recVars
    <2> QED
        BY <1>4, <2>1, <2>2
<1> QED
    BY <1>1, <1>2, <1>3, <1>5, Zenon DEF RecNext

\* NewWalWriter on an empty file.
LEMMA LogInit == RecInit => LogInv
<1> SUFFICES ASSUME RecInit PROVE LogInv
    OBVIOUS
<1>1. /\ lsns = <<FirstCheckpoint>> /\ Len(lsns) = 1 /\ lsns[1] = FirstCheckpoint /\ Items = {1}
      /\ maxPage = 0 /\ maxOffset = HDR + CHK /\ walSize = HDR + CHK /\ conf = 1 /\ from = 1
      /\ client = [c \in Clients |-> 0] /\ buffer = <<>> /\ taken = <<>>
      /\ cp = [pc |-> "idle", id |-> 0]
    BY DEF RecInit, Init, Items
<1>2. /\ FirstCheckpoint.page = 0 /\ FirstCheckpoint.off = HDR /\ FirstCheckpoint.size = CHK
      /\ FirstCheckpoint.upto = 0 /\ FirstCheckpoint.kind = "checkpoint" /\ FirstCheckpoint.redo = HDR
      /\ FirstCheckpoint \in Item
    BY Layout DEF FirstCheckpoint, Item
<1>3. LsnType /\ ItemInv /\ KindInv
    <2>1. LsnType
        BY <1>1, <1>2, Layout DEF LsnType
    <2>2. ItemInv
        BY <1>1, <1>2, Layout, SMTT(60) DEF ItemInv
    <2>3. KindInv
        BY <1>1, <1>2, Layout DEF KindInv
    <2> QED
        BY <2>1, <2>2, <2>3
<1>4. FlowInv
    BY <1>1 DEF FlowInv
<1>5. NamedInv
    BY <1>1, <1>2 DEF NamedInv, IsCheckpoint
<1>6. /\ file = <<[id |-> 1, start |-> HDR, cut |-> 0]>>
      /\ file \in Seq(Record) /\ Len(file) = 1 /\ file[1] = [id |-> 1, start |-> HDR, cut |-> 0]
    BY Layout DEF RecInit, Init, Record
<1>7. Addr(lsns[1]) = HDR /\ NextAddr = HDR + CHK
    BY <1>1, <1>2, Layout DEF Addr, NextAddr
<1>8. \A k \in 1..Len(file) : k = 1
    BY <1>6
<1>9. file[1].id = 1 /\ file[1].start = HDR /\ file[1].cut = 0
    BY <1>6
<1>10. EndOf(file[1]) = HDR + CHK /\ Aligned(file[1]) /\ CutInv(file[1])
    BY <1>1, <1>2, <1>7, <1>9, Layout, SMTT(60) DEF EndOf, Aligned, CutInv
<1>11. RecordsInv
    <2>1. Len(file) > 0 /\ ~(1 < 1) /\ ~(1 > 1) /\ HDR <= HDR
        BY <1>6, Layout
    <2>2. file[1].id \in Items /\ walSize = EndOf(file[Len(file)]) /\ HDR <= lsns[file[1].id].off
        BY <1>1, <1>2, <1>6, <1>9, <1>10, <2>1
    <2> QED
        BY <1>6, <1>8, <1>9, <1>10, <2>1, <2>2, Zenon DEF RecordsInv
<1>12. FlightInv
    <2>1. ~InFlight(1)
        BY <1>1 DEF InFlight
    <2> QED
        BY <1>1, <2>1, Zenon DEF FlightInv
<1>13. NextInv
    <2>1. LsnsBehind
        BY <1>1, <1>2, <1>7, <1>8, <1>9, Layout, SMTT(60) DEF LsnsBehind
    <2>2. HDR <= maxOffset /\ maxOffset < PAGE
        BY <1>1, Layout
    <2> QED
        BY <2>1, <2>2, Zenon DEF NextInv
<1> QED
    BY <1>3, <1>4, <1>5, <1>11, <1>12, <1>13, Zenon DEF LogInv

\* What is known of the log holds in every state.
LEMMA LogInvariant == RecSpec /\ []AllFit => []LogInv
<1>1. recAll = <<vars, recVars>>
    BY DEF recAll
<1> QED
    BY <1>1, LogInit, LogStep, PTL DEF RecSpec, recAll

\* loadMaxLSN: whatever was lost in crashes, the LSNs assigned after a restart continue
\* those in the file, as long as the records were added in LSN order and none but the
\* last ended exactly at the end of its page; for logs that fit a page.
THEOREM RestartContinues == RecSpec /\ []AllFit => []LsnsContinue
<1>1. LogInv => LsnsContinue
    <2> SUFFICES ASSUME LogInv, mode # "down", InLsnOrder, NoExactFit PROVE LsnsBehind
        BY DEF LsnsContinue
    <2>1. OrderedTo(Len(file))
        BY Zenon DEF OrderedTo, InLsnOrder, NoExactFit
    <2> QED
        BY <2>1, Zenon DEF LogInv, NextInv
<1> QED
    BY LogInvariant, <1>1, PTL

-----------------------------------------------------------------------------
(* The walk.                                                               *)

\* The part of Walkable that is about the file alone.
Clean == \A k \in 1..Len(file) :
            /\ Aligned(file[k])
            /\ file[k].cut > 0 => lsns[file[k].id].kind = "log" /\ file[k].start < PAGE

\* Where the record behind record k begins.
Pos(k) == IF k < Len(file) THEN file[k + 1].start ELSE walSize

\* The walk is behind record k and has replayed what it had to up to there.
WalkedTo(k) ==
    /\ currOff = Pos(k)
    /\ \A j \in Position(lsns[from].upto) : j <= k
    /\ expected = LogsAfter(from)
    /\ replayed \in Seq(Nat) /\ Len(replayed) = Cardinality(After(from) \cap (1..k))
    /\ \A j \in 1..Len(replayed) : replayed[j] = expected[j]

\* What holds of the last recovery when it is not under way.
WalkOver ==
    /\ mode \notin {"panic", "garbage"}
    /\ mode = "failed" => ReplayedPrefix
    /\ mode = "up" => replayed = expected

WalkInv ==
    Walkable => /\ WalkOver
                /\ mode = "walk" => \E k \in 0..Len(file) : WalkedTo(k)

\* Pages follow each other.
LEMMA PageMono == \A p, q \in Nat : p < q => p * PAGE + PAGE <= q * PAGE
<1> SUFFICES ASSUME NEW p \in Nat, NEW q \in Nat, p < q PROVE p * PAGE + PAGE <= q * PAGE
    OBVIOUS
<1>1. PICK d \in Nat : q = p + 1 + d
    OBVIOUS
<1>2. q * PAGE = p * PAGE + PAGE + d * PAGE /\ d * PAGE \in Nat /\ p * PAGE \in Nat
    BY <1>1, Layout
<1> QED
    BY <1>2, Layout

\* Record k begins at offset o of page p and has s bytes, and only a log of the first
\* page leaves its page.
Lies(k, p, o, s) ==
    /\ p \in Nat /\ o \in Nat /\ s \in Nat
    /\ file[k].start = p * PAGE + o /\ lsns[file[k].id].size = s
    /\ HDR <= o /\ o < PAGE /\ 1 <= s /\ s <= PAGE - HDR
    /\ o + s >= PAGE => /\ file[k].cut = PAGE - o /\ p = 0 /\ lsns[file[k].id].kind = "log"
                        /\ EndOf(file[k]) = file[k].start + s + HDR
    /\ o + s < PAGE => file[k].cut = 0 /\ EndOf(file[k]) = file[k].start + s
    /\ EndOf(file[k]) <= walSize

\* The records of a file that the walk understands lie like this, ...
LEMMA RecordLies ==
    ASSUME LogInv, Clean, NEW k \in 1..Len(file) PROVE \E p, o, s : Lies(k, p, o, s)
<1>0. LsnType /\ ItemInv /\ KindInv /\ RecordsInv
    BY Zenon DEF LogInv
<1>1. /\ file[k].id \in Items /\ file[k] \in Record /\ CutInv(file[k]) /\ Aligned(file[k])
      /\ file[k].cut > 0 => lsns[file[k].id].kind = "log" /\ file[k].start < PAGE
    <2>1. file[k] \in Record
        BY <1>0, FileFacts
    <2> QED
        BY <1>0, <2>1, Zenon DEF RecordsInv, Clean
<1>2. PICK p \in Nat, o \in Nat, s \in Nat :
            p = lsns[file[k].id].page /\ o = lsns[file[k].id].off /\ s = lsns[file[k].id].size
    BY <1>0, <1>1, ItemFacts
<1>3. 1 <= s /\ s <= PAGE - HDR /\ o < PAGE
    BY <1>0, <1>1, <1>2, ItemFacts DEF KindInv
<1>4. HDR <= o
    <2>1. \A j \in 1..k : j \in 1..Len(file)
        BY <1>0, FileFacts
    <2>2. AlignedTo(k)
        BY <2>1, Zenon DEF AlignedTo, Clean
    <2> QED
        BY <1>0, <1>2, <2>2, Zenon DEF RecordsInv
<1>5. PICK a \in Nat : a = file[k].start
    BY <1>1 DEF Record
<1>6. a = p * PAGE + o
    BY <1>1, <1>2, <1>5 DEF Aligned, Addr
<1>7. EndOf(file[k]) <= walSize
    BY <1>0, AlignedBehind
<1>8. CASE o + s >= PAGE
    <2>1. file[k].cut = PAGE - o
        BY <1>1, <1>2, <1>8 DEF CutInv
    <2>2. file[k].cut > 0
        BY <1>3, <2>1, Layout
    <2>3. EndOf(file[k]) = a + s + HDR
        BY <1>2, <1>5, <2>2, Layout DEF EndOf
    <2>4. a < PAGE /\ lsns[file[k].id].kind = "log"
        BY <1>1, <1>5, <2>2
    <2>5. p = 0
        <3> SUFFICES ASSUME 0 < p PROVE FALSE
            OBVIOUS
        <3>1. PICK b \in Nat : b = p * PAGE
            BY PageStart
        <3>2. 0 * PAGE + PAGE <= b
            BY <3>1, PageMono
        <3>3. 0 * PAGE + PAGE = PAGE
            BY Layout
        <3> QED
            BY <1>6, <2>4, <3>1, <3>2, <3>3, Layout
    <2>6. ~(o + s < PAGE)
        BY <1>8, Layout
    <2>7. Lies(k, p, o, s)
        BY <1>2, <1>3, <1>4, <1>5, <1>6, <1>7, <2>1, <2>3, <2>4, <2>5, <2>6, Zenon DEF Lies
    <2> QED
        BY <2>7, Zenon
<1>9. CASE o + s < PAGE
    <2>0. ~(o + s >= PAGE)
        BY <1>9, Layout
    <2>1. file[k].cut = 0
        BY <1>1, <1>2, <2>0, Zenon DEF CutInv
    <2>2. EndOf(file[k]) = a + s
        BY <1>2, <1>5, <2>1, SMTT(60) DEF EndOf
    <2>3. Lies(k, p, o, s)
        BY <1>2, <1>3, <1>4, <1>5, <1>6, <1>7, <2>0, <2>1, <2>2, Zenon DEF Lies
    <2> QED
        BY <2>3, Zenon
<1> QED
    BY <1>8, <1>9, Layout

\* ... and follow each other without a gap.
LEMMA PosIsEnd ==
    ASSUME LogInv, Clean, NEW k \in 1..Len(file) PROVE Pos(k) = EndOf(file[k])
<1>0. RecordsInv
    BY Zenon DEF LogInv
<1>1. CASE k < Len(file)
    <2>1. k + 1 \in 1..Len(file) /\ k + 1 > 1 /\ (k + 1) - 1 = k
        BY <1>0, <1>1, FileFacts, SMTT(60)
    <2>2. \A j \in 1..(k + 1) : j \in 1..Len(file)
        BY <1>0, <1>1, FileFacts, SMTT(60)
    <2>3. AlignedTo(k + 1)
        BY <2>2, Zenon DEF AlignedTo, Clean
    <2>4. file[k + 1].start = EndOf(file[k])
        BY <1>0, <2>1, <2>3, Zenon DEF RecordsInv
    <2> QED
        BY <1>1, <2>4 DEF Pos
<1>2. CASE k = Len(file)
    <2>1. ~(k < Len(file))
        BY <1>0, <1>2, FileFacts
    <2> QED
        BY <1>0, <1>2, <2>1, Zenon DEF Pos, RecordsInv
<1> QED
    BY <1>0, <1>1, <1>2, FileFacts

\* One record begins at a position.
LEMMA OneRecord ==
    ASSUME LogInv, NEW j \in 1..Len(file), NEW k \in 1..Len(file), file[j].start = file[k].start
    PROVE  j = k
<1>0. LsnType /\ ItemInv /\ RecordsInv
    BY Zenon DEF LogInv
<1>1. \A m \in 1..Len(file) : file[m] \in Record /\ file[m].id \in Items
    BY <1>0, FileFacts
<1>2. \A m \in 1..Len(file) : /\ EndOf(file[m]) \in Nat /\ file[m].start \in Nat
                               /\ file[m].start + lsns[file[m].id].size <= EndOf(file[m])
    BY <1>0, <1>1, EndType
<1>3. \A m \in 1..Len(file) : lsns[file[m].id].size \in Nat /\ 1 <= lsns[file[m].id].size
    BY <1>0, <1>1, ItemFacts
<1>4. ASSUME NEW m \in 1..Len(file) PROVE file[m].start < EndOf(file[m])
    <2>1. PICK a \in Nat, s \in Nat, e \in Nat :
                a = file[m].start /\ s = lsns[file[m].id].size /\ e = EndOf(file[m])
        BY <1>2, <1>3
    <2>2. a + s <= e /\ 1 <= s
        BY <1>2, <1>3, <2>1
    <2> QED
        BY <2>1, <2>2, SMTT(60)
<1>5. CASE j < k
    <2>1. EndOf(file[j]) <= file[k].start
        BY <1>0, <1>5, Zenon DEF RecordsInv
    <2> QED
        BY <1>2, <1>4, <2>1
<1>6. CASE k < j
    <2>1. EndOf(file[k]) <= file[j].start
        BY <1>0, <1>6, Zenon DEF RecordsInv
    <2> QED
        BY <1>2, <1>4, <2>1
<1> QED
    BY <1>0, <1>5, <1>6, FileFacts

\* Whether a range that begins with record k leaves the page.
LEMMA LiesMultipage ==
    ASSUME NEW k, NEW p, NEW o, NEW s, Lies(k, p, o, s), NEW x \in Nat
    PROVE  /\ IsMultipage(file[k].start, file[k].start + x) <=> o + x >= PAGE
           /\ file[k].start \div PAGE = p
<1>1. p \in Nat /\ o \in Nat /\ o < PAGE /\ file[k].start = p * PAGE + o
    BY Zenon DEF Lies
<1> QED
    BY <1>1, PageRange, SMTT(60)

\* What is used of the theory of finite sets.
Counting ==
    /\ Cardinality({}) = 0
    /\ \A n \in Nat : IsFiniteSet(1..n)
    /\ \A S, T : IsFiniteSet(S) /\ T \subseteq S =>
                    /\ IsFiniteSet(T) /\ Cardinality(T) \in Nat
                    /\ Cardinality(T) <= Cardinality(S)
                    /\ Cardinality(T) = Cardinality(S) => T = S
    /\ \A S, x : IsFiniteSet(S) /\ x \notin S => Cardinality(S \cup {x}) = Cardinality(S) + 1

\* A part of a finite set is not larger than the set.
LEMMA CountPart ==
    ASSUME Counting, NEW S, IsFiniteSet(S), NEW T, T \subseteq S
    PROVE  IsFiniteSet(T) /\ Cardinality(T) \in Nat /\ Cardinality(T) <= Cardinality(S)
BY Zenon DEF Counting

\* Another element is one more.
LEMMA CountOneMore ==
    ASSUME Counting, NEW S, IsFiniteSet(S), NEW x, x \notin S
    PROVE  Cardinality(S \cup {x}) = Cardinality(S) + 1
BY Zenon DEF Counting

\* Nth counts.
LEMMA NthIs ==
    ASSUME Counting, NEW S \in SUBSET Nat, IsFiniteSet(S), NEW k \in S
    PROVE  Nth(S, Cardinality({m \in S : m <= k})) = k
<1> DEFINE Upto(x) == {m \in S : m <= x}
<1>1. \A x \in S : /\ Upto(x) \in SUBSET S /\ IsFiniteSet(Upto(x)) /\ Cardinality(Upto(x)) \in Nat
    <2> SUFFICES ASSUME NEW x \in S
                 PROVE  Upto(x) \in SUBSET S /\ IsFiniteSet(Upto(x)) /\ Cardinality(Upto(x)) \in Nat
        OBVIOUS
    <2>1. Upto(x) \in SUBSET S /\ Upto(x) \subseteq S
        OBVIOUS
    <2> HIDE DEF Upto
    <2>2. IsFiniteSet(Upto(x)) /\ Cardinality(Upto(x)) \in Nat
        BY <2>1, Zenon DEF Counting
    <2> QED
        BY <2>1, <2>2, Zenon
<1>2. ASSUME NEW x \in S, NEW y \in S, x < y PROVE Cardinality(Upto(x)) # Cardinality(Upto(y))
    <2>0. x \in Nat /\ y \in Nat /\ y <= y /\ ~(y <= x) /\ \A m \in S : m <= x => m <= y
        <3>1. x \in Nat /\ y \in Nat
            OBVIOUS
        <3>2. ASSUME NEW m \in S, m <= x PROVE m <= y
            <4>1. m \in Nat
                OBVIOUS
            <4> QED
                BY <1>2, <3>1, <3>2, <4>1
        <3>3. y <= y /\ ~(y <= x)
            BY <1>2, <3>1
        <3> QED
            BY <3>1, <3>2, <3>3, Zenon
    <2>1. Upto(x) \subseteq Upto(y) /\ y \in Upto(y) /\ y \notin Upto(x)
        BY <2>0, Zenon
    <2>2. IsFiniteSet(Upto(y))
        BY <1>1
    <2> HIDE DEF Upto
    <2>3. Cardinality(Upto(x)) = Cardinality(Upto(y)) => Upto(x) = Upto(y)
        BY <2>1, <2>2, Zenon DEF Counting
    <2> QED
        BY <2>1, <2>3
<1>3. ASSUME NEW x \in S, Cardinality(Upto(x)) = Cardinality(Upto(k)) PROVE x = k
    <2> HIDE DEF Upto
    <2>1. ~(x < k) /\ ~(k < x)
        BY <1>2, <1>3
    <2>2. x \in Nat /\ k \in Nat
        OBVIOUS
    <2> QED
        BY <2>1, <2>2
<1> HIDE DEF Upto
<1>4. (CHOOSE x \in S : Cardinality(Upto(x)) = Cardinality(Upto(k))) = k
    BY <1>3
<1> QED
    BY <1>4 DEF Nth, Upto

\* The positions of logs form a finite set.
LEMMA AfterType ==
    ASSUME Counting, file \in Seq(Record), NEW i
    PROVE  /\ After(i) \in SUBSET Nat /\ After(i) \subseteq 1..Len(file)
           /\ IsFiniteSet(After(i)) /\ Cardinality(After(i)) \in Nat
<1>1. After(i) \subseteq 1..Len(file) /\ After(i) \in SUBSET Nat /\ Len(file) \in Nat
    BY DEF After
<1>2. IsFiniteSet(1..Len(file))
    BY <1>1, Zenon DEF Counting
<1> QED
    BY <1>1, <1>2, Zenon DEF Counting

\* While the walk is inside the file it is at a record, and at this one only.
LEMMA AtRecord ==
    ASSUME LogInv, Clean, NEW k \in 0..Len(file), WalkedTo(k), currOff < walSize
    PROVE  /\ k + 1 \in 1..Len(file) /\ k \in Nat
           /\ currOff = file[k + 1].start /\ RecordAt(currOff) = {k + 1}
           /\ Pos(k + 1) = EndOf(file[k + 1])
<1>0. LsnType /\ ItemInv /\ RecordsInv
    BY Zenon DEF LogInv
<1>1. Len(file) \in Nat
    BY <1>0, FileFacts
<1>2. walSize \in Nat
    BY <1>0, <1>1, AlignedBehind, FileFacts, SMTT(60)
<1>3. k < Len(file)
    BY <1>1, <1>2 DEF WalkedTo, Pos
<1>4. k + 1 \in 1..Len(file) /\ k \in Nat
    BY <1>1, <1>3
<1>5. currOff = file[k + 1].start
    BY <1>3 DEF WalkedTo, Pos
<1>6. RecordAt(currOff) = {k + 1}
    BY <1>4, <1>5, OneRecord, Zenon DEF RecordAt
<1> QED
    BY <1>4, <1>5, <1>6, PosIsEnd

\* A log header is shorter than a log.
LEMMA LogSize ==
    ASSUME LogInv, NEW m \in 1..Len(file), lsns[file[m].id].kind = "log"
    PROVE  LOGHDR \in Nat /\ LOGHDR < lsns[file[m].id].size
<1>1. file[m].id \in Items /\ KindInv
    BY FileFacts DEF LogInv
<1> QED
    BY <1>1, RecoveryAssumption DEF KindInv

\* io.EOF: no log lies behind the place where the walk ends.
LEMMA NoLogBehind ==
    ASSUME LogInv, Clean, NEW k \in 0..Len(file), WalkedTo(k),
           currOff >= walSize \/ HeaderEnd > walSize,
           NEW m \in 1..Len(file), k < m, lsns[file[m].id].kind = "log"
    PROVE  FALSE
<1>0. LsnType /\ ItemInv /\ RecordsInv
    BY Zenon DEF LogInv
<1>1. Len(file) \in Nat
    BY <1>0, FileFacts
<1>2. PICK w \in Nat : w = walSize
    BY <1>0, <1>1, AlignedBehind, FileFacts
<1>3. k + 1 \in 1..Len(file) /\ k < Len(file) /\ (k + 1 = m \/ k + 1 < m)
    BY <1>1
<1>4. PICK p, o, s : Lies(k + 1, p, o, s)
    BY <1>3, RecordLies
<1>5. PICK q, x, t : Lies(m, q, x, t)
    BY RecordLies
<1>6. PICK a \in Nat, b \in Nat : a = p * PAGE /\ b = q * PAGE
    BY <1>4, <1>5, PageStart DEF Lies
<1>7. /\ o \in Nat /\ x \in Nat /\ t \in Nat /\ HDR <= x /\ x < PAGE /\ o < PAGE /\ 1 <= t
      /\ file[k + 1].start = a + o /\ file[m].start = b + x /\ lsns[file[m].id].size = t
    BY <1>4, <1>5, <1>6, Zenon DEF Lies
<1>8. currOff = a + o
    BY <1>3, <1>7 DEF WalkedTo, Pos
<1>9. LOGHDR \in Nat /\ LOGHDR < t
    BY <1>7, LogSize
<1>10. PICK e \in Nat : /\ e = EndOf(file[m]) /\ e <= w
                        /\ x + t >= PAGE => e = b + x + t + HDR
                        /\ x + t < PAGE => e = b + x + t
    <2>1. /\ x + t >= PAGE => EndOf(file[m]) = b + x + t + HDR
          /\ x + t < PAGE => EndOf(file[m]) = b + x + t
          /\ EndOf(file[m]) <= w
        BY <1>2, <1>5, <1>7, Zenon DEF Lies
    <2>2. EndOf(file[m]) \in Nat
        <3>1. file[m] \in Record /\ file[m].id \in Items
            BY <1>0, FileFacts
        <3> QED
            BY <1>0, <3>1, EndType
    <2> QED
        BY <2>1, <2>2, Zenon
<1>11. a + o <= b + x
    <2>1. CASE k + 1 = m
        BY <1>7, <2>1
    <2>2. CASE k + 1 < m
        <3>1. EndOf(file[k + 1]) <= file[m].start
            BY <1>0, <1>3, <2>2, Zenon DEF RecordsInv
        <3>2. file[k + 1] \in Record /\ file[k + 1].id \in Items
            BY <1>0, <1>3, FileFacts
        <3>3. file[k + 1].start <= EndOf(file[k + 1]) /\ EndOf(file[k + 1]) \in Nat
            <4>1. PICK d \in Nat, z \in Nat, f \in Nat :
                      d = file[k + 1].start /\ z = lsns[file[k + 1].id].size /\ f = EndOf(file[k + 1])
                BY <1>0, <3>2, EndType, ItemFacts
            <4>2. d + z <= f
                BY <1>0, <3>2, <4>1, EndType
            <4>3. d <= f
                BY <4>2
            <4> QED
                BY <4>1, <4>3, Zenon
        <3> QED
            BY <1>7, <3>1, <3>3
    <2> QED
        BY <1>3, <2>1, <2>2
<1>12. CASE currOff >= walSize
    BY <1>2, <1>7, <1>8, <1>10, <1>11, <1>12, Layout, SMTT(60)
<1>13. CASE HeaderEnd > walSize
    <2>1. IsMultipage(currOff, currOff + LOGHDR) <=> o + LOGHDR >= PAGE
        BY <1>4, <1>7, <1>8, <1>9, LiesMultipage
    <2>2. CASE o + LOGHDR < PAGE
        <3>1. HeaderEnd = a + o + LOGHDR
            BY <1>6, <1>7, <1>8, <1>9, <2>1, <2>2, Layout, SMTT(60) DEF HeaderEnd
        <3> QED
            BY <1>2, <1>7, <1>9, <1>10, <1>11, <1>13, <2>2, <3>1, Layout, SMTT(60)
    <2>3. CASE o + LOGHDR >= PAGE
        <3>1. HeaderEnd = a + o + LOGHDR + HDR
            BY <1>8, <2>1, <2>3 DEF HeaderEnd
        <3>2. p \in Nat /\ q \in Nat
            BY <1>4, <1>5, Zenon DEF Lies
        <3>3. CASE x + t >= PAGE
            BY <1>2, <1>7, <1>9, <1>10, <1>11, <1>13, <3>1, <3>3, Layout, SMTT(60)
        <3>4. CASE x + t < PAGE /\ p = q
            BY <1>6, <1>7, <1>9, <1>11, <2>3, <3>4, Layout
        <3>5. CASE x + t < PAGE /\ p < q
            <4>1. a + PAGE <= b
                BY <1>6, <3>2, <3>5, PageMono
            <4> QED
                BY <1>2, <1>7, <1>9, <1>10, <1>13, <3>1, <3>5, <4>1, Layout, SMTT(60)
        <3>6. CASE q < p
            <4>1. b + PAGE <= a
                BY <1>6, <3>2, <3>6, PageMono
            <4> QED
                BY <1>7, <1>11, <4>1, Layout, SMTT(60)
        <3>7. x + t >= PAGE \/ x + t < PAGE
            BY <1>7, Layout
        <3>8. p = q \/ p < q \/ q < p
            BY <3>2
        <3> QED
            BY <3>3, <3>4, <3>5, <3>6, <3>7, <3>8, Zenon
    <2>4. o + LOGHDR < PAGE \/ o + LOGHDR >= PAGE
        BY <1>7, <1>9, Layout
    <2> QED
        BY <2>2, <2>3, <2>4, Zenon
<1> QED
    BY <1>12, <1>13

\* The walk passes a record: a log is replayed, a checkpoint is skipped.
LEMMA WalkOn ==
    ASSUME Counting, LogInv, Walkable, NEW k \in 0..Len(file), WalkedTo(k), currOff < walSize,
           UNCHANGED <<file, lsns, walSize, from, expected>>, currOff' = EndOf(file[k + 1]),
           \/ lsns[file[k + 1].id].kind = "log" /\ replayed' = Append(replayed, file[k + 1].id)
           \/ lsns[file[k + 1].id].kind = "checkpoint" /\ replayed' = replayed
    PROVE  k + 1 \in 0..Len(file) /\ WalkedTo(k + 1)'
<1> DEFINE A == After(from)
           c == Cardinality(A \cap (1..k))
<1>0. RecordsInv /\ Clean /\ from # 0 /\ file \in Seq(Record)
    BY Zenon DEF LogInv, RecordsInv, Clean, Walkable
<1>1. /\ k + 1 \in 1..Len(file) /\ k \in Nat /\ currOff = file[k + 1].start
      /\ Pos(k + 1) = EndOf(file[k + 1])
    BY <1>0, AtRecord
<1>2. /\ A \in SUBSET Nat /\ A \subseteq 1..Len(file) /\ IsFiniteSet(A) /\ Cardinality(A) \in Nat
    BY <1>0, AfterType
<1>3. A = {m \in 1..Len(file) : /\ lsns[file[m].id].kind = "log"
                                /\ \A j \in Position(lsns[from].upto) : j < m}
    BY <1>0 DEF After
<1>4. \A j \in Position(lsns[from].upto) : j \in Nat /\ j <= k
    BY SMTT(60) DEF WalkedTo, Position
<1>5. /\ After(from)' = A /\ LogsAfter(from)' = LogsAfter(from) /\ Pos(k + 1)' = Pos(k + 1)
      /\ Position(lsns[from].upto)' = Position(lsns[from].upto)
    <2>1. After(from)' = A
        BY DEF After, Position
    <2>2. LogsAfter(from)' = LogsAfter(from)
        BY <2>1 DEF LogsAfter
    <2> QED
        BY <2>1, <2>2, Zenon DEF Pos, Position
<1> HIDE DEF A
<1>6. /\ IsFiniteSet(A \cap (1..k)) /\ c \in Nat
      /\ \A j \in Position(lsns[from].upto) : j <= k + 1
    <2>1. A \cap (1..k) \subseteq A
        OBVIOUS
    <2>2. IsFiniteSet(A \cap (1..k)) /\ c \in Nat
        BY <1>2, <2>1, CountPart
    <2> QED
        BY <1>1, <1>4, <2>2, SMTT(60)
<1>7. /\ replayed \in Seq(Nat) /\ Len(replayed) = c /\ expected = LogsAfter(from)
      /\ \A j \in 1..Len(replayed) : replayed[j] = expected[j]
    BY Zenon DEF WalkedTo, A
<1>8. ASSUME /\ replayed' \in Seq(Nat) /\ Len(replayed') = Cardinality(A \cap (1..(k + 1)))
             /\ \A j \in 1..Len(replayed') : replayed'[j] = expected[j]
      PROVE  k + 1 \in 0..Len(file) /\ WalkedTo(k + 1)'
    <2>1. k + 1 \in 0..Len(file)
        BY <1>1, SMTT(60)
    <2>2. WalkedTo(k + 1)'
        BY <1>1, <1>5, <1>6, <1>7, <1>8, Zenon DEF WalkedTo, A
    <2> QED
        BY <2>1, <2>2
<1>9. CASE lsns[file[k + 1].id].kind = "checkpoint" /\ replayed' = replayed
    <2>1. k + 1 \notin A
        BY <1>3, <1>9
    <2>2. \A m \in A : m \in 1..(k + 1) <=> m \in 1..k
        BY <1>1, <1>2, <2>1, SMTT(60)
    <2>3. A \cap (1..(k + 1)) = A \cap (1..k)
        BY <2>2, Zenon
    <2> QED
        BY <1>7, <1>8, <1>9, <2>3
<1>10. CASE lsns[file[k + 1].id].kind = "log" /\ replayed' = Append(replayed, file[k + 1].id)
    <2>1. k + 1 \in A
        <3>1. \A j \in Position(lsns[from].upto) : j < k + 1
            BY <1>1, <1>4, SMTT(60)
        <3> QED
            BY <1>1, <1>3, <1>10, <3>1, Zenon
    <2>2. /\ A \cap (1..(k + 1)) = (A \cap (1..k)) \cup {k + 1}
          /\ k + 1 \notin A \cap (1..k)
        BY <1>1, <1>2, <2>1, SMTT(60)
    <2>3. Cardinality(A \cap (1..(k + 1))) = c + 1
        BY <1>6, <2>2, CountOneMore
    <2>4. {m \in A : m <= k + 1} = A \cap (1..(k + 1))
        <3>1. \A m \in A : m <= k + 1 <=> m \in 1..(k + 1)
            BY <1>1, <1>2, SMTT(60)
        <3> QED
            BY <3>1, Zenon
    <2>5. Nth(A, c + 1) = k + 1
        BY <1>2, <2>1, <2>3, <2>4, NthIs
    <2>6. c + 1 \in 1..Cardinality(A)
        <3>1. A \cap (1..(k + 1)) \subseteq A
            OBVIOUS
        <3>2. c + 1 <= Cardinality(A)
            BY <1>2, <2>3, <3>1, CountPart
        <3> QED
            BY <1>2, <1>6, <3>2, SMTT(60)
    <2>7. expected[c + 1] = file[k + 1].id
        BY <1>7, <2>5, <2>6 DEF LogsAfter, A
    <2>8. file[k + 1].id \in Nat
        BY <1>0, <1>1, FileFacts DEF Items
    <2> HIDE DEF c
    <2>9. replayed' \in Seq(Nat) /\ Len(replayed') = c + 1
        <3>1. \A q \in Seq(Nat), x \in Nat : Append(q, x) \in Seq(Nat) /\ Len(Append(q, x)) = Len(q) + 1
            BY SMTT(60)
        <3> QED
            BY <1>7, <1>10, <2>8, <3>1, Zenon
    <2>10. ASSUME NEW j \in 1..Len(replayed') PROVE replayed'[j] = expected[j]
        <3>1. j \in 1..Len(replayed) \/ j = c + 1
            BY <1>6, <1>7, <2>9, SMTT(60)
        <3>2. \A q \in Seq(Nat), x \in Nat : /\ \A i \in 1..Len(q) : Append(q, x)[i] = q[i]
                                             /\ Append(q, x)[Len(q) + 1] = x
            OBVIOUS
        <3> QED
            BY <1>7, <1>10, <2>7, <2>8, <3>1, <3>2, ZenonT(60)
    <2> QED
        BY <1>8, <2>3, <2>9, <2>10
<1> QED
    BY <1>9, <1>10

\* While the walk is under way, what was replayed is a prefix of what has to be.
LEMMA WalkedPrefix ==
    ASSUME Counting, LogInv, NEW k \in 0..Len(file), WalkedTo(k)
    PROVE  ReplayedPrefix
<1>1. /\ expected = LogsAfter(from) /\ Len(replayed) = Cardinality(After(from) \cap (1..k))
      /\ \A j \in 1..Len(replayed) : replayed[j] = expected[j]
    BY Zenon DEF WalkedTo
<1>2. file \in Seq(Record)
    BY Zenon DEF LogInv, RecordsInv
<1>3. IsFiniteSet(After(from)) /\ Cardinality(After(from)) \in Nat
    BY <1>2, AfterType, Zenon
<1>4. Len(expected) = Cardinality(After(from))
    BY <1>1, <1>3 DEF LogsAfter
<1>5. Cardinality(After(from) \cap (1..k)) <= Cardinality(After(from))
    <2>1. After(from) \cap (1..k) \subseteq After(from)
        OBVIOUS
    <2> QED
        BY <1>3, <2>1, CountPart, Zenon
<1> QED
    BY <1>1, <1>4, <1>5, Zenon DEF ReplayedPrefix

\* A step of the walk.
LEMMA WalkStep ==
    ASSUME Counting, LogInv, Walkable, WalkInv,
           WalkEnd \/ WalkGarbage \/ WalkCheckpoint \/ WalkLog \/ reapplyFails
    PROVE  /\ WalkOver'
           /\ mode' = "walk" => \E k \in 0..Len(file) : WalkedTo(k)'
<1>0. /\ LsnType /\ ItemInv /\ KindInv /\ RecordsInv /\ Clean /\ from # 0 /\ file \in Seq(Record)
    BY Zenon DEF LogInv, RecordsInv, Clean, Walkable
<1>1. mode = "walk" /\ UNCHANGED <<file, lsns, walSize, from, expected>>
    BY DEF WalkEnd, WalkGarbage, WalkCheckpoint, WalkLog, reapplyFails, vars
<1>2. PICK k \in 0..Len(file) : WalkedTo(k)
    BY <1>1, Zenon DEF WalkInv
<1>3. CASE WalkEnd
    <2>1. /\ mode' = "up" /\ replayed' = replayed /\ (currOff >= walSize \/ HeaderEnd > walSize)
        BY <1>3, Zenon DEF WalkEnd
    <2>2. /\ After(from) \subseteq 1..Len(file) /\ Cardinality(After(from)) \in Nat
          /\ Len(file) \in Nat
        BY <1>0, AfterType
    <2>3. ASSUME NEW m \in After(from) PROVE m \in 1..k
        <3>1. m \in 1..Len(file) /\ lsns[file[m].id].kind = "log"
            BY DEF After
        <3>2. ~(k < m)
            BY <1>0, <1>2, <2>1, <3>1, NoLogBehind
        <3> QED
            BY <2>2, <3>1, <3>2
    <2>4. After(from) \cap (1..k) = After(from)
        BY <2>3
    <2>5. /\ replayed \in Seq(Nat) /\ Len(replayed) = Cardinality(After(from))
          /\ expected = LogsAfter(from) /\ \A j \in 1..Len(replayed) : replayed[j] = expected[j]
        BY <1>2, <2>4, Zenon DEF WalkedTo
    <2>6. expected = [j \in 1..Cardinality(After(from)) |-> file[Nth(After(from), j)].id]
        BY <2>5 DEF LogsAfter
    <2>7. replayed = [j \in 1..Cardinality(After(from)) |-> replayed[j]]
        BY <2>5
    <2>8. replayed = expected
        BY <2>5, <2>6, <2>7
    <2> QED
        BY <1>1, <2>1, <2>8 DEF WalkOver
<1>3a. CASE reapplyFails
    <2>1. mode' = "failed" /\ UNCHANGED <<replayed, expected>>
        BY <1>3a DEF reapplyFails
    <2>2. ReplayedPrefix
        BY <1>2, WalkedPrefix
    <2> QED
        BY <2>1, <2>2 DEF WalkOver, ReplayedPrefix
<1> SUFFICES ASSUME ~WalkEnd, ~reapplyFails PROVE WalkOver' /\ \E j \in 0..Len(file) : WalkedTo(j)'
    BY <1>3, <1>3a
<1>4. currOff < walSize /\ HeaderEnd <= walSize
    BY DEF WalkGarbage, WalkCheckpoint, WalkLog
<1>5. /\ k + 1 \in 1..Len(file) /\ k \in Nat
      /\ currOff = file[k + 1].start /\ RecordAt(currOff) = {k + 1}
    BY <1>0, <1>2, <1>4, AtRecord
<1> DEFINE r == file[k + 1]
           l == lsns[file[k + 1].id]
<1>6. PICK p, o, s : Lies(k + 1, p, o, s)
    BY <1>0, <1>5, RecordLies
<1>7. /\ p \in Nat /\ o \in Nat /\ s \in Nat /\ l.size = s /\ o < PAGE
      /\ currOff = p * PAGE + o /\ EndOf(r) <= walSize
      /\ o + s >= PAGE => /\ r.cut = PAGE - o /\ p = 0 /\ EndOf(r) = currOff + s + HDR
      /\ o + s < PAGE => r.cut = 0 /\ EndOf(r) = currOff + s
    BY <1>5, <1>6, Zenon DEF Lies
<1>7a. o \in Nat /\ s \in Nat /\ o < PAGE
    BY <1>7, Zenon
<1>8. l.kind = "checkpoint" => EndOf(r) = currOff + CHK
    <2> SUFFICES ASSUME l.kind = "checkpoint" PROVE EndOf(r) = currOff + CHK
        OBVIOUS
    <2>1. s = CHK
        <3>1. r.id \in Items
            BY <1>0, <1>5, FileFacts
        <3> QED
            BY <1>0, <1>7, <3>1, Zenon DEF KindInv
    <2>2. ~(o + s >= PAGE)
        BY <1>6 DEF Lies
    <2>3. o + s < PAGE
        BY <1>7a, <2>2, Layout, SMTT(60)
    <2> QED
        BY <1>7, <2>1, <2>3
<1>9. l.kind = "log" => HeaderReadable(r)
    <2> SUFFICES ASSUME l.kind = "log" PROVE HeaderReadable(r)
        OBVIOUS
    <2>1. LOGHDR \in Nat /\ LOGHDR < s
        BY <1>5, <1>7, LogSize
    <2>2. /\ IsMultipage(currOff, currOff + LOGHDR) <=> o + LOGHDR >= PAGE
          /\ currOff \div PAGE = p
        BY <1>5, <1>6, <2>1, LiesMultipage
    <2>3. CASE o + LOGHDR >= PAGE
        <3>1. o + s >= PAGE
            BY <1>7a, <2>1, <2>3, Layout
        <3>2. r.cut = PAGE - o /\ p = 0
            BY <1>7, <3>1, Zenon
        <3>3. currOff = o /\ PAGE * (currOff \div PAGE + 1) = PAGE
            BY <1>7, <2>2, <3>2, Layout, SMTT(60)
        <3> QED
            BY <2>2, <2>3, <3>2, <3>3 DEF HeaderReadable
    <2>4. CASE o + LOGHDR < PAGE
        <3>1. ~IsMultipage(currOff, currOff + LOGHDR)
            BY <1>7a, <2>1, <2>2, <2>4, Layout
        <3>2. r.cut = 0 \/ r.cut >= LOGHDR
            <4>1. CASE o + s >= PAGE
                <5>1. r.cut = PAGE - o
                    BY <1>7, <4>1, Zenon
                <5>2. PAGE - o >= LOGHDR
                    BY <1>7a, <2>1, <2>4, Layout
                <5> QED
                    BY <5>1, <5>2, Zenon
            <4>2. CASE o + s < PAGE
                BY <1>7, <4>2, Zenon
            <4>3. o + s >= PAGE \/ o + s < PAGE
                BY <1>7a, Layout
            <4> QED
                BY <4>1, <4>2, <4>3, Zenon
        <3> QED
            BY <3>1, <3>2, Zenon DEF HeaderReadable
    <2>5. o + LOGHDR >= PAGE \/ o + LOGHDR < PAGE
        BY <1>7a, <2>1, Layout
    <2> QED
        BY <2>3, <2>4, <2>5
<1>10. LogEnd(s) = EndOf(r) /\ ~CutPanics(s) /\ LogReadable(r, s)
    <2>1. IsMultipage(currOff, currOff + s) <=> o + s >= PAGE
        BY <1>5, <1>6, <1>7, LiesMultipage, ZenonT(60)
    <2>2. CASE o + s >= PAGE
        <3>1. r.cut = PAGE - o /\ p = 0 /\ EndOf(r) = currOff + s + HDR
            BY <1>7, <2>2, Zenon
        <3>2. currOff = o
            BY <1>7, <3>1, Layout, SMTT(60)
        <3> QED
            BY <1>7, <2>1, <2>2, <3>1, <3>2, Layout, SMTT(60) DEF LogEnd, CutPanics, LogReadable
    <2>3. CASE o + s < PAGE
        <3>1. r.cut = 0 /\ EndOf(r) = currOff + s
            BY <1>7, <2>3, Zenon
        <3>2. ~IsMultipage(currOff, currOff + s)
            BY <1>7a, <2>1, <2>3, Layout
        <3>3. currOff \in Nat
            <4>1. PICK b \in Nat : b = p * PAGE
                BY <1>7, PageStart
            <4>2. b + o \in Nat
                BY <1>7a
            <4> QED
                BY <1>7, <4>1, <4>2, Zenon
        <3> QED
            BY <1>7, <3>1, <3>2, <3>3, SMTT(60) DEF LogEnd, CutPanics, LogReadable
    <2>4. o + s >= PAGE \/ o + s < PAGE
        BY <1>7a, Layout
    <2> QED
        BY <2>2, <2>3, <2>4
<1>11. l.kind = "log" \/ l.kind = "checkpoint"
    <2>1. r.id \in Items
        BY <1>0, <1>5, FileFacts
    <2>2. \A i \in Items : lsns[i] \in Item
        BY <1>0 DEF LsnType, Items
    <2>3. \A x \in Item : x.kind = "log" \/ x.kind = "checkpoint"
        BY DEF Item
    <2> QED
        BY <2>1, <2>2, <2>3, Zenon
<1>12. ~WalkGarbage
    BY <1>5, <1>9, <1>11 DEF WalkGarbage
<1>13. /\ mode' = "walk" /\ currOff' = EndOf(r)
       /\ \/ l.kind = "log" /\ replayed' = Append(replayed, r.id)
          \/ l.kind = "checkpoint" /\ replayed' = replayed
    <2>1. CASE WalkCheckpoint
        BY <1>1, <1>5, <1>8, <2>1 DEF WalkCheckpoint
    <2>2. CASE WalkLog
        <3>1. PICK j \in RecordAt(currOff) :
                /\ lsns[file[j].id].kind = "log"
                /\ IF LogEnd(lsns[file[j].id].size) > walSize \/ CutPanics(lsns[file[j].id].size)
                   THEN mode' = "panic" /\ UNCHANGED <<currOff, replayed>>
                   ELSE IF ~LogReadable(file[j], lsns[file[j].id].size)
                   THEN mode' = "garbage" /\ UNCHANGED <<currOff, replayed>>
                   ELSE /\ replayed' = Append(replayed, file[j].id)
                        /\ currOff' = LogEnd(lsns[file[j].id].size)
                        /\ mode' = mode
            BY <2>2, Zenon DEF WalkLog
        <3>2. j = k + 1
            BY <1>5
        <3>3. ~(EndOf(r) > walSize)
            <4>1. walSize \in Nat /\ EndOf(r) \in Nat
                <5>1. r \in Record /\ r.id \in Items /\ Len(file) > 0
                    BY <1>0, <1>5, FileFacts, SMTT(60)
                <5> QED
                    BY <1>0, <5>1, EndType, AlignedBehind, SMTT(60)
            <4> QED
                BY <1>7, <4>1, SMTT(60)
        <3> QED
            BY <1>1, <1>7, <1>10, <3>1, <3>2, <3>3, Zenon
    <2> QED
        BY <1>12, <2>1, <2>2
<1>14. k + 1 \in 0..Len(file) /\ WalkedTo(k + 1)'
    BY <1>1, <1>2, <1>4, <1>13, WalkOn
<1> QED
    BY <1>13, <1>14 DEF WalkOver

\* A record added to the file, or a new LSN, does not turn a file that the walk does not
\* understand into one that it does.
LEMMA WalkableBefore ==
    ASSUME LogInv, [Next]_vars, UNCHANGED from, Walkable' PROVE Walkable
<1>0. /\ LsnType /\ FlowInv /\ ItemInv /\ KindInv /\ RecordsInv /\ NamedInv /\ FlightInv
      /\ file \in Seq(Record) /\ Len(file) \in Nat
    BY FileFacts DEF LogInv
<1>1. /\ from # 0 /\ from \in Items /\ lsns[from].kind = "checkpoint"
    BY Zenon, <1>0 DEF Walkable, NamedInv, IsCheckpoint
<1>2. PICK u : u = lsns[from].upto
    OBVIOUS
<1>3. u < from /\ (u = 0 \/ u \in Items)
    BY <1>0, <1>1, <1>2, Zenon DEF KindInv, ItemInv
<1>4. \A i \in Items : lsns'[i] = lsns[i]
    BY <1>0, ItemsKept
<1>5. \A k \in 1..Len(file) : file[k].id \in Items
    BY <1>0, FileFacts
<1>6. ASSUME \A k \in 1..Len(file) : k \in 1..Len(file') /\ file'[k] = file[k],
             \A k \in 1..Len(file') : file'[k].id \in {from, u} => k \in 1..Len(file)
      PROVE  Walkable
    <2>1. lsns'[from] = lsns[from] /\ lsns'[from].upto = u
        BY <1>1, <1>2, <1>4
    <2>2. \E k \in Position(from) : file[k].cut = 0
        <3>1. PICK k \in 1..Len(file') : file'[k].id = from /\ file'[k].cut = 0
            BY Zenon DEF Walkable, Position
        <3> QED
            BY <1>6, <3>1, Zenon DEF Position
    <2>3. u = 0 \/ \E k \in Position(u) : file[k].cut = 0
        <3> SUFFICES ASSUME u # 0 PROVE \E k \in Position(u) : file[k].cut = 0
            OBVIOUS
        <3>1. PICK k \in 1..Len(file') : file'[k].id = u /\ file'[k].cut = 0
            BY <2>1, Zenon DEF Walkable, Position
        <3> QED
            BY <1>6, <3>1, Zenon DEF Position
    <2>4. ASSUME NEW k \in 1..Len(file)
          PROVE  /\ Aligned(file[k])
                 /\ file[k].cut > 0 => lsns[file[k].id].kind = "log" /\ file[k].start < PAGE
        <3>1. k \in 1..Len(file') /\ file'[k] = file[k] /\ lsns'[file[k].id] = lsns[file[k].id]
            BY <1>4, <1>5, <1>6, Zenon
        <3> QED
            BY <3>1, Zenon DEF Walkable, Aligned, Addr
    <2> QED
        BY <1>1, <1>2, <2>2, <2>3, <2>4, Zenon DEF Walkable
<1>7. CASE UNCHANGED file
    BY <1>6, <1>7
<1>8. CASE writeWal
    <2>1. PICK h : h = Head(taken) /\ file' = Append(file, checkLogOverflow(h, walSize)) /\ Len(taken) > 0
        BY <1>8 DEF writeWal
    <2>2. taken[1] = h /\ h \in Items /\ InFlight(h)
        BY <1>0, <2>1 DEF FlowInv, InFlight
    <2>3. from < h
        BY <1>0, <2>2, Zenon DEF FlightInv
    <2>4. h # from /\ h # u
        <3>1. from \in Nat /\ h \in Nat /\ u \in Nat
            BY <1>1, <1>3, <2>2 DEF Items
        <3> QED
            BY <1>3, <2>3, <3>1
    <2>5. walSize \in Nat
        BY <1>0, AlignedBehind, FileFacts, SMTT(60)
    <2>6. NewRecord(h, checkLogOverflow(h, walSize), walSize)
        BY <1>0, <2>2, <2>5, RecordWritten
    <2>7. PICK r \in Record : file' = Append(file, r) /\ r.id = h
        BY <2>1, <2>6, Zenon DEF NewRecord
    <2>8. /\ Len(file') = Len(file) + 1 /\ file'[Len(file) + 1] = r
          /\ \A k \in 1..Len(file) : k \in 1..Len(file') /\ file'[k] = file[k]
        BY <1>0, <2>7
    <2>9. ASSUME NEW k \in 1..Len(file'), file'[k].id \in {from, u} PROVE k \in 1..Len(file)
        <3>1. k # Len(file) + 1
            BY <2>4, <2>7, <2>8, <2>9
        <3> QED
            BY <1>0, <2>8, <3>1
    <2> QED
        BY <1>6, <2>8, <2>9
<1>9. UNCHANGED file \/ writeWal
    BY DEF Next, Checkpoint, AddLog, Add, AddCheckpoint, AddCheckpointRecord,
           truncateConfig, saveCheckpoint, flushWal, vars
<1> QED
    BY <1>7, <1>8, <1>9

\* Recovery finds the checkpoint, and begins behind the last log it does not need.
LEMMA WalkBegins ==
    ASSUME Counting, LogInv, Restart, Walkable'
    PROVE  mode' = "walk" /\ \E k \in 0..Len(file) : WalkedTo(k)'
<1>0. /\ LsnType /\ ItemInv /\ KindInv /\ RecordsInv /\ NamedInv
      /\ file \in Seq(Record) /\ Len(file) \in Nat /\ Len(file) > 0 /\ file[1].start = HDR
    BY FileFacts DEF LogInv
<1>1. /\ from' = conf /\ replayed' = <<>> /\ expected' = LogsAfter(conf)
      /\ UNCHANGED <<lsns, file, walSize, conf>> /\ NewRecoveryMngr(conf)
    BY Zenon DEF Restart
<1>2. /\ conf # 0 /\ Clean /\ \E k \in Position(conf) : file[k].cut = 0
      /\ lsns[conf].upto = 0 \/ \E k \in Position(lsns[conf].upto) : file[k].cut = 0
    BY <1>1, Zenon DEF Walkable, Clean, Position, Aligned, Addr
<1>3. conf \in Items /\ lsns[conf].kind = "checkpoint"
    BY <1>0, <1>2, Zenon DEF NamedInv, IsCheckpoint
<1>4. mode' = "walk" /\ currOff' = lsns[conf].redo
    <2>1. PICK k \in 1..Len(file) : file[k].id = conf /\ file[k].cut = 0
        BY <1>2, Zenon DEF Position
    <2>2. file[k].start = Addr(lsns[conf])
        BY <1>2, <2>1, Zenon DEF Clean, Aligned
    <2>3. EndOf(file[k]) = Addr(lsns[conf]) + CHK
        <3>1. lsns[conf].size = CHK
            BY <1>0, <1>3, Zenon DEF KindInv
        <3>2. Addr(lsns[conf]) \in Nat /\ CHK \in Nat
            BY <1>0, <1>3, ItemFacts, Layout
        <3> QED
            BY <2>1, <2>2, <3>1, <3>2, SMTT(60) DEF EndOf
    <2>4. ~(Addr(lsns[conf]) + CHK > walSize)
        <3>1. EndOf(file[k]) \in Nat /\ walSize \in Nat /\ EndOf(file[k]) <= walSize
            BY <1>0, AlignedBehind
        <3> QED
            BY <2>3, <3>1
    <2>5. {j \in RecordAt(Addr(lsns[conf])) : /\ file[j].id = conf
                                              /\ file[j].cut = 0 \/ file[j].cut >= REDOEND} # {}
        BY <2>1, <2>2, Zenon DEF RecordAt
    <2>6. Recover(conf)
        BY <1>1, <1>2, Zenon DEF NewRecoveryMngr
    <2> QED
        BY <2>4, <2>5, <2>6, Zenon DEF Recover
<1>5. ASSUME NEW k \in 0..Len(file), Pos(k) = lsns[conf].redo,
             \A j \in Position(lsns[conf].upto) : j <= k,
             After(conf) \cap (1..k) = {}
      PROVE  WalkedTo(k)'
    <2>1. After(from)' = After(conf)
        BY <1>1 DEF After, Position
    <2>2. expected' = LogsAfter(from)'
        BY <1>1, <2>1 DEF LogsAfter
    <2>3. /\ replayed' \in Seq(Nat) /\ Len(replayed') = 0 /\ 1..Len(replayed') = {}
          /\ Cardinality(After(conf) \cap (1..k)) = 0
        <3>1. Cardinality(After(conf) \cap (1..k)) = 0
            BY <1>5, Zenon DEF Counting
        <3>2. <<>> \in Seq(Nat) /\ Len(<<>>) = 0 /\ 1..0 = {}
            OBVIOUS
        <3> QED
            BY <1>1, <3>1, <3>2, Zenon
    <2>4. Pos(k)' = Pos(k)
        BY <1>1 DEF Pos
    <2>5. Position(lsns[from].upto)' = Position(lsns[conf].upto)
        BY <1>1, Zenon DEF Position
    <2>6. \A j \in 1..Len(replayed') : replayed'[j] = expected'[j]
        BY <2>3
    <2> QED
        BY <1>4, <1>5, <2>1, <2>2, <2>3, <2>4, <2>5, <2>6, Zenon DEF WalkedTo
<1>6. CASE lsns[conf].upto = 0
    <2>1. Position(lsns[conf].upto) = {}
        BY <1>0, <1>6, FileFacts DEF Position, Items
    <2>2. 0 \in 0..Len(file) /\ After(conf) \cap (1..0) = {}
        BY <1>0
    <2>3. Pos(0) = HDR
        BY <1>0 DEF Pos
    <2>4. lsns[conf].redo = HDR
        BY <1>0, <1>3, <1>6, Zenon DEF KindInv
    <2> QED
        BY <1>4, <1>5, <2>1, <2>2, <2>3, <2>4, Zenon
<1>7. CASE lsns[conf].upto # 0
    <2>1. PICK k \in 1..Len(file) : file[k].id = lsns[conf].upto /\ file[k].cut = 0
        BY <1>2, <1>7, Zenon DEF Position
    <2>2. lsns[conf].redo = Addr(lsns[file[k].id]) + lsns[file[k].id].size
        BY <1>0, <1>3, <1>7, <2>1, Zenon DEF ItemInv
    <2>3. EndOf(file[k]) = lsns[conf].redo
        <3>1. file[k].start = Addr(lsns[file[k].id])
            BY <1>2, Zenon DEF Clean, Aligned
        <3>2. file[k].id \in Items
            BY <1>0, FileFacts
        <3>3. Addr(lsns[file[k].id]) \in Nat /\ lsns[file[k].id].size \in Nat
            BY <1>0, <3>2, ItemFacts
        <3> QED
            BY <2>1, <2>2, <3>1, <3>3, SMTT(60) DEF EndOf
    <2>4. Pos(k) = lsns[conf].redo
        BY <1>2, <2>3, PosIsEnd
    <2>5. ASSUME NEW j \in Position(lsns[conf].upto) PROVE j <= k
        <3>1. j \in 1..Len(file) /\ file[j].id = file[k].id
            BY <2>1 DEF Position
        <3>2. file[j].start = file[k].start
            BY <1>2, <3>1, Zenon DEF Clean, Aligned
        <3>3. j = k
            BY <3>1, <3>2, OneRecord
        <3> QED
            BY <3>3
    <2>6. After(conf) \cap (1..k) = {}
        <3>1. k \in Position(lsns[conf].upto)
            BY <2>1 DEF Position
        <3>2. \A m \in After(conf) : k < m
            BY <1>2, <3>1 DEF After
        <3> QED
            BY <3>2
    <2>7. k \in 0..Len(file)
        OBVIOUS
    <2> QED
        BY <1>4, <1>5, <2>4, <2>5, <2>6, <2>7, Zenon
<1> QED
    BY <1>6, <1>7

\* What the walk has done holds after every step.
LEMMA WalkInvStep == Counting /\ LogInv /\ WalkInv /\ [RecNext]_recAll => WalkInv'
<1> SUFFICES ASSUME Counting, LogInv, WalkInv, [RecNext]_recAll, Walkable'
             PROVE  /\ WalkOver'
                    /\ mode' = "walk" => \E k \in 0..Len(file') : WalkedTo(k)'
    BY Zenon DEF WalkInv
<1>1. CASE mode = "up" /\ Next /\ UNCHANGED recVars
    <2>1. [Next]_vars /\ UNCHANGED <<from, mode, replayed, expected>>
        BY <1>1 DEF recVars
    <2>2. Walkable
        BY <2>1, WalkableBefore
    <2> QED
        BY <1>1, <2>1, <2>2 DEF WalkInv, WalkOver
<1>2. CASE Crash
    BY <1>2 DEF Crash, WalkOver
<1>3. CASE Restart
    <2>1. UNCHANGED file
        BY <1>3, Zenon DEF Restart
    <2> QED
        BY <1>3, <2>1, WalkBegins DEF WalkOver
<1>4. CASE WalkEnd \/ WalkGarbage \/ WalkCheckpoint \/ WalkLog \/ reapplyFails
    <2>1. UNCHANGED <<file, lsns, from>>
        BY <1>4 DEF WalkEnd, WalkGarbage, WalkCheckpoint, WalkLog, reapplyFails, vars
    <2>2. Walkable
        BY <2>1, Zenon DEF Walkable, Position, Aligned, Addr
    <2> QED
        BY <1>4, <2>1, <2>2, WalkStep
<1>5. CASE UNCHANGED recAll
    <2>1. /\ UNCHANGED <<file, lsns, walSize, from>> /\ UNCHANGED <<mode, currOff, replayed, expected>>
        BY <1>5 DEF recAll, vars, recVars
    <2>2. Walkable
        BY <2>1, Zenon DEF Walkable, Position, Aligned, Addr
    <2>3. WalkOver'
        BY <2>1, <2>2, Zenon DEF WalkInv, WalkOver, ReplayedPrefix
    <2>4. ASSUME mode' = "walk" PROVE \E k \in 0..Len(file') : WalkedTo(k)'
        <3>1. PICK k \in 0..Len(file) : WalkedTo(k)
            BY <2>1, <2>2, <2>4, Zenon DEF WalkInv
        <3>2. After(from)' = After(from)
            BY <2>1 DEF After, Position
        <3>3. LogsAfter(from)' = LogsAfter(from)
            BY <2>1, <3>2 DEF LogsAfter
        <3>4. WalkedTo(k)'
            BY <2>1, <3>1, <3>2, <3>3, Zenon DEF WalkedTo, Pos, Position
        <3> QED
            BY <2>1, <3>1, <3>4, Zenon
    <2> QED
        BY <2>3, <2>4
<1> QED
    BY <1>1, <1>2, <1>3, <1>4, <1>5, Zenon DEF RecNext

INSTANCE FiniteSetTheorems

\* The library has the facts about finite sets.
LEMMA CountingHolds == Counting
<1>1. Cardinality({}) = 0
    BY FS_EmptySet
<1>2. \A n \in Nat : IsFiniteSet(1..n)
    BY FS_Interval
<1>3. ASSUME NEW S, NEW T, IsFiniteSet(S), T \subseteq S
      PROVE  /\ IsFiniteSet(T) /\ Cardinality(T) \in Nat /\ Cardinality(T) <= Cardinality(S)
             /\ Cardinality(T) = Cardinality(S) => T = S
    <2>1. IsFiniteSet(T) /\ Cardinality(T) <= Cardinality(S)
        BY <1>3, FS_Subset
    <2>2. Cardinality(T) = Cardinality(S) => T = S
        BY <1>3, FS_Subset
    <2>3. Cardinality(T) \in Nat
        BY <2>1, FS_CardinalityType
    <2> QED
        BY <2>1, <2>2, <2>3, Zenon
<1>4. ASSUME NEW S, NEW x, IsFiniteSet(S), x \notin S
      PROVE  Cardinality(S \cup {x}) = Cardinality(S) + 1
    BY <1>4, FS_AddElement
<1> QED
    BY <1>1, <1>2, <1>3, <1>4, Zenon DEF Counting

\* walkThroughRecovery: on a file that the walk understands, recovery replays every log
\* behind the checkpoint once, in the order of the file, up to one that the tree refuses,
\* however often it was interrupted by another crash, for every size of page and header,
\* every log that fits a page, and every number of clients.
THEOREM RecoveryReplays == RecSpec /\ []AllFit => []WalkableIsRecovered
<1>1. RecInit => WalkInv
    BY DEF RecInit, WalkInv, WalkOver
<1>2. LogInv /\ WalkInv => WalkableIsRecovered
    <2> SUFFICES ASSUME LogInv, WalkInv, Walkable PROVE Recovered
        BY DEF WalkableIsRecovered
    <2>1. CASE mode = "walk"
        <3>1. PICK k \in 0..Len(file) : WalkedTo(k)
            BY <2>1, Zenon DEF WalkInv
        <3>2. ReplayedPrefix
            BY <3>1, WalkedPrefix, CountingHolds
        <3> QED
            BY <2>1, <3>2 DEF Recovered
    <2>2. CASE mode # "walk"
        BY <2>2, Zenon DEF WalkInv, WalkOver, Recovered
    <2> QED
        BY <2>1, <2>2
<1>3. LogInv /\ WalkInv /\ [RecNext]_recAll => WalkInv'
    BY WalkInvStep, CountingHolds, Zenon
<1> QED
    BY LogInvariant, <1>1, <1>2, <1>3, PTL DEF RecSpec, recAll
=============================================================================
