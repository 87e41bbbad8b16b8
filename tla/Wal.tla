-------------------------------- MODULE Wal --------------------------------
(***************************************************************************)
(* The write-ahead log (pkg/wal): LSN assignment, the in-memory buffer,    *)
(* the background writer that appends the buffer to the wal file, the page *)
(* headers inserted in front of or into a record, and checkpoints with the *)
(* config file that names the latest one.                                  *)
(*                                                                         *)
(* Logs and checkpoints are named 1, 2, ... in the order in which they     *)
(* received their LSN; lsns[i] is what assignLSN returned to i.  The wal   *)
(* file is the sequence of the records written to it: where each one       *)
(* starts, and after how many of its bytes a page header was inserted.     *)
(***************************************************************************)
EXTENDS Integers, Sequences, FiniteSets

CONSTANTS Clients,      \* goroutines that log operations
          Sizes,        \* the sizes lSize that a log may have
          MaxItems,     \* bound on the LSNs assigned
          MaxCheckpoints, \* bound on the checkpoints among them
          PAGE,         \* WAL_PAGE_SIZE
          HDR,          \* WAL_PAGE_HEADER_SIZE
          CHK           \* CHECKPOINT_SIZE

ASSUME LayoutAssumption ==
    /\ PAGE \in Nat /\ HDR \in Nat \ {0} /\ CHK \in Nat \ {0}
    /\ HDR + CHK < PAGE
    /\ Sizes \subseteq Nat \ {0}

ASSUME BoundsAssumption == MaxItems \in Nat \ {0} /\ MaxCheckpoints \in Nat

VARIABLES
    maxPage, maxOffset,  \* WalWriter: the LSN that the next log receives
    lsns,                \* the items that received an LSN, in that order
    client,              \* client[c]: the log that c is about to Add, or 0
    buffer,              \* WALBuffer: the items added and not yet taken
    taken,               \* the items that walBgWriter has taken and is writing
    file,                \* the records of the wal file
    walSize,             \* the size of the wal file
    conf,                \* config file: the checkpoint it names, 0 when empty
    cp                   \* progress of AddCheckpoint

vars == <<maxPage, maxOffset, lsns, client, buffer, taken, file, walSize, conf, cp>>

Items == 1..Len(lsns)

\* An item: its kind, its LSN (page, offset, size) and, for a checkpoint, its
\* REDO point and the log that the REDO point follows.
Item == [kind : {"log", "checkpoint"}, page : Nat, off : Nat, size : Nat, redo : Nat,
         upto : Nat]

\* A record of the wal file.
Record == [id : Nat, start : Nat, cut : Nat]

TypeOK ==
    /\ maxPage \in Nat /\ maxOffset \in Nat
    /\ lsns \in Seq(Item)
    /\ client \in [Clients -> Items \cup {0}]
    /\ buffer \in Seq(Items) /\ taken \in Seq(Items)
    /\ file \in Seq(Record)
    /\ walSize \in Nat
    /\ conf \in Items \cup {0}
    /\ cp \in [pc : {"idle", "assigned", "added", "truncated"}, id : Items \cup {0}]

\* The byte that an LSN designates, and the one that the next LSN will.
Addr(l) == l.page * PAGE + l.off

NextAddr == maxPage * PAGE + maxOffset

-----------------------------------------------------------------------------
(* assignLSN, under the writer's mutex.                                    *)

\* Mutation: the page is not advanced when the offset wraps.
Advance_SamePage(size) ==
    /\ maxOffset' = IF maxOffset + size >= PAGE THEN maxOffset + size - PAGE + HDR
                    ELSE maxOffset + size
    /\ maxPage' = maxPage

\* Mutation: > instead of >=.
Advance_Greater(size) ==
    IF maxOffset + size > PAGE
    THEN maxOffset' = maxOffset + size - PAGE + HDR /\ maxPage' = maxPage + 1
    ELSE maxOffset' = maxOffset + size /\ maxPage' = maxPage

Advance(size) ==
    LET newMaxOff == maxOffset + size
    IN  IF newMaxOff >= PAGE
        THEN maxOffset' = (newMaxOff - PAGE) + HDR /\ maxPage' = maxPage + 1
        ELSE maxOffset' = newMaxOff /\ maxPage' = maxPage

assignLSN(kind, size, redo, upto) ==
    /\ Len(lsns) < MaxItems
    /\ lsns' = Append(lsns, [kind |-> kind, page |-> maxPage, off |-> maxOffset,
                             size |-> size, redo |-> redo, upto |-> upto])
    /\ Advance(size)

\* AddPutLog and AddDelLog: the LSN first, under one mutex ...
AddLog(c) ==
    /\ client[c] = 0
    /\ \E size \in Sizes : assignLSN("log", size, 0, 0)
    /\ client' = [client EXCEPT ![c] = Len(lsns) + 1]
    /\ UNCHANGED <<buffer, taken, file, walSize, conf, cp>>

\* ... then WALBuffer.Add, under another.
Add(c) ==
    /\ client[c] # 0
    /\ buffer' = Append(buffer, client[c])
    /\ client' = [client EXCEPT ![c] = 0]
    /\ UNCHANGED <<maxPage, maxOffset, lsns, taken, file, walSize, conf, cp>>

-----------------------------------------------------------------------------
(* AddCheckpoint for a log i that was applied, after its AddPutLog returned. *)

\* Mutation: the REDO point is the position of the log.
RedoPoint_NoSize(i) == Addr(lsns[i])

RedoPoint(i) == Addr(lsns[i]) + lsns[i].size

AddCheckpoint(i) ==
    /\ cp.pc = "idle"
    /\ lsns[i].kind = "log" /\ \A c \in Clients : client[c] # i
    /\ Cardinality({j \in Items : lsns[j].kind = "checkpoint"}) <= MaxCheckpoints
    /\ assignLSN("checkpoint", CHK, RedoPoint(i), i)
    /\ cp' = [pc |-> "assigned", id |-> Len(lsns) + 1]
    /\ UNCHANGED <<client, buffer, taken, file, walSize, conf>>

AddCheckpointRecord ==
    /\ cp.pc = "assigned"
    /\ buffer' = Append(buffer, cp.id)
    /\ cp' = [cp EXCEPT !.pc = "added"]
    /\ UNCHANGED <<maxPage, maxOffset, lsns, client, taken, file, walSize, conf>>

\* saveCheckpoint: Truncate(0), then Write and Sync.
truncateConfig ==
    /\ cp.pc = "added"
    /\ conf' = 0
    /\ cp' = [cp EXCEPT !.pc = "truncated"]
    /\ UNCHANGED <<maxPage, maxOffset, lsns, client, buffer, taken, file, walSize>>

saveCheckpoint ==
    /\ cp.pc = "truncated"
    /\ conf' = cp.id
    /\ cp' = [pc |-> "idle", id |-> 0]
    /\ UNCHANGED <<maxPage, maxOffset, lsns, client, buffer, taken, file, walSize>>

-----------------------------------------------------------------------------
(* walBgWriter: the only caller of BLogWrite.                              *)

\* Mutation: the buffer is reset to its last node instead of to empty.
flushWal_KeepTail ==
    /\ taken = <<>> /\ buffer # <<>>
    /\ taken' = buffer
    /\ buffer' = <<buffer[Len(buffer)]>>
    /\ UNCHANGED <<maxPage, maxOffset, lsns, client, file, walSize, conf, cp>>

\* Mutation: the list is taken from behind its head.
flushWal_DropHead ==
    /\ taken = <<>> /\ buffer # <<>>
    /\ taken' = Tail(buffer)
    /\ buffer' = <<>>
    /\ UNCHANGED <<maxPage, maxOffset, lsns, client, file, walSize, conf, cp>>

\* flushWal: take the list and reset it, under the buffer's mutex.
flushWal ==
    /\ taken = <<>> /\ buffer # <<>>
    /\ taken' = buffer
    /\ buffer' = <<>>
    /\ UNCHANGED <<maxPage, maxOffset, lsns, client, file, walSize, conf, cp>>

\* Mutation: a record that overflows its page gets no header of the next page.
checkLogOverflow_NoHeader(i, at) ==
    LET l == lsns[i]
    IN  IF l.off + l.size < PAGE
        THEN [id |-> i, start |-> at + (IF l.off <= HDR THEN HDR ELSE 0), cut |-> 0]
        ELSE [id |-> i, start |-> at, cut |-> 0]

\* toBytes and checkLogOverflow of item i, appended at position at: a record that
\* ends within its page is preceded by the page header if it is the first one of
\* the page, any other has the header of the next page inserted into it.
checkLogOverflow(i, at) ==
    LET l == lsns[i]
    IN  IF l.off + l.size < PAGE
        THEN [id |-> i, start |-> at + (IF l.off <= HDR THEN HDR ELSE 0), cut |-> 0]
        ELSE [id |-> i, start |-> at, cut |-> PAGE * (l.off \div PAGE + 1) - l.off]

\* checkLogOverflow slices a record at the end of the page, which lies behind the
\* record if its offset is not one of its page.
OutOfRange(i) == checkLogOverflow(i, 0).cut > lsns[i].size

\* The whole list is converted before any of it is written.  The panic ends the
\* process, some time after the list was taken.
Stopped == \E k \in 1..Len(taken) : OutOfRange(taken[k])

EndOf(r) == r.start + lsns[r.id].size + (IF r.cut > 0 THEN HDR ELSE 0)

\* AddJob, run and writeWal for the next record of the taken list.  The list is
\* one Write call; nobody but a crash can tell it from a Write per record.
writeWal ==
    /\ taken # <<>> /\ ~Stopped
    /\ LET r == checkLogOverflow(Head(taken), walSize)
       IN  file' = Append(file, r) /\ walSize' = EndOf(r)
    /\ taken' = Tail(taken)
    /\ UNCHANGED <<maxPage, maxOffset, lsns, client, buffer, conf, cp>>

-----------------------------------------------------------------------------
\* NewWalWriter on an empty file: initializeWriter has written, synced and saved
\* the first checkpoint, whose REDO point is the first byte after the header.
FirstCheckpoint == [kind |-> "checkpoint", page |-> 0, off |-> HDR, size |-> CHK,
                    redo |-> HDR, upto |-> 0]

Init ==
    /\ maxPage = 0 /\ maxOffset = HDR + CHK
    /\ lsns = <<FirstCheckpoint>>
    /\ client = [c \in Clients |-> 0]
    /\ buffer = <<>> /\ taken = <<>>
    /\ file = <<[id |-> 1, start |-> HDR, cut |-> 0]>>
    /\ walSize = HDR + CHK
    /\ conf = 1
    /\ cp = [pc |-> "idle", id |-> 0]

Checkpoint == \/ \E i \in Items : AddCheckpoint(i)
              \/ AddCheckpointRecord \/ truncateConfig \/ saveCheckpoint

Next == \/ \E c \in Clients : AddLog(c) \/ Add(c)
        \/ Checkpoint
        \/ flushWal
        \/ writeWal

Spec == Init /\ [][Next]_vars

\* walBgWriter loops for ever, and a call of AddPutLog or AddDelLog completes.
FairSpec == /\ Spec
            /\ WF_vars(flushWal) /\ WF_vars(writeWal)
            /\ \A c \in Clients : WF_vars(Add(c))

-----------------------------------------------------------------------------
(* Properties.                                                             *)

\* However the clients and the checkpointer interleave, the byte ranges that the
\* LSNs designate are disjoint and ordered as the LSNs were assigned, and the
\* next one lies behind them all.
LsnsDisjoint ==
    /\ \A i, j \in Items : i < j => Addr(lsns[i]) + lsns[i].size <= Addr(lsns[j])
    /\ \A i \in Items : Addr(lsns[i]) + lsns[i].size <= NextAddr

\* The first n items are not larger than what a page holds.  Nothing in the code
\* ensures it: the size of a value is bounded by the 10 MiB of a request only.
Fit(n) == \A i \in 1..n : lsns[i].size <= PAGE - HDR

AllFit == Fit(Len(lsns))

\* assignLSN, checkLogOverflow: no assigned offset points into a page header.  As long
\* as every item so far fits a page, none points behind the end of its page and no
\* record is sliced out of range; the first larger one breaks both.
OffsetInPage ==
    /\ \A i \in Items : /\ HDR <= lsns[i].off
                        /\ Fit(i - 1) => lsns[i].off < PAGE
                        /\ Fit(i) => ~OutOfRange(i)
    /\ HDR <= maxOffset
    /\ AllFit => maxOffset < PAGE

Occurrences(i, s) == {k \in 1..Len(s) : s[k] = i}

\* The buffer is handed over to the background writer while clients add to it:
\* every item is in exactly one place, in the hands of the one who adds it, in
\* the buffer, in the list being written, or in the file.
ItemsConserved ==
    \A i \in Items :
        LET adding == {c \in Clients : client[c] = i}
            inCp == {x \in {cp.id} : cp.pc = "assigned" /\ x = i}
            inBuf == Occurrences(i, buffer)
            inTaken == Occurrences(i, taken)
            inFile == {k \in 1..Len(file) : file[k].id = i}
            places == ({"adding"} \X adding) \cup ({"cp"} \X inCp) \cup ({"buffer"} \X inBuf)
                        \cup ({"taken"} \X inTaken) \cup ({"file"} \X inFile)
        IN  \E p \in places : places = {p}

Aligned(r) == r.start = Addr(lsns[r.id])

\* The LSN that assignLSN gives after l.
LsnEnd(l) == Addr(l) + l.size + (IF l.off + l.size >= PAGE THEN HDR ELSE 0)

\* Records are written in the order of their LSNs, none is missing in between.
InLsnOrder == \A k \in 1..(Len(file) - 1) : Addr(lsns[file[k + 1].id]) = LsnEnd(lsns[file[k].id])

\* The record ends on the last byte of its page.
ExactFit(r) == lsns[r.id].off + lsns[r.id].size = PAGE

NoExactFit == \A k \in 1..(Len(file) - 1) : ~ExactFit(file[k])

\* A record lies in the file at the byte that its LSN designates, as long as the
\* records were added in LSN order and no record but the last one written ended
\* exactly at the end of its page.
AlignedInOrder ==
    InLsnOrder /\ NoExactFit => \A k \in 1..Len(file) : Aligned(file[k])

\* wal_reader.go:22, "Calculates the log offset from the lsn and reads the log size
\* info from the log header": the LSN of every record designates its position.
LsnIsPosition == \A k \in 1..Len(file) : Aligned(file[k])

\* AddCheckpoint computes the REDO point from the LSN of the log alone, before or after
\* the log is written.  Under the same conditions, and if the log lies in one page,
\* it is behind the log and not behind the start of the next record.
RedoBetweenRecords ==
    InLsnOrder /\ NoExactFit =>
        \A i \in Items, k \in 1..Len(file) :
            /\ lsns[i].kind = "checkpoint"
            /\ file[k].id = lsns[i].upto /\ file[k].cut = 0
            => /\ EndOf(file[k]) <= lsns[i].redo
               /\ k < Len(file) => lsns[i].redo <= file[k + 1].start

\* wal.go:263, "calculate offset(REDO point). This should be after the latest applied
\* log": in the file, no byte of that log lies at or behind the REDO point.
RedoAfterLog ==
    \A i \in Items, k \in 1..Len(file) :
        /\ lsns[i].kind = "checkpoint"
        /\ file[k].id = lsns[i].upto
        => EndOf(file[k]) <= lsns[i].redo

\* AddPutLog, AddDelLog, walBgWriter: every log that a client begins to add reaches
\* the file, unless the background writer panics on an item.
EveryLogWritten ==
    \A i \in 1..MaxItems : (i \in Items /\ lsns[i].kind = "log")
                                ~> Stopped \/ \E k \in 1..Len(file) : file[k].id = i
=============================================================================
