------------------------------ MODULE Recovery ------------------------------
(***************************************************************************)
(* The write-ahead log across crashes, and the recovery manager            *)
(* (pkg/recovery): a restart computes the next LSN from the size of the    *)
(* wal file, reads the checkpoint that the config file names, and walks    *)
(* the log from its REDO point, replaying every log it meets into the tree *)
(* (module BTree), whose calls may fail.  The comments of recovery.go have *)
(* it replay only the logs that are newer than their page; that comparison *)
(* is commented out.                                                       *)
(*                                                                         *)
(* What the walk reads at a position where no record starts, or when it    *)
(* cuts the page header out at the wrong place, is "garbage": the model    *)
(* says nothing about what the code does from there.                       *)
(***************************************************************************)
EXTENDS Wal

CONSTANTS LOGHDR,      \* BLOG_HEADER_SIZE
          REDOEND,     \* the end of the REDO point within a checkpoint
          MaxCrashes   \* bound on the crashes

ASSUME RecoveryAssumption ==
    /\ LOGHDR \in Nat /\ REDOEND \in 1..CHK /\ CHK < LOGHDR
    /\ \A size \in Sizes : LOGHDR < size
    /\ MaxCrashes \in Nat

VARIABLES mode,       \* up, down (crashed), walk (recovering), failed (the tree did not take a log),
                      \* panic or garbage
          currOff,    \* the position of the walk
          replayed,   \* the logs replayed by the last recovery
          from,       \* the checkpoint it started from, 0 when there was none
          expected,   \* the logs that it had to replay
          crashes

recVars == <<mode, currOff, replayed, from, expected, crashes>>

RecTypeOK ==
    /\ TypeOK
    /\ mode \in {"up", "down", "walk", "failed", "panic", "garbage"}
    /\ currOff \in Nat
    /\ replayed \in Seq(Items) /\ expected \in Seq(Items)
    /\ from \in Items \cup {0}
    /\ crashes \in 0..MaxCrashes

RecInit == /\ Init
           /\ mode = "up" /\ currOff = 0
           /\ replayed = <<>> /\ expected = <<>> /\ from = 1
           /\ crashes = 0

-----------------------------------------------------------------------------
\* The process or the machine stops: memory is lost, and so is any part of the
\* wal file behind the first checkpoint, the only part of it that is synced.
Crash ==
    /\ mode \in {"up", "walk", "failed"}
    /\ crashes < MaxCrashes
    /\ crashes' = crashes + 1
    /\ mode' = "down"
    /\ \E n \in 1..Len(file) : file' = SubSeq(file, 1, n) /\ walSize' = EndOf(file[n])
    /\ client' = [c \in Clients |-> 0]
    /\ buffer' = <<>> /\ taken' = <<>>
    /\ cp' = [pc |-> "idle", id |-> 0]
    /\ UNCHANGED <<maxPage, maxOffset, lsns, conf, currOff, replayed, from, expected>>

RecordAt(off) == {k \in 1..Len(file) : file[k].start = off}

Position(i) == {k \in 1..Len(file) : file[k].id = i}

\* The jth smallest number of S.
Nth(S, j) == CHOOSE k \in S : Cardinality({m \in S : m <= k}) = j

\* The positions of the logs behind the one that checkpoint i names (of all, if none).
After(i) ==
    LET first == IF i = 0 THEN {} ELSE Position(lsns[i].upto)
    IN  {k \in 1..Len(file) : /\ lsns[file[k].id].kind = "log"
                              /\ \A j \in first : j < k}

\* These logs, in the order of the file.
LogsAfter(i) == [j \in 1..Cardinality(After(i)) |-> file[Nth(After(i), j)].id]

\* Recover up to the walk: read the checkpoint record i at its LSN, and its REDO point.
Recover(i) ==
    LET at == Addr(lsns[i])
        intact == {k \in RecordAt(at) : /\ file[k].id = i
                                        /\ file[k].cut = 0 \/ file[k].cut >= REDOEND}
    IN  IF at + CHK > walSize THEN mode' = "panic" /\ currOff' = 0
        ELSE IF intact = {} THEN mode' = "garbage" /\ currOff' = 0
        ELSE mode' = "walk" /\ currOff' = lsns[i].redo

\* The LSN of checkpoint i is read from the config file.  No LSN there: nothing to
\* recover.
NewRecoveryMngr(i) == IF i = 0 THEN mode' = "up" /\ currOff' = 0 ELSE Recover(i)

\* Mutation: the next LSN is not read back from the size of the file.
Restart_KeepLSN ==
    /\ mode = "down"
    /\ maxPage' = 0 /\ maxOffset' = HDR + CHK
    /\ NewRecoveryMngr(conf)
    /\ from' = conf
    /\ replayed' = <<>>
    /\ expected' = LogsAfter(conf)
    /\ UNCHANGED <<lsns, client, buffer, taken, file, walSize, conf, cp, crashes>>

\* main: NewWal (loadMaxLSN), then recovery.
Restart ==
    /\ mode = "down"
    /\ maxPage' = walSize \div PAGE /\ maxOffset' = walSize % PAGE
    /\ NewRecoveryMngr(conf)
    /\ from' = conf
    /\ replayed' = <<>>
    /\ expected' = LogsAfter(conf)
    /\ UNCHANGED <<lsns, client, buffer, taken, file, walSize, conf, cp, crashes>>

-----------------------------------------------------------------------------
(* walkThroughRecovery.                                                    *)

IsMultipage(start, end) == start \div PAGE # end \div PAGE

\* readLogHeader reads the header of the record at currOff.  Its buffer is longer
\* by a page header when the header crosses a page.
HeaderEnd == currOff + LOGHDR + (IF IsMultipage(currOff, currOff + LOGHDR) THEN HDR ELSE 0)

\* The page header is where readLogHeader cuts it out, or behind the log header.
HeaderReadable(r) ==
    IF IsMultipage(currOff, currOff + LOGHDR)
    THEN r.cut = PAGE * (currOff \div PAGE + 1) - currOff
    ELSE r.cut = 0 \/ r.cut >= LOGHDR

\* readFullLog: where the log ends, and where the page header is cut out of it
\* (idx is unsigned: behind the first page the subtraction wraps and the slice
\* expression panics).
LogEnd(size) == currOff + size + (IF IsMultipage(currOff, currOff + size) THEN HDR ELSE 0)

CutPanics(size) == IsMultipage(currOff, currOff + size) /\ currOff > PAGE

LogReadable(r, size) ==
    r.cut = (IF IsMultipage(currOff, currOff + size) THEN PAGE - currOff ELSE 0)

\* io.EOF in readLogHeader ends the walk, as does the end of the file.
WalkEnd ==
    /\ mode = "walk"
    /\ currOff >= walSize \/ HeaderEnd > walSize
    /\ mode' = "up"
    /\ UNCHANGED vars
    /\ UNCHANGED <<currOff, replayed, from, expected, crashes>>

WalkGarbage ==
    /\ mode = "walk"
    /\ currOff < walSize /\ HeaderEnd <= walSize
    /\ \A k \in RecordAt(currOff) :
            lsns[file[k].id].kind = "log" /\ ~HeaderReadable(file[k])
    /\ mode' = "garbage"
    /\ UNCHANGED vars
    /\ UNCHANGED <<currOff, replayed, from, expected, crashes>>

\* A checkpoint is skipped.
WalkCheckpoint ==
    /\ mode = "walk"
    /\ currOff < walSize /\ HeaderEnd <= walSize
    /\ \E k \in RecordAt(currOff) : lsns[file[k].id].kind = "checkpoint"
    /\ currOff' = currOff + CHK
    /\ UNCHANGED vars
    /\ UNCHANGED <<mode, replayed, from, expected, crashes>>

\* Mutation: the page header inside a log is not skipped.
WalkLog_NoSkip ==
    /\ mode = "walk"
    /\ currOff < walSize /\ HeaderEnd <= walSize
    /\ \E k \in RecordAt(currOff) :
        LET r == file[k]
            l == lsns[r.id]
        IN  /\ l.kind = "log" /\ HeaderReadable(r)
            /\ replayed' = Append(replayed, r.id)
            /\ currOff' = currOff + l.size
            /\ mode' = mode
    /\ UNCHANGED vars
    /\ UNCHANGED <<from, expected, crashes>>

\* A log is read in full and replayed (reapplyLog), whatever the LSN of its page.
WalkLog ==
    /\ mode = "walk"
    /\ currOff < walSize /\ HeaderEnd <= walSize
    /\ \E k \in RecordAt(currOff) :
        LET r == file[k]
            l == lsns[r.id]
        IN  /\ l.kind = "log" /\ HeaderReadable(r)
            /\ IF LogEnd(l.size) > walSize \/ CutPanics(l.size)
               THEN mode' = "panic" /\ UNCHANGED <<currOff, replayed>>
               ELSE IF ~LogReadable(r, l.size)
               THEN mode' = "garbage" /\ UNCHANGED <<currOff, replayed>>
               ELSE /\ replayed' = Append(replayed, r.id)
                    /\ currOff' = LogEnd(l.size)
                    /\ mode' = mode
    /\ UNCHANGED vars
    /\ UNCHANGED <<from, expected, crashes>>

\* reapplyLog panics: InsertValue or DeleteValue returned an error (a DELETE on a tree
\* without a root, a page that cannot be read).  The process ends.
reapplyFails ==
    /\ mode = "walk"
    /\ currOff < walSize /\ HeaderEnd <= walSize
    /\ \E k \in RecordAt(currOff) :
        LET r == file[k]
            l == lsns[r.id]
        IN  /\ l.kind = "log" /\ HeaderReadable(r)
            /\ LogEnd(l.size) <= walSize /\ ~CutPanics(l.size) /\ LogReadable(r, l.size)
    /\ mode' = "failed"
    /\ UNCHANGED vars
    /\ UNCHANGED <<currOff, replayed, from, expected, crashes>>

\* Requests are served, and checkpoints made, once recovery is over.
RecNext == \/ mode = "up" /\ Next /\ UNCHANGED recVars
           \/ Crash \/ Restart
           \/ WalkEnd \/ WalkGarbage \/ WalkCheckpoint \/ WalkLog \/ reapplyFails

RecSpec == RecInit /\ [][RecNext]_<<vars, recVars>>

-----------------------------------------------------------------------------
(* Properties.                                                             *)

\* What was replayed is a prefix of what has to be.
ReplayedPrefix ==
    /\ Len(replayed) <= Len(expected)
    /\ \A j \in 1..Len(replayed) : replayed[j] = expected[j]

\* The last recovery has read what is in the file.  It replays exactly the logs
\* it has to, in the order of the file, up to one that the tree does not take.
Recovered ==
    /\ mode \notin {"panic", "garbage"}
    /\ mode \in {"walk", "failed"} => ReplayedPrefix
    /\ mode = "up" => replayed = expected

\* The walk understands the file: the checkpoint it starts from is there and
\* neither it nor the log before its REDO point crosses a page; no checkpoint
\* crosses a page, no log does behind the first page; records are at their LSNs.
Walkable ==
    /\ from # 0
    /\ \E k \in Position(from) : file[k].cut = 0
    /\ lsns[from].upto = 0 \/ \E k \in Position(lsns[from].upto) : file[k].cut = 0
    /\ \A k \in 1..Len(file) :
        /\ Aligned(file[k])
        /\ file[k].cut > 0 => lsns[file[k].id].kind = "log" /\ file[k].start < PAGE

\* walkThroughRecovery, readLogHeader, readFullLog: on such a file the walk reads every
\* record as what it is, and replays every log behind the checkpoint once and in order,
\* whatever the LSN of its page, however often it is interrupted by another crash; when
\* the tree refuses a log (reapplyLog panics) it has replayed the logs before that one
\* and no other, and the next restart begins again.
WalkableIsRecovered == Walkable => Recovered

\* The next LSN lies behind those of all records in the file.
LsnsBehind == \A k \in 1..Len(file) :
                    Addr(lsns[file[k].id]) + lsns[file[k].id].size <= NextAddr

\* The LSN that a restart takes from the size of the file continues those in the
\* file, whatever was lost in the crash, as long as the records were added in LSN
\* order and none but the last ended exactly at the end of its page.
LsnsContinue == mode # "down" /\ InLsnOrder /\ NoExactFit => LsnsBehind

\* recovery.go:56, "Reads the logs in WAL, from the REDO point, compares page LSNs with
\* LSN in WAL and reapplies the missing logs."
RecoverReappliesLogs == Recovered

\* wal_writer.go:300, "Reads wal file and calculates tha max LSN from the size of the
\* file": after a restart the next LSN lies behind those of all records in the file.
MaxLsnFromSize == mode # "down" => LsnsBehind

\* wal.go:28, "bb_config file stores LSN of latest checkpoint": once a restart has
\* begun, the wal file holds the checkpoint that the config file names.
CheckpointInWal == mode # "up" => conf # 0 /\ Position(conf) # {}
=============================================================================
