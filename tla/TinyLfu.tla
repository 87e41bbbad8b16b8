------------------------------ MODULE TinyLfu ------------------------------
(***************************************************************************)
(* The TinyLFU admission filter (internal/tinylfu): a Bloom filter, the    *)
(* doorkeeper, in front of a count-min sketch.  WTinyLfu.Increment starts  *)
(* a goroutine of IncrementItem for every access to a page.  The bits of   *)
(* the doorkeeper are read one by one, each under its lock; setting all    *)
(* bits of a key, counting a key, and halving and clearing, are one        *)
(* critical section each.                                                  *)
(***************************************************************************)
EXTENDS Integers, FiniteSets, Sequences

CONSTANTS Procs,        \* the goroutines that run at a time
          Keys,
          Bits, Bit,    \* Bit[k]: the sequence of the bits of key k in the doorkeeper
          Rows, Columns,
          Cell,         \* Cell[k][r]: the column of key k in row r of the sketch
          SAMPLE_SIZE,
          MaxAccesses   \* bound on the calls of IncrementItem

\* DoubleHashIndices gives every key at least one index per table.
ASSUME TinyLfuAssumption ==
    /\ IsFiniteSet(Procs) /\ Procs # {}
    /\ Bit \in [Keys -> Seq(Bits)] /\ \A k \in Keys : Bit[k] # <<>>
    /\ Rows # {} /\ Cell \in [Keys -> [Rows -> Columns]]
    /\ SAMPLE_SIZE \in Nat \ {0}
    /\ MaxAccesses \in Nat

VARIABLES
    bitArray,   \* Bloom.bitArray: the bits that are set
    arr,        \* CMS.arr
    op_counter, \* CMS.op_counter
    mu,         \* TinyLFU.mu is held
    proc,       \* the goroutines
    accesses,
    count,      \* history: how often each key was counted, halved with the sketch
    passed,     \* history: the accesses to each key since the last Clear that were not counted
    resets      \* history: the resets since op_counter last reached SAMPLE_SIZE

vars == <<bitArray, arr, op_counter, mu, proc, accesses, count, passed, resets>>

\* i: the bits read so far; exists: none of them was unset; opCount: what
\* CMS.Increment returned.
Proc == [pc : {"idle", "check", "add", "increment", "sample", "clear"}, key : Keys,
         i : Nat, exists : BOOLEAN, opCount : Nat]

TypeOK ==
    /\ bitArray \subseteq Bits
    /\ arr \in [Rows -> [Columns -> Nat]]
    /\ op_counter \in Nat
    /\ mu \in BOOLEAN
    /\ proc \in [Procs -> Proc]
    /\ accesses \in Nat
    /\ count \in [Keys -> Nat]
    /\ passed \in [Keys -> Nat]
    /\ resets \in Nat

\* NewTinyLFU
Init ==
    /\ bitArray = {}
    /\ arr = [r \in Rows |-> [c \in Columns |-> 0]]
    /\ op_counter = 0
    /\ mu = FALSE
    /\ \E k \in Keys :
        proc = [p \in Procs |-> [pc |-> "idle", key |-> k, i |-> 0, exists |-> TRUE, opCount |-> 0]]
    /\ accesses = 0
    /\ count = [k \in Keys |-> 0] /\ passed = [k \in Keys |-> 0] /\ resets = 0

-----------------------------------------------------------------------------

IncrementItem(p, k) ==
    /\ proc[p].pc = "idle"
    /\ accesses < MaxAccesses /\ accesses' = accesses + 1
    /\ proc' = [proc EXCEPT ![p] = [@ EXCEPT !.pc = "check", !.key = k, !.i = 0, !.exists = TRUE]]
    /\ UNCHANGED <<bitArray, arr, op_counter, mu, count, passed, resets>>

\* Bloom.Check: the next bit.  All bits are read, and one that is unset decides.
isSet(p) ==
    LET me == proc[p]
        exists == me.exists /\ Bit[me.key][me.i + 1] \in bitArray
        last == me.i + 1 = Len(Bit[me.key])
    IN  /\ me.pc = "check"
        /\ proc' = [proc EXCEPT ![p] = [@ EXCEPT
                        !.i = me.i + 1, !.exists = exists,
                        !.pc = IF ~last THEN "check" ELSE IF exists THEN "increment" ELSE "add"]]
        /\ UNCHANGED <<bitArray, arr, op_counter, mu, accesses, count, passed, resets>>

\* Mutation: the bits of the key replace the others.
setBit_Overwrite(p) ==
    LET k == proc[p].key
    IN  /\ proc[p].pc = "add"
        /\ bitArray' = {Bit[k][i] : i \in 1..Len(Bit[k])}
        /\ passed' = [passed EXCEPT ![k] = @ + 1]
        /\ proc' = [proc EXCEPT ![p].pc = "idle"]
        /\ UNCHANGED <<arr, op_counter, mu, accesses, count, resets>>

\* Bloom.Add
setBit(p) ==
    LET k == proc[p].key
    IN  /\ proc[p].pc = "add"
        /\ bitArray' = bitArray \cup {Bit[k][i] : i \in 1..Len(Bit[k])}
        /\ passed' = [passed EXCEPT ![k] = @ + 1]
        /\ proc' = [proc EXCEPT ![p].pc = "idle"]
        /\ UNCHANGED <<arr, op_counter, mu, accesses, count, resets>>

\* Mutation: one index serves all rows.
Increment_OneIndex(p) ==
    LET k == proc[p].key
        col == Cell[k][CHOOSE r \in Rows : TRUE]
    IN  /\ proc[p].pc = "increment"
        /\ arr' = [r \in Rows |-> [c \in Columns |-> IF c = col THEN arr[r][c] + 1 ELSE arr[r][c]]]
        /\ op_counter' = op_counter + 1
        /\ proc' = [proc EXCEPT ![p] = [@ EXCEPT !.pc = "sample", !.opCount = op_counter + 1]]
        /\ count' = [count EXCEPT ![k] = @ + 1]
        /\ resets' = IF op_counter + 1 = SAMPLE_SIZE THEN 0 ELSE resets
        /\ UNCHANGED <<bitArray, mu, accesses, passed>>

\* CMS.Increment
Increment(p) ==
    LET k == proc[p].key
    IN  /\ proc[p].pc = "increment"
        /\ arr' = [r \in Rows |-> [c \in Columns |-> IF c = Cell[k][r] THEN arr[r][c] + 1 ELSE arr[r][c]]]
        /\ op_counter' = op_counter + 1
        /\ proc' = [proc EXCEPT ![p] = [@ EXCEPT !.pc = "sample", !.opCount = op_counter + 1]]
        /\ count' = [count EXCEPT ![k] = @ + 1]
        /\ resets' = IF op_counter + 1 = SAMPLE_SIZE THEN 0 ELSE resets
        /\ UNCHANGED <<bitArray, mu, accesses, passed>>

\* The sample is not full: TinyLFU.mu is taken and given back.
Sampled(p) ==
    /\ proc[p].pc = "sample" /\ ~mu
    /\ proc[p].opCount < SAMPLE_SIZE
    /\ proc' = [proc EXCEPT ![p].pc = "idle"]
    /\ UNCHANGED <<bitArray, arr, op_counter, mu, accesses, count, passed, resets>>

\* Mutation: the counter of operations is not reset.
reset_KeepCounter(p) ==
    /\ proc[p].pc = "sample" /\ ~mu
    /\ proc[p].opCount >= SAMPLE_SIZE
    /\ mu' = TRUE
    /\ arr' = [r \in Rows |-> [c \in Columns |-> arr[r][c] \div 2]]
    /\ proc' = [proc EXCEPT ![p].pc = "clear"]
    /\ count' = [k \in Keys |-> count[k] \div 2]
    /\ resets' = resets + 1
    /\ UNCHANGED <<bitArray, op_counter, accesses, passed>>

\* CMS.reset: every counter is halved, row by row, under the lock of the sketch.
reset(p) ==
    /\ proc[p].pc = "sample" /\ ~mu
    /\ proc[p].opCount >= SAMPLE_SIZE
    /\ mu' = TRUE
    /\ arr' = [r \in Rows |-> [c \in Columns |-> arr[r][c] \div 2]]
    /\ op_counter' = 0
    /\ proc' = [proc EXCEPT ![p].pc = "clear"]
    /\ count' = [k \in Keys |-> count[k] \div 2]
    /\ resets' = resets + 1
    /\ UNCHANGED <<bitArray, accesses, passed>>

\* Bloom.Clear, and TinyLFU.mu is given back.
Clear(p) ==
    /\ proc[p].pc = "clear"
    /\ bitArray' = {}
    /\ passed' = [k \in Keys |-> 0]
    /\ mu' = FALSE
    /\ proc' = [proc EXCEPT ![p].pc = "idle"]
    /\ UNCHANGED <<arr, op_counter, accesses, count, resets>>

\* CMS.GetCount reads all counters of a key under the lock: the smallest one, as
\* a set of one element.
GetCount(k) ==
    LET counters == {arr[r][Cell[k][r]] : r \in Rows}
    IN  {n \in counters : \A m \in counters : n <= m}

Step(p) == isSet(p) \/ setBit(p) \/ Increment(p) \/ Sampled(p) \/ reset(p) \/ Clear(p)

Next == \E p \in Procs : Step(p) \/ \E k \in Keys : IncrementItem(p, k)

Spec == Init /\ [][Next]_vars

-----------------------------------------------------------------------------
(* Properties                                                              *)

\* CMS.Increment, reset and GetCount: however keys collide and goroutines
\* interleave, the count of a key is never below the number of times it was
\* counted, halved as often as the sketch.
NeverUnderestimates == \A k \in Keys : \A n \in GetCount(k) : count[k] <= n

\* Bloom.Check and Add are two steps, and Clear may come between: still, from one
\* Clear to the next, no key passes the doorkeeper uncounted more often than
\* there are goroutines at a time.
FirstAccessesBounded == \A k \in Keys : passed[k] <= Cardinality(Procs)

\* Increment and reset are under different locks: goroutines count on while one
\* is about to reset, but the sample exceeds its size by less than their number.
SampleBounded == op_counter < SAMPLE_SIZE + Cardinality(Procs)

\* Goroutines that find the sample full at the same time each reset the sketch:
\* one sample halves the counters at most once per goroutine.
ResetsBounded == resets <= Cardinality(Procs)
=============================================================================
