--------------------------- MODULE CircularBuffer ---------------------------
(***************************************************************************)
(* The circular buffer of audio samples of pjmedia (circbuf.h).            *)
(*                                                                         *)
(* An operation is one action, except packing, which rolls the samples to  *)
(* the left through the gap between their two regions: each turn of its    *)
(* loop is a step, between which the samples lie where neither the fields  *)
(* of the buffer before nor those after say.  A call that is refused       *)
(* (PJ_ETOOBIG) changes nothing and is no action.                          *)
(***************************************************************************)
EXTENDS Integers

CONSTANTS
    Sample,         \* what a sample may be
    Capacity        \* of the buffer, in samples

ASSUME SampleAssumption == Sample # {}
ASSUME CapacityAssumption == Capacity \in Nat \ {0}

VARIABLES
    buf,            \* the memory
    start,          \* where the first sample is
    len,            \* the number of samples
    pc,             \* where pack_buffer is
    reg,            \* its two regions: n1 samples from at, n2 from 0
    gap,            \* its gap
    io              \* the samples the last call took from its caller or gave

fields == <<start, len>>
locals == <<reg, gap>>
vars == <<buf, fields, pc, locals, io>>

Slots == 0 .. Capacity - 1
Counts == 0 .. Capacity
Regions == [at : Counts, n1 : Counts, n2 : Counts]
NoSamples == [i \in 0 .. -1 |-> 0]

BufferTypeOK ==
    /\ buf \in [Slots -> Sample]
    /\ start \in Slots
    /\ len \in Counts
    /\ pc \in {"idle", "roll", "shift"}
    /\ reg \in Regions
    /\ gap \in Counts
    /\ \E n \in Counts : io \in [0 .. n - 1 -> Sample]

\* The locals of pack_buffer while it does not run.
NoRegions == [at |-> 0, n1 |-> 0, n2 |-> 0]

\* A new buffer is zeroed, with a zero among the samples.
Init ==
    /\ \E zero \in Sample : buf = [k \in Slots |-> zero]
    /\ start = 0
    /\ len = 0
    /\ pc = "idle"
    /\ reg = NoRegions
    /\ gap = 0
    /\ io = NoSamples

-----------------------------------------------------------------------------
(* Regions *)

ReadRegions ==
    IF start + len > Capacity
    THEN [at |-> start, n1 |-> Capacity - start, n2 |-> len - (Capacity - start)]
    ELSE [at |-> start, n1 |-> len, n2 |-> 0]

\* Mutant: the second region is as long as if the first were full.
WriteRegionsShort ==
    LET end == start + len
        at == IF end >= Capacity THEN end - Capacity ELSE end
    IN  IF at + (Capacity - len) > Capacity
        THEN [at |-> at, n1 |-> Capacity - at, n2 |-> Capacity - len - start]
        ELSE [at |-> at, n1 |-> Capacity - len, n2 |-> 0]

WriteRegions ==
    LET end == start + len
        at == IF end >= Capacity THEN end - Capacity ELSE end
    IN  IF at + (Capacity - len) > Capacity
        THEN [at |-> at, n1 |-> Capacity - at, n2 |-> start]
        ELSE [at |-> at, n1 |-> Capacity - len, n2 |-> 0]

\* The sample with index i of those in two regions.
Nth(r, i) == IF i < r.n1 THEN buf[r.at + i] ELSE buf[i - r.n1]

\* The first n samples of two regions replaced by those of a caller.
Overwritten(r, data, n) ==
    [k \in Slots |->
        IF k >= r.at /\ k - r.at < r.n1 /\ k - r.at < n THEN data[k - r.at]
        ELSE IF k < r.n2 /\ k + r.n1 < n THEN data[k + r.n1]
        ELSE buf[k]]

\* A block of n samples moved within a memory.
Moved(mem, to, from, n) ==
    [k \in Slots |-> IF k >= to /\ k < to + n THEN mem[k - to + from] ELSE mem[k]]

-----------------------------------------------------------------------------
(* Operations *)

\* adv_read_ptr: an empty buffer starts anew.
Advanced(n) ==
    /\ len' = IF n >= len THEN 0 ELSE len - n
    /\ start' = IF n >= len THEN 0
                ELSE IF start + n >= Capacity THEN start + n - Capacity
                ELSE start + n

Reset ==
    /\ pc = "idle"
    /\ start' = 0
    /\ len' = 0
    /\ UNCHANGED <<buf, pc, locals, io>>

SetLen(n) ==
    /\ pc = "idle"
    /\ len' = n
    /\ UNCHANGED <<buf, start, pc, locals, io>>

AdvanceRead(n) ==
    /\ pc = "idle"
    /\ Advanced(n)
    /\ UNCHANGED <<buf, pc, locals, io>>

AdvanceWrite(n) ==
    /\ pc = "idle"
    /\ n + len <= Capacity
    /\ len' = len + n
    /\ UNCHANGED <<buf, start, pc, locals, io>>

\* A caller of get_write_regions fills what they give it.
FillRegions(n) ==
    /\ pc = "idle"
    /\ n <= Capacity - len
    /\ \E data \in [0 .. n - 1 -> Sample] : buf' = Overwritten(WriteRegions, data, n)
    /\ UNCHANGED <<fields, pc, locals, io>>

\* Mutant: the pointer to the first sample is not wrapped.
ReadUnwrapped(n) ==
    /\ pc = "idle"
    /\ n <= len
    /\ io' = [i \in 0 .. n - 1 |-> Nth(ReadRegions, i)]
    /\ len' = len - n
    /\ start' = start + n
    /\ UNCHANGED <<buf, pc, locals>>

Read(n) ==
    /\ pc = "idle"
    /\ n <= len
    /\ io' = [i \in 0 .. n - 1 |-> Nth(ReadRegions, i)]
    /\ Advanced(n)
    /\ UNCHANGED <<buf, pc, locals>>

Write(n) ==
    /\ pc = "idle"
    /\ n <= Capacity - len
    /\ io' \in [0 .. n - 1 -> Sample]
    /\ buf' = Overwritten(WriteRegions, io', n)
    /\ len' = len + n
    /\ UNCHANGED <<start, pc, locals>>

Copy(first, n) ==
    /\ pc = "idle"
    /\ n + first <= len
    /\ io' = [i \in 0 .. n - 1 |-> Nth(ReadRegions, first + i)]
    /\ UNCHANGED <<buf, fields, pc, locals>>

\* Mutant: the check for a gap is missing.
PackStartUnchecked ==
    /\ pc = "idle"
    /\ reg' = ReadRegions
    /\ gap' = Capacity - len
    /\ pc' = IF reg'.n2 # 0 THEN "roll" ELSE "shift"
    /\ UNCHANGED <<buf, fields, io>>

\* Mutant: the samples in the buffer do not count against the gap.
PackStartAsEmpty ==
    /\ pc = "idle"
    /\ reg' = ReadRegions
    /\ gap' = Capacity
    /\ pc' = IF reg'.n2 # 0 THEN "roll" ELSE "shift"
    /\ UNCHANGED <<buf, fields, io>>

\* Samples in two regions need a gap to roll through.
PackStart ==
    /\ pc = "idle"
    /\ reg' = ReadRegions
    /\ gap' = Capacity - len
    /\ reg'.n2 # 0 => gap' # 0
    /\ pc' = IF reg'.n2 # 0 THEN "roll" ELSE "shift"
    /\ UNCHANGED <<buf, fields, io>>

\* Mutant: what is left of the second region is not moved up.
PackRollLeavesRest ==
    LET g == IF gap > reg.n2 THEN reg.n2 ELSE gap
        moved == Moved(buf, reg.at - g, reg.at, reg.n1)
    IN  /\ pc = "roll"
        /\ gap' = g
        /\ buf' = Moved(moved, reg.at + reg.n1 - g, 0, g)
        /\ reg' = [at |-> reg.at - g, n1 |-> reg.n1 + g, n2 |-> reg.n2 - g]
        /\ pc' = IF reg'.n2 > 0 THEN "roll" ELSE "shift"
        /\ UNCHANGED <<fields, io>>

\* One turn of the loop: the first region moves left by the gap, the head of
\* the second is copied behind it, the rest of the second moves up.
PackRoll ==
    LET g == IF gap > reg.n2 THEN reg.n2 ELSE gap
        moved == Moved(buf, reg.at - g, reg.at, reg.n1)
        copied == Moved(moved, reg.at + reg.n1 - g, 0, g)
    IN  /\ pc = "roll"
        /\ gap' = g
        /\ buf' = Moved(copied, 0, g, reg.n2 - g)
        /\ reg' = [at |-> reg.at - g, n1 |-> reg.n1 + g, n2 |-> reg.n2 - g]
        /\ pc' = IF reg'.n2 > 0 THEN "roll" ELSE "shift"
        /\ UNCHANGED <<fields, io>>

\* The samples, in one region now, move to the left edge.
PackShift ==
    /\ pc = "shift"
    /\ buf' = Moved(buf, 0, reg.at, len)
    /\ start' = 0
    /\ pc' = "idle"
    /\ reg' = NoRegions
    /\ gap' = 0
    /\ UNCHANGED <<len, io>>

Pack == PackRoll \/ PackShift

Next ==
    \/ Reset
    \/ \E n \in Counts :
        \/ SetLen(n) \/ AdvanceRead(n) \/ AdvanceWrite(n) \/ FillRegions(n)
        \/ Read(n) \/ Write(n)
        \/ \E first \in Counts : Copy(first, n)
    \/ PackStart
    \/ Pack

Spec == Init /\ [][Next]_vars /\ WF_vars(Pack)

-----------------------------------------------------------------------------
(* Properties *)

SlotsOf(r) == {k \in Slots : (k >= r.at /\ k - r.at < r.n1) \/ k < r.n2}

\* The regions that are given out to be read and to be written share the
\* memory among them, at every length and every start: a caller filling the
\* one does not touch the other ("reg1_len + reg2_len == capacity - len" of
\* the checks that are compiled out).
RegionsPartition ==
    /\ SlotsOf(ReadRegions) \cup SlotsOf(WriteRegions) = Slots
    /\ SlotsOf(ReadRegions) \cap SlotsOf(WriteRegions) = {}
    /\ ReadRegions.n1 + ReadRegions.n2 = len
    /\ WriteRegions.n1 + WriteRegions.n2 = Capacity - len

\* Rolling stays in the memory, and pjmedia_copy_samples, a memcpy, is never
\* given a destination that overlaps its source.
RollIsSound ==
    pc = "roll" =>
        LET g == IF gap > reg.n2 THEN reg.n2 ELSE gap
        IN  /\ reg.at - g >= reg.n2
            /\ reg.at + reg.n1 <= Capacity
            /\ reg.at + reg.n1 - g >= g

\* The samples, wherever they are.
Content == [i \in 0 .. len - 1 |-> Nth(IF pc = "idle" THEN ReadRegions ELSE reg, i)]

Queue == INSTANCE SampleQueue WITH content <- Content

\* The buffer is a queue: what is read is what was written, in that order,
\* across the end of the memory and through packing.
ImplementsQueue == Queue!QueueSpec

\* The loop of pack_buffer ends: its gap is never empty.
PackEnds == pc = "roll" ~> pc = "idle"
=============================================================================
