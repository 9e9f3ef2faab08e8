------------------------ MODULE CircularBufferProofs ------------------------
(***************************************************************************)
(* Proofs about CircularBuffer, for every capacity and every set of        *)
(* samples: its regions share the memory, rolling stays in it, and the     *)
(* buffer implements the queue.                                            *)
(***************************************************************************)
EXTENDS CircularBuffer, TLAPS

(***************************************************************************)
(* The inductive invariant: while samples are rolled the first region ends *)
(* where the memory does, and the gap fits between the second and it.      *)
(***************************************************************************)
Rolling ==
    /\ pc # "idle" => reg.n1 + reg.n2 = len
    /\ pc = "roll" => /\ reg.at + reg.n1 = Capacity
                      /\ reg.n2 > 0
                      /\ gap > 0
                      /\ gap <= Capacity - len
    /\ pc = "shift" => reg.n2 = 0 /\ reg.at + reg.n1 <= Capacity

IInv == BufferTypeOK /\ Rolling

Slot(s, i) == IF s + i >= Capacity THEN s + i - Capacity ELSE s + i

-----------------------------------------------------------------------------
(* Lemmas *)

\* Changed memories are memories.
LEMMA MovedType ==
  ASSUME NEW mem \in [Slots -> Sample], NEW to \in Nat, NEW from \in Nat, NEW n \in Nat,
         from + n <= Capacity
  PROVE  Moved(mem, to, from, n) \in [Slots -> Sample]
  BY CapacityAssumption DEF Moved, Slots

LEMMA OverwrittenType ==
  ASSUME BufferTypeOK, NEW n \in Counts, NEW data \in [0 .. n - 1 -> Sample]
  PROVE  Overwritten(WriteRegions, data, n) \in [Slots -> Sample]
  <1> DEFINE r == WriteRegions
  <1>1. r \in [at : Int, n1 : Int, n2 : Int]
    BY CapacityAssumption DEF BufferTypeOK, WriteRegions, Slots, Counts
  <1>2. ASSUME NEW k \in Slots
        PROVE  (IF k >= r.at /\ k - r.at < r.n1 /\ k - r.at < n THEN data[k - r.at]
                ELSE IF k < r.n2 /\ k + r.n1 < n THEN data[k + r.n1]
                ELSE buf[k]) \in Sample
    <2>1. r.n1 >= 0
      BY CapacityAssumption DEF BufferTypeOK, WriteRegions, Slots, Counts
    <2> HIDE DEF r
    <2> QED
      BY <1>1, <2>1, CapacityAssumption DEF BufferTypeOK, Slots, Counts
  <1> QED
    BY <1>2 DEF Overwritten

\* The slot of a sample, in the first region or in the second.
LEMMA SlotInRegions ==
  ASSUME NEW s \in Slots, NEW l \in Counts, NEW i \in 0 .. l - 1
  PROVE  /\ s + l > Capacity =>
                Slot(s, i) = IF i < Capacity - s THEN s + i ELSE i - (Capacity - s)
         /\ ~(s + l > Capacity) => Slot(s, i) = s + i /\ i < l
  BY CapacityAssumption DEF Slot, Slots, Counts

\* While nothing is rolled the samples follow each other around the memory.
LEMMA ContentInSlots ==
  ASSUME BufferTypeOK, pc = "idle"
  PROVE  Content = [i \in 0 .. len - 1 |-> buf[Slot(start, i)]]
  <1>1. \A i \in 0 .. len - 1 : Nth(ReadRegions, i) = buf[Slot(start, i)]
    BY SlotInRegions DEF Nth, ReadRegions, BufferTypeOK
  <1> QED
    BY <1>1 DEF Content

\* The same of the next state.
LEMMA ContentInSlotsNext ==
  ASSUME BufferTypeOK', pc' = "idle"
  PROVE  Content' = [i \in 0 .. len' - 1 |-> buf'[Slot(start', i)]]
  <1> DEFINE r == IF start' + len' > Capacity
                  THEN [at |-> start', n1 |-> Capacity - start',
                        n2 |-> len' - (Capacity - start')]
                  ELSE [at |-> start', n1 |-> len', n2 |-> 0]
  <1>1. Content' = [i \in 0 .. len' - 1 |-> IF i < r.n1 THEN buf'[r.at + i]
                                            ELSE buf'[i - r.n1]]
    BY DEF Content, Nth, ReadRegions
  <1>2. start' \in Slots /\ len' \in Counts
    BY DEF BufferTypeOK
  <1>3. ASSUME NEW i \in 0 .. len' - 1
        PROVE  buf'[Slot(start', i)] = IF i < r.n1 THEN buf'[r.at + i] ELSE buf'[i - r.n1]
    BY <1>2, SlotInRegions
  <1> HIDE DEF r
  <1> QED
    BY <1>1, <1>3

\* What is written through the write regions lies behind the samples.
LEMMA OverwrittenSlots ==
  ASSUME BufferTypeOK, NEW n \in Counts, n <= Capacity - len, NEW data
  PROVE  /\ \A i \in 0 .. len - 1 : Overwritten(WriteRegions, data, n)[Slot(start, i)] = buf[Slot(start, i)]
         /\ \A i \in 0 .. n - 1 : Overwritten(WriteRegions, data, n)[Slot(start, len + i)] = data[i]
  <1>1. \A i \in 0 .. Capacity - 1 : Slot(start, i) \in Slots
    BY CapacityAssumption DEF Slot, BufferTypeOK, Slots, Counts
  <1>2. \A i \in 0 .. len - 1 : Overwritten(WriteRegions, data, n)[Slot(start, i)] = buf[Slot(start, i)]
    BY <1>1, CapacityAssumption DEF Overwritten, WriteRegions, Slot, BufferTypeOK, Slots, Counts
  <1>3. \A i \in 0 .. n - 1 : Overwritten(WriteRegions, data, n)[Slot(start, len + i)] = data[i]
    BY <1>1, CapacityAssumption DEF Overwritten, WriteRegions, Slot, BufferTypeOK, Slots, Counts
  <1> QED
    BY <1>2, <1>3

LEMMA Initially == Init => IInv
  BY CapacityAssumption
  DEF Init, IInv, BufferTypeOK, Rolling, NoRegions, NoSamples, Slots, Counts, Regions

\* A call that is a single step keeps the types.
LEMMA CallTyped ==
  ASSUME BufferTypeOK, NEW n \in Counts,
         \/ Reset \/ SetLen(n) \/ AdvanceRead(n) \/ AdvanceWrite(n) \/ FillRegions(n)
         \/ Read(n) \/ Write(n) \/ \E first \in Counts : Copy(first, n)
  PROVE  BufferTypeOK' /\ pc = "idle" /\ pc' = "idle"
  <1>1. CASE Reset \/ SetLen(n) \/ AdvanceRead(n) \/ AdvanceWrite(n)
    BY <1>1, CapacityAssumption
    DEF Reset, SetLen, AdvanceRead, AdvanceWrite, Advanced, BufferTypeOK, Slots, Counts,
        locals
  <1>2. CASE FillRegions(n)
    BY <1>2, OverwrittenType DEF FillRegions, BufferTypeOK, fields, locals
  <1>3. CASE Read(n)
    <2>1. \A i \in 0 .. n - 1 : Nth(ReadRegions, i) \in Sample
      BY <1>3, CapacityAssumption DEF Read, Nth, ReadRegions, BufferTypeOK, Slots, Counts
    <2>2. io' \in [0 .. n - 1 -> Sample]
      BY <1>3, <2>1 DEF Read
    <2> QED
      BY <1>3, <2>2, CapacityAssumption
      DEF Read, Advanced, BufferTypeOK, Slots, Counts, locals
  <1>4. CASE Write(n)
    <2>1. buf' \in [Slots -> Sample]
      BY <1>4, OverwrittenType DEF Write
    <2> QED
      <3>1. io' \in [0 .. n - 1 -> Sample]
        BY <1>4 DEF Write
      <3>2. len' \in Counts
        BY <1>4, CapacityAssumption DEF Write, BufferTypeOK, Counts
      <3> QED
        BY <1>4, <2>1, <3>1, <3>2 DEF Write, BufferTypeOK, locals
  <1>5. ASSUME NEW first \in Counts, Copy(first, n)
        PROVE  BufferTypeOK' /\ pc = "idle" /\ pc' = "idle"
    <2>1. \A i \in 0 .. n - 1 : Nth(ReadRegions, first + i) \in Sample
      BY <1>5, CapacityAssumption DEF Copy, Nth, ReadRegions, BufferTypeOK, Slots, Counts
    <2>2. io' \in [0 .. n - 1 -> Sample]
      BY <1>5, <2>1 DEF Copy
    <2> QED
      BY <1>5, <2>2 DEF Copy, BufferTypeOK, fields, locals
  <1> QED
    BY <1>1, <1>2, <1>3, <1>4, <1>5

LEMMA Inductive == IInv /\ [Next]_vars => IInv'
  <1> SUFFICES ASSUME IInv, [Next]_vars PROVE IInv'
    OBVIOUS
  <1> USE DEF IInv
  <1>1. ASSUME NEW n \in Counts,
               \/ Reset \/ SetLen(n) \/ AdvanceRead(n) \/ AdvanceWrite(n) \/ FillRegions(n)
               \/ Read(n) \/ Write(n) \/ \E first \in Counts : Copy(first, n)
        PROVE  IInv'
    BY <1>1, CallTyped DEF Rolling
  <1>2. CASE PackStart
    <2>1. /\ start \in Slots /\ len \in Counts
          /\ reg' = ReadRegions /\ gap' = Capacity - len
          /\ reg'.n2 # 0 => gap' # 0
          /\ pc' = IF reg'.n2 # 0 THEN "roll" ELSE "shift"
          /\ UNCHANGED <<buf, start, len, io>>
      BY <1>2 DEF PackStart, BufferTypeOK, fields
    <2>2. /\ reg' \in Regions /\ gap' \in Counts
          /\ reg'.n1 + reg'.n2 = len
          /\ reg'.n2 # 0 => reg'.at + reg'.n1 = Capacity /\ reg'.n2 > 0
          /\ reg'.at + reg'.n1 <= Capacity
      BY <2>1, CapacityAssumption DEF ReadRegions, Slots, Counts, Regions
    <2>3. BufferTypeOK'
      BY <2>1, <2>2 DEF BufferTypeOK
    <2>4. Rolling'
      BY <2>1, <2>2, CapacityAssumption DEF Rolling, Counts
    <2> QED
      BY <2>3, <2>4
  <1>3. CASE PackRoll
    <2> DEFINE g == IF gap > reg.n2 THEN reg.n2 ELSE gap
               moved == Moved(buf, reg.at - g, reg.at, reg.n1)
               copied == Moved(moved, reg.at + reg.n1 - g, 0, g)
    <2>1. /\ g \in 1 .. Capacity /\ g <= reg.n2 /\ g <= Capacity - len
          /\ reg.at \in Nat /\ reg.n1 \in Nat /\ reg.n2 \in Nat /\ len \in Nat
          /\ reg.at + reg.n1 = Capacity /\ reg.n1 + reg.n2 = len
      BY <1>3, CapacityAssumption DEF PackRoll, BufferTypeOK, Rolling, Counts, Regions
    <2>2. /\ buf' = Moved(copied, 0, g, reg.n2 - g)
          /\ gap' = g
          /\ reg' = [at |-> reg.at - g, n1 |-> reg.n1 + g, n2 |-> reg.n2 - g]
          /\ pc' = IF reg.n2 - g > 0 THEN "roll" ELSE "shift"
          /\ UNCHANGED <<fields, io>>
      BY <1>3 DEF PackRoll
    <2> HIDE DEF g
    <2>3. buf' \in [Slots -> Sample]
      <3>0. /\ reg.at - g \in Nat /\ reg.at + reg.n1 - g \in Nat /\ reg.n2 - g \in Nat
            /\ g \in Nat /\ g + (reg.n2 - g) <= Capacity
        BY <2>1, CapacityAssumption
      <3>1. moved \in [Slots -> Sample]
        <4>1. buf \in [Slots -> Sample] /\ reg.at + reg.n1 <= Capacity
          BY <2>1, CapacityAssumption DEF BufferTypeOK
        <4> QED
          BY <2>1, <3>0, <4>1, MovedType
      <3>2. copied \in [Slots -> Sample]
        <4>1. 0 + g <= Capacity
          BY <2>1, CapacityAssumption
        <4> QED
          BY <3>0, <3>1, <4>1, MovedType
      <3> QED
        BY <2>2, <3>0, <3>2, MovedType
    <2>4. reg' \in Regions /\ gap' \in Counts
      BY <2>1, <2>2, CapacityAssumption DEF Regions, Counts
    <2>5. BufferTypeOK'
      BY <2>2, <2>3, <2>4 DEF BufferTypeOK, fields
    <2>6. Rolling'
      BY <2>1, <2>2, CapacityAssumption DEF Rolling, fields
    <2> QED
      BY <2>5, <2>6
  <1>4. CASE PackShift
    <2>1. /\ reg.at \in Nat /\ len \in Nat /\ reg.at + len <= Capacity
      BY <1>4 DEF PackShift, Rolling, BufferTypeOK, Counts, Regions
    <2>2. buf' \in [Slots -> Sample]
      BY <1>4, <2>1, MovedType DEF PackShift, BufferTypeOK
    <2> QED
      <3>1. start' \in Slots /\ reg' \in Regions /\ gap' \in Counts
        BY <1>4, CapacityAssumption DEF PackShift, NoRegions, Slots, Counts, Regions
      <3> QED
        BY <1>4, <2>2, <3>1 DEF PackShift, BufferTypeOK, Rolling
  <1>5. CASE UNCHANGED vars
    BY <1>5 DEF vars, fields, locals, BufferTypeOK, Rolling
  <1>6. 0 \in Counts
    BY CapacityAssumption DEF Counts
  <1> QED
    BY <1>1, <1>2, <1>3, <1>4, <1>5, <1>6 DEF Next, Pack

LEMMA Invariance == Spec => []IInv
  BY Initially, Inductive, PTL DEF Spec

-----------------------------------------------------------------------------
(* Theorems *)

\* Starts, lengths and regions stay in the memory.
THEOREM BufferTypeCorrect == Spec => []BufferTypeOK
  BY Invariance, PTL DEF IInv

\* The regions given out for reading and for writing share the memory.
THEOREM RegionsAlways == Spec => []RegionsPartition
  <1>1. BufferTypeOK => RegionsPartition
    BY CapacityAssumption
    DEF RegionsPartition, SlotsOf, ReadRegions, WriteRegions, BufferTypeOK, Slots, Counts
  <1> QED
    BY <1>1, BufferTypeCorrect, PTL

\* Rolling stays in the memory and copies between disjoint blocks.
THEOREM RollAlways == Spec => []RollIsSound
  <1>1. IInv => RollIsSound
    BY CapacityAssumption
    DEF IInv, Rolling, RollIsSound, BufferTypeOK, Counts, Regions
  <1> QED
    BY <1>1, Invariance, PTL

-----------------------------------------------------------------------------
(* The queue *)

LEMMA QueueInitially == Init => Queue!QueueInit
  BY DEF Init, Queue!QueueInit, Content, NoSamples

\* The index of a sample is below the capacity.
LEMMA IndexBelow ==
  ASSUME NEW l \in Int, l <= Capacity, NEW i \in 0 .. l - 1
  PROVE  i \in Int /\ 0 <= i /\ i < Capacity
  BY CapacityAssumption

\* The calls are those of the queue.
LEMMA CallsImplement ==
  ASSUME BufferTypeOK, NEW n \in Counts,
         \/ Reset \/ SetLen(n) \/ AdvanceRead(n) \/ AdvanceWrite(n) \/ FillRegions(n)
         \/ Read(n) \/ Write(n) \/ \E first \in Counts : Copy(first, n)
  PROVE  [Queue!QueueNext]_Queue!queueVars
  <1>1. BufferTypeOK' /\ pc = "idle" /\ pc' = "idle"
    BY CallTyped
  <1>2. /\ len \in Int /\ 0 <= len /\ len <= Capacity
        /\ len' \in Int /\ 0 <= len' /\ len' <= Capacity
        /\ start \in Int /\ 0 <= start /\ start < Capacity
        /\ start' \in Int /\ 0 <= start' /\ start' < Capacity
        /\ n \in Int /\ 0 <= n /\ n <= Capacity
        /\ Capacity \in Int /\ 0 < Capacity
    BY <1>1, CapacityAssumption DEF BufferTypeOK, Slots, Counts
  <1>3. /\ Content = [i \in 0 .. len - 1 |-> buf[Slot(start, i)]]
        /\ Content' = [i \in 0 .. len' - 1 |-> buf'[Slot(start', i)]]
    BY <1>1, ContentInSlots, ContentInSlotsNext
  <1>4. ASSUME NEW s \in Int, 0 <= s, s < Capacity, NEW i \in Int, 0 <= i, i < Capacity
        PROVE  Slot(s, i) \in Slots
    BY <1>2, <1>4 DEF Slot, Slots
  <1>5. /\ Content' \in [0 .. len' - 1 -> Sample]
        /\ \A i \in 0 .. len - 1 : Content[i] = buf[Slot(start, i)]
        /\ \A i \in 0 .. len' - 1 : Content'[i] = buf'[Slot(start', i)]
    <2>1. buf' \in [Slots -> Sample]
      BY <1>1 DEF BufferTypeOK
    <2>2. ASSUME NEW i, i \in 0 .. len' - 1
          PROVE  buf'[Slot(start', i)] \in Sample
      <3>1. i \in Int /\ 0 <= i /\ i < Capacity
        BY <1>2, <2>2, IndexBelow
      <3> QED
        BY <1>2, <1>4, <2>1, <3>1
    <2> QED
      BY <1>3, <2>2
  \* The samples move on by k.
  <1>6. ASSUME NEW k \in Int, 0 <= k, k <= len, buf' = buf, len' = len - k,
               k < len => start' = Slot(start, k)
        PROVE  Content' = [i \in 0 .. len - k - 1 |-> Content[i + k]]
    <2>1. ASSUME NEW i \in 0 .. len - k - 1
          PROVE  i + k \in 0 .. len - 1 /\ Slot(start', i) = Slot(start, i + k)
      <3>1. k < len /\ i \in Int /\ i + k \in 0 .. len - 1 /\ i + k < Capacity
        BY <1>2, <1>6, <2>1
      <3>2. start' = IF start + k >= Capacity THEN start + k - Capacity ELSE start + k
        BY <1>6, <3>1 DEF Slot
      <3> QED
        BY <1>2, <1>6, <3>1, <3>2 DEF Slot
    <2>2. \A i \in 0 .. len - k - 1 : Content'[i] = Content[i + k]
      BY <1>5, <1>6, <2>1
    <2> QED
      BY <1>5, <1>6, <2>2
  <1>7. 0 .. Capacity = Counts
    BY DEF Counts
  <1>8. CASE Reset
    <2>1. buf' = buf /\ len' = 0 /\ io' = io
      BY <1>8 DEF Reset, locals
    <2>2. Content' = [i \in 0 .. len - len - 1 |-> Content[i + len]]
      BY <1>2, <1>6, <2>1
    <2>3. Queue!Skip(Capacity)
      BY <1>2, <2>1, <2>2 DEF Queue!Skip, Queue!Drop
    <2>4. Capacity \in Counts
      BY <1>2 DEF Counts
    <2> QED
      BY <1>7, <2>3, <2>4 DEF Queue!QueueNext
  <1>9. CASE SetLen(n) \/ AdvanceWrite(n)
    <2>1. buf' = buf /\ start' = start /\ io' = io
      BY <1>9 DEF SetLen, AdvanceWrite, locals
    <2>2. ASSUME NEW i, i \in 0 .. len' - 1, i < len
          PROVE  Content'[i] = Content[i]
      <3>1. i \in 0 .. len - 1
        BY <1>2, <2>2
      <3> QED
        BY <1>5, <2>1, <2>2, <3>1
    <2>3. Queue!Resize(len')
      BY <1>2, <1>5, <2>1, <2>2 DEF Queue!Resize
    <2>4. len' \in Counts
      BY <1>2 DEF Counts
    <2> QED
      BY <1>7, <2>3, <2>4 DEF Queue!QueueNext
  <1>10. CASE AdvanceRead(n)
    <2> DEFINE k == IF n >= len THEN len ELSE n
    <2>1. /\ k \in Int /\ 0 <= k /\ k <= len /\ len' = len - k
          /\ buf' = buf /\ io' = io /\ (k < len => start' = Slot(start, k))
      BY <1>2, <1>10 DEF AdvanceRead, Advanced, Slot, locals
    <2>2. Queue!Skip(n) <=> /\ len' = len - k
                            /\ Content' = [i \in 0 .. len - k - 1 |-> Content[i + k]]
                            /\ io' = io
      BY DEF Queue!Skip, Queue!Drop
    <2> HIDE DEF k
    <2>3. Queue!Skip(n)
      BY <1>6, <2>1, <2>2
    <2> QED
      BY <1>7, <2>3 DEF Queue!QueueNext
  <1>11. CASE FillRegions(n)
    <2>1. PICK data \in [0 .. n - 1 -> Sample] : buf' = Overwritten(WriteRegions, data, n)
      BY <1>11 DEF FillRegions
    <2>2. n <= Capacity - len /\ start' = start /\ len' = len /\ io' = io
      BY <1>11 DEF FillRegions, fields, locals
    <2>3. \A i \in 0 .. len - 1 : buf'[Slot(start, i)] = buf[Slot(start, i)]
      BY <2>1, <2>2, OverwrittenSlots
    <2>4. Content' = Content
      BY <1>3, <2>2, <2>3
    <2> QED
      BY <2>2, <2>4 DEF Queue!queueVars
  <1>12. CASE Read(n)
    <2>1. n <= len /\ buf' = buf /\ io' = [i \in 0 .. n - 1 |-> Nth(ReadRegions, i)]
      BY <1>12 DEF Read
    <2>2. len' = len - n /\ (n < len => start' = Slot(start, n))
      BY <1>2, <1>12, <2>1 DEF Read, Advanced, Slot
    <2>3. Content' = [i \in 0 .. len - n - 1 |-> Content[i + n]]
      BY <1>2, <1>6, <2>1, <2>2
    <2>4. \A i \in 0 .. n - 1 : Nth(ReadRegions, i) = Content[i]
      BY <1>1, <1>2, <2>1 DEF Content
    <2>5. io' = [i \in 0 .. n - 1 |-> Content[i]]
      BY <2>1, <2>4
    <2>6. (IF n >= len THEN len ELSE n) = n
      BY <1>2, <2>1
    <2>7. Queue!Take(n)
      BY <2>1, <2>2, <2>3, <2>5, <2>6 DEF Queue!Take, Queue!Drop
    <2> QED
      BY <1>7, <2>7 DEF Queue!QueueNext
  <1>13. CASE Write(n)
    <2>1. /\ n <= Capacity - len /\ io' \in [0 .. n - 1 -> Sample]
          /\ buf' = Overwritten(WriteRegions, io', n)
          /\ len' = len + n /\ start' = start
      BY <1>13 DEF Write
    <2>2. /\ \A i \in 0 .. len - 1 : buf'[Slot(start, i)] = buf[Slot(start, i)]
          /\ \A i \in 0 .. n - 1 : buf'[Slot(start, len + i)] = io'[i]
      BY <2>1, OverwrittenSlots
    <2>3. ASSUME NEW i \in 0 .. len + n - 1
          PROVE  buf'[Slot(start', i)] = IF i < len THEN Content[i] ELSE io'[i - len]
      <3>1. CASE i < len
        <4>1. i \in 0 .. len - 1
          BY <1>2, <3>1
        <4> QED
          BY <1>5, <2>1, <2>2, <3>1, <4>1
      <3>2. CASE ~(i < len)
        <4>1. i - len \in 0 .. n - 1 /\ len + (i - len) = i
          BY <1>2, <3>2
        <4> QED
          BY <2>1, <2>2, <3>2, <4>1
      <3> QED
        BY <3>1, <3>2
    <2>4. Content' = [i \in 0 .. len + n - 1 |-> IF i < len THEN Content[i] ELSE io'[i - len]]
      <3>1. Content' = [i \in 0 .. len + n - 1 |-> buf'[Slot(start', i)]]
        <4>1. len' - 1 = len + n - 1
          BY <1>2, <2>1
        <4> QED
          BY <1>3, <4>1
      <3> QED
        BY <2>3, <3>1
    <2>5. Queue!Put(n)
      BY <2>1, <2>4 DEF Queue!Put
    <2> QED
      BY <1>7, <2>5 DEF Queue!QueueNext
  <1>14. ASSUME NEW first \in Counts, Copy(first, n)
         PROVE  [Queue!QueueNext]_Queue!queueVars
    <2>1. /\ n + first <= len /\ start' = start /\ len' = len /\ buf' = buf
          /\ io' = [i \in 0 .. n - 1 |-> Nth(ReadRegions, first + i)]
      BY <1>14 DEF Copy, fields
    <2>2. first \in Int /\ 0 <= first
      BY <1>2 DEF Counts
    <2>3. \A i \in 0 .. n - 1 : Nth(ReadRegions, first + i) = Content[first + i]
      BY <1>1, <1>2, <2>1, <2>2 DEF Content
    <2>4. io' = [i \in 0 .. n - 1 |-> Content[first + i]]
      BY <2>1, <2>3
    <2>5. Content' = Content /\ first + n <= len
      BY <1>2, <1>3, <2>1, <2>2
    <2>6. Queue!Look(first, n)
      BY <2>1, <2>4, <2>5 DEF Queue!Look
    <2> QED
      BY <1>7, <2>6 DEF Queue!QueueNext
  <1> QED
    BY <1>8, <1>9, <1>10, <1>11, <1>12, <1>13, <1>14

\* A block moved within a memory, sample by sample.
LEMMA MovedAt ==
  ASSUME NEW mem, NEW to \in Int, NEW from \in Int, NEW n \in Int, NEW k \in Slots
  PROVE  /\ k >= to /\ k < to + n => Moved(mem, to, from, n)[k] = mem[k - to + from]
         /\ k < to \/ k >= to + n => Moved(mem, to, from, n)[k] = mem[k]
  BY CapacityAssumption DEF Moved, Slots

\* Packing is invisible: the samples are the same after each of its steps.
LEMMA PackImplements ==
  ASSUME IInv, PackStart \/ Pack
  PROVE  UNCHANGED Queue!queueVars
  <1> USE DEF IInv
  <1>1. CASE PackStart
    BY <1>1 DEF PackStart, Content, Nth, ReadRegions, Queue!queueVars, fields
  <1>2. CASE PackRoll
    <2> DEFINE g == IF gap > reg.n2 THEN reg.n2 ELSE gap
               moved == Moved(buf, reg.at - g, reg.at, reg.n1)
               copied == Moved(moved, reg.at + reg.n1 - g, 0, g)
               final == Moved(copied, 0, g, reg.n2 - g)
    <2>1. /\ g \in 1 .. Capacity /\ g <= reg.n2 /\ g <= Capacity - len
          /\ reg.at \in Nat /\ reg.n1 \in Nat /\ reg.n2 \in Nat /\ len \in Nat
          /\ reg.at + reg.n1 = Capacity /\ reg.n1 + reg.n2 = len
      BY <1>2, CapacityAssumption DEF PackRoll, BufferTypeOK, Rolling, Counts, Regions
    <2>2. /\ buf' = final /\ pc = "roll" /\ pc' # "idle" /\ len' = len /\ io' = io
          /\ reg' = [at |-> reg.at - g, n1 |-> reg.n1 + g, n2 |-> reg.n2 - g]
      BY <1>2 DEF PackRoll, fields
    <2> HIDE DEF g
    <2>3. ASSUME NEW i \in 0 .. len - 1
          PROVE  (IF i < reg.n1 + g THEN final[reg.at - g + i] ELSE final[i - (reg.n1 + g)])
                     = IF i < reg.n1 THEN buf[reg.at + i] ELSE buf[i - reg.n1]
      <3>0. /\ i \in Int /\ 0 <= i /\ i < len /\ g \in Int /\ 0 < g
            /\ Capacity \in Int /\ reg.n2 - g >= 0 /\ reg.at - g >= reg.n2
            /\ reg.at \in Int /\ reg.n1 \in Int /\ reg.n1 >= 0 /\ reg.n2 \in Int
            /\ reg.at + reg.n1 - g >= reg.n2
        BY <2>1, CapacityAssumption
      <3>1. CASE i < reg.n1
        <4> DEFINE k == reg.at - g + i
        <4>1. k \in Slots /\ k >= reg.n2 - g /\ k < reg.at + reg.n1 - g /\ k >= reg.at - g
          BY <2>1, <3>0, <3>1 DEF Slots
        <4>2. final[k] = copied[k]
          BY <3>0, <4>1, MovedAt
        <4>3. copied[k] = moved[k]
          BY <2>1, <3>0, <4>1, MovedAt
        <4>4. moved[k] = buf[k - (reg.at - g) + reg.at]
          BY <2>1, <3>0, <4>1, MovedAt
        <4>5. k - (reg.at - g) + reg.at = reg.at + i /\ i < reg.n1 + g
          BY <3>0, <3>1
        <4> QED
          BY <3>1, <4>2, <4>3, <4>4, <4>5
      <3>2. CASE ~(i < reg.n1) /\ i < reg.n1 + g
        <4> DEFINE k == reg.at - g + i
        <4>1. k \in Slots /\ k >= reg.n2 - g /\ k >= reg.at + reg.n1 - g /\ k < reg.at + reg.n1
          BY <2>1, <3>0, <3>2 DEF Slots
        <4>2. final[k] = copied[k]
          BY <3>0, <4>1, MovedAt
        <4>3. copied[k] = moved[k - (reg.at + reg.n1 - g) + 0]
          BY <2>1, <3>0, <4>1, MovedAt
        <4>4. k - (reg.at + reg.n1 - g) + 0 = i - reg.n1
          BY <3>0
        <4>5. i - reg.n1 \in Slots /\ i - reg.n1 < reg.at - g
          BY <2>1, <3>0, <3>2 DEF Slots
        <4>6. moved[i - reg.n1] = buf[i - reg.n1]
          BY <2>1, <3>0, <4>5, MovedAt
        <4> QED
          BY <3>2, <4>2, <4>3, <4>4, <4>6
      <3>3. CASE ~(i < reg.n1 + g)
        <4> DEFINE k == i - (reg.n1 + g)
        <4>1. /\ k \in Slots /\ k >= 0 /\ k < reg.n2 - g /\ k + g \in Slots
              /\ k + g < reg.at + reg.n1 - g /\ k + g < reg.at - g
          BY <2>1, <3>0, <3>3 DEF Slots
        <4>2. final[k] = copied[k - 0 + g]
          BY <3>0, <4>1, MovedAt
        <4>3. copied[k + g] = moved[k + g]
          BY <2>1, <3>0, <4>1, MovedAt
        <4>4. moved[k + g] = buf[k + g]
          BY <2>1, <3>0, <4>1, MovedAt
        <4>5. k - 0 + g = k + g /\ k + g = i - reg.n1 /\ ~(i < reg.n1)
          BY <3>0, <3>3
        <4> QED
          BY <3>3, <4>2, <4>3, <4>4, <4>5
      <3> QED
        BY <3>1, <3>2, <3>3
    <2> HIDE DEF final
    <2>4. Content' = Content
      BY <2>2, <2>3 DEF Content, Nth
    <2> QED
      BY <2>2, <2>4 DEF Queue!queueVars
  <1>3. CASE PackShift
    <2>1. /\ pc = "shift" /\ pc' = "idle" /\ buf' = Moved(buf, 0, reg.at, len)
          /\ start' = 0 /\ len' = len /\ io' = io
          /\ reg.n1 = len /\ reg.at \in Nat /\ len \in Nat /\ reg.at + len <= Capacity
      BY <1>3 DEF PackShift, Rolling, BufferTypeOK, Counts, Regions
    <2>2. Content = [i \in 0 .. len - 1 |-> buf[reg.at + i]]
      BY <2>1 DEF Content, Nth
    <2>3. Content' = [i \in 0 .. len - 1 |-> buf'[i]]
      <3>1. BufferTypeOK'
        BY <1>3, Inductive DEF Next, Pack
      <3>2. Content' = [i \in 0 .. len - 1 |-> buf'[Slot(0, i)]]
        BY <2>1, <3>1, ContentInSlotsNext
      <3>3. \A i \in 0 .. len - 1 : Slot(0, i) = i
        BY <2>1, CapacityAssumption DEF Slot
      <3> QED
        BY <3>2, <3>3
    <2>4. \A i \in 0 .. len - 1 : buf'[i] = buf[reg.at + i]
      BY <2>1, CapacityAssumption DEF Moved, Slots
    <2> QED
      BY <2>1, <2>2, <2>3, <2>4 DEF Queue!queueVars
  <1> QED
    BY <1>1, <1>2, <1>3 DEF Pack

\* What is read from the buffer is what was written to it, in that order: it
\* implements the queue, whatever is packed in between.
THEOREM BufferIsQueue == Spec => ImplementsQueue
  <1>1. IInv /\ [Next]_vars => [Queue!QueueNext]_Queue!queueVars
    <2> SUFFICES ASSUME IInv, [Next]_vars PROVE [Queue!QueueNext]_Queue!queueVars
      OBVIOUS
    <2>1. 0 \in Counts
      BY CapacityAssumption DEF Counts
    <2>2. CASE UNCHANGED vars
      BY <2>2 DEF vars, fields, locals, Content, Nth, ReadRegions, Queue!queueVars
    <2> QED
      BY <2>1, <2>2, CallsImplement, PackImplements DEF Next, IInv
  <1> QED
    BY <1>1, QueueInitially, Invariance, PTL
    DEF Spec, ImplementsQueue, Queue!QueueSpec

-----------------------------------------------------------------------------
(* Why packing ends *)

\* Every turn of the loop moves at least one sample out of the second region,
\* and no step but Pack touches it: what the liveness of packing rests on,
\* besides the fairness that the caller's thread gets on.
PackingDescends ==
    [][/\ pc = "roll" => \/ pc' = "roll" /\ reg'.n2 < reg.n2
                         \/ pc' = "shift"
       /\ pc = "shift" => pc' = "idle"]_vars

\* The gap of pack_buffer is never empty, so each turn shortens what is left,
\* for every capacity.
THEOREM PackingDescendsAlways == Spec => PackingDescends
  <1> DEFINE Step == /\ pc = "roll" => \/ pc' = "roll" /\ reg'.n2 < reg.n2
                                       \/ pc' = "shift"
                     /\ pc = "shift" => pc' = "idle"
  <1>1. IInv /\ [Next]_vars => [Step]_vars
    <2> SUFFICES ASSUME IInv, Next PROVE Step
      OBVIOUS
    <2>1. CASE PackRoll
      <3>1. reg \in Regions /\ gap \in Counts /\ gap > 0 /\ reg.n2 > 0 /\ pc = "roll"
        BY <2>1 DEF PackRoll, IInv, BufferTypeOK, Rolling
      <3>2. reg'.n2 = reg.n2 - (IF gap > reg.n2 THEN reg.n2 ELSE gap)
        BY <2>1 DEF PackRoll
      <3>3. reg'.n2 < reg.n2
        BY <3>1, <3>2, CapacityAssumption DEF Regions, Counts
      <3> QED
        BY <2>1, <3>3 DEF PackRoll
    <2>2. CASE PackShift
      BY <2>2 DEF PackShift
    <2>3. ASSUME ~Pack PROVE pc = "idle"
      BY <2>3 DEF Next, Pack, Reset, SetLen, AdvanceRead, AdvanceWrite, FillRegions,
                  Read, Write, Copy, PackStart
    <2> QED
      BY <2>1, <2>2, <2>3 DEF Pack
  <1> QED
    BY <1>1, Invariance, PTL DEF PackingDescends, Spec
=============================================================================
