----------------------------- MODULE SampleQueue -----------------------------
(***************************************************************************)
(* What the circular buffer of the media library promises: "read and write *)
(* contiguous audio samples in a non-contiguous buffer as if the buffer    *)
(* were contiguous" (circbuf.h).  A queue of at most Capacity samples, of  *)
(* which several are written, read, copied or dropped at once.             *)
(***************************************************************************)
EXTENDS Integers

CONSTANTS Sample, Capacity

VARIABLES
    content,        \* the samples, from index 0, the first to be read
    len,            \* how many they are
    io              \* the samples the last call took or gave

queueVars == <<content, len, io>>

QueueInit ==
    /\ content = [i \in 0 .. -1 |-> 0]
    /\ len = 0
    /\ io = [i \in 0 .. -1 |-> 0]

\* The samples of a call go behind those that are there.
Put(n) ==
    /\ n <= Capacity - len
    /\ io' \in [0 .. n - 1 -> Sample]
    /\ len' = len + n
    /\ content' = [i \in 0 .. len + n - 1 |-> IF i < len THEN content[i] ELSE io'[i - len]]

\* The first samples are dropped, all if there are no more.
Drop(n) ==
    LET k == IF n >= len THEN len ELSE n
    IN  /\ len' = len - k
        /\ content' = [i \in 0 .. len - k - 1 |-> content[i + k]]

Skip(n) == Drop(n) /\ UNCHANGED io

Take(n) ==
    /\ n <= len
    /\ io' = [i \in 0 .. n - 1 |-> content[i]]
    /\ Drop(n)

Look(first, n) ==
    /\ first + n <= len
    /\ io' = [i \in 0 .. n - 1 |-> content[first + i]]
    /\ UNCHANGED <<content, len>>

\* The last samples go, or some whose values the queue does not set come.
Resize(n) ==
    /\ n <= Capacity
    /\ len' = n
    /\ content' \in [0 .. n - 1 -> Sample]
    /\ \A i \in 0 .. n - 1 : i < len => content'[i] = content[i]
    /\ UNCHANGED io

QueueNext ==
    \E n \in 0 .. Capacity :
        \/ Put(n) \/ Skip(n) \/ Take(n) \/ Resize(n)
        \/ \E first \in 0 .. Capacity : Look(first, n)

QueueSpec == QueueInit /\ [][QueueNext]_queueVars
=============================================================================
