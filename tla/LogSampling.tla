---------------------------- MODULE LogSampling ----------------------------
(***************************************************************************)
(* The windows of the log_sampling processor (log_sampling.c) as functions *)
(* of the state of a window and the second in a record's timestamp.  Each  *)
(* returns whether the record is kept and the new state.                   *)
(***************************************************************************)
EXTENDS Integers, Sequences, SequencesExt

CONSTANTS
    WindowSize,     \* window_size, in seconds; also the number of buckets
    MaxLogs         \* max_logs_per_window

ASSUME SamplingAssumption == WindowSize \in Nat \ {0} /\ MaxLogs \in Nat

\* state->window_start and state->current_window_count
NewWindow(now) == [start |-> now, count |-> 0]

flb_sampling_fixed_window(window, time) ==
    LET starts == time >= window.start + WindowSize
        start  == IF starts THEN (time \div WindowSize) * WindowSize
                            ELSE window.start
        count  == IF starts THEN 0 ELSE window.count
        keep   == count < MaxLogs
    IN  [keep   |-> keep,
         window |-> [start |-> start,
                     count |-> IF keep THEN count + 1 ELSE count]]

\* state->buckets
Buckets    == 0..(WindowSize - 1)
NoBucket   == [timestamp |-> 0, count |-> 0]
NewBuckets == [i \in Buckets |-> NoBucket]

Expired_Early(bucket, time) == bucket.timestamp <= time - (WindowSize - 1)

Expired(bucket, time) == bucket.timestamp < time - WindowSize
Cleared(buckets, time) ==
    [i \in Buckets |-> IF Expired(buckets[i], time) THEN NoBucket ELSE buckets[i]]

Upto(n) == [k \in 1..n |-> k]
total_in_window(buckets) ==
    FoldLeft(LAMBDA n, k : n + buckets[k - 1].count, 0, Upto(WindowSize))

flb_sampling_sliding_window(buckets, time) ==
    LET cleared == Cleared(buckets, time)
        index   == time % WindowSize
        keep    == total_in_window(cleared) < MaxLogs
    IN  [keep    |-> keep,
         buckets |-> IF keep
                     THEN [cleared EXCEPT ![index] =
                             [timestamp |-> time, count |-> cleared[index].count + 1]]
                     ELSE cleared]

\* The rate decays with the age of the processor and a random number decides.
flb_sampling_exponential == BOOLEAN
=============================================================================
