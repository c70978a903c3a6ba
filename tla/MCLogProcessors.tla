-------------------------- MODULE MCLogProcessors --------------------------
(* The instances of LogProcessors for TLC. *)
EXTENDS LogProcessors

Always(kind)    == [kind |-> kind, condition |-> FALSE, rewrites |-> FALSE]
If(kind)        == [Always(kind) EXCEPT !.condition = TRUE]
Rewriting(u)    == [u EXCEPT !.rewrites = TRUE]
Record(key, seq, time, match) ==
    [body |-> [key |-> key, seq |-> seq], time |-> time, match |-> match]

\* Units that change records, with and without a condition, and a filter.
Changing == [Chain |-> <<Rewriting(If("modify")), Always("modify"), Always("filter"), If("modify")>>,
             Inputs |-> {Record(1, 0, 0, m) : m \in BOOLEAN},
             Ordered |-> FALSE, StartTimes |-> {0}, Faults |-> {},
             MaxBatch |-> 3, MaxRecords |-> 4, MaxClock |-> 0]
\* Each unit that removes records begins with a buffer of its own.
Removing == [Changing EXCEPT
               !.Chain = <<If("sql"), Always("filter"), If("dedup"), Always("filter"),
                           Always("exponential")>>,
               !.Inputs = {Record(k, 0, 0, m) : k \in 1..2, m \in BOOLEAN},
               !.Faults = {"get", "put"}, !.MaxRecords = 3]
\* A list that is seen again, with records to remove in the middle.
Again    == [Changing EXCEPT
               !.Chain = <<Always("exponential")>>, !.Inputs = {Record(1, 0, 0, TRUE)},
               !.MaxBatch = 4]
\* A query that leaves out keys its WHERE looks at.
Projecting == [Again EXCEPT !.Chain = <<Rewriting(Always("sql"))>>,
                            !.Inputs = {Record(1, 0, 0, m) : m \in BOOLEAN}]
\* Dedup on the list of the unit before it, while time passes.
Later    == [Changing EXCEPT
               !.Chain = <<Always("modify"), Always("dedup")>>,
               !.Inputs = {Record(1, q, 0, TRUE) : q \in 1..2} \cup {Record(2, 1, 0, TRUE)},
               !.MaxClock = 3]
\* Units before and after dedup that change what it hashes.
Rewritten == [Later EXCEPT
               !.Chain = <<Rewriting(Always("modify")), Always("dedup"), Rewriting(Always("modify"))>>,
               !.Inputs = {Record(k, 0, 0, TRUE) : k \in 1..2},
               !.MaxBatch = 2, !.MaxRecords = 2, !.MaxClock = 2]
\* The two windows, with records in order of their timestamps.
Fixed    == [Changing EXCEPT
               !.Chain = <<Always("fixed")>>,
               !.Inputs = {Record(1, 0, t, TRUE) : t \in 4..9}, !.Ordered = TRUE,
               !.StartTimes = {0, 3}, !.MaxBatch = 2, !.MaxRecords = 5, !.MaxClock = 3]
Sliding  == [Fixed EXCEPT !.Chain = <<Always("sliding")>>,
                          !.StartTimes = {0}, !.MaxClock = 0]
MCSettings == {Changing, Removing, Again, Projecting, Later, Rewritten, Fixed, Sliding}

\* Dedup alone, with three records at a time.
Alone == {[Later EXCEPT !.Chain = <<Always("dedup")>>, !.MaxBatch = 3, !.MaxRecords = 3,
                        !.MaxClock = 1]}
=============================================================================
