---------------------------- MODULE MCInputChunk ----------------------------
(* The instance of InputChunk for TLC. *)
EXTENDS InputChunk

\* A file and a memory input share two outputs with small disk limits.
Evicting == [Type |-> <<"fs", "mem">>, Routes |-> <<{1, 2}, {1}>>, Direct |-> {},
             PauseOn |-> {}, MemLimit |-> <<0, 2>>, Limited |-> {1, 2}, Limit |-> <<4, 6>>,
             Trim |-> TRUE, DelBad |-> TRUE, Sizes |-> {1}, Grows |-> FALSE,
             Faults |-> {}]
\* An input that pauses at mem_buf_limit and a memory ring buffer.
InMemory == [Evicting EXCEPT !.Type = <<"mem", "memrb">>,
                             !.Routes = <<{1}, {2}>>,
                             !.MemLimit = <<2, 2>>, !.Limited = {},
                             !.Sizes = {1, 2}]
\* The same with filters that add to the data.
Growing  == [InMemory EXCEPT !.Grows = TRUE]
\* Two file inputs that share storage.max_chunks_up.
Sharing  == [Evicting EXCEPT !.Type = <<"fs", "fs">>, !.PauseOn = {1, 2},
                             !.Routes = <<{1}, {1}>>, !.MemLimit = <<0, 0>>,
                             !.Limited = {}, !.Trim = FALSE]
\* The same with writes that fail and a conditional route.
DiskFull == [Sharing EXCEPT !.PauseOn = {1}, !.Trim = TRUE, !.Direct = {2},
                            !.Faults = {"write", "reload"}]
\* Files that cannot be loaded while chunks are evicted.
Unloaded == [Sharing EXCEPT !.PauseOn = {1}, !.MemLimit = <<1, 0>>, !.Limited = {1},
                            !.Limit = <<2, 6>>, !.Trim = TRUE,
                            !.DelBad = FALSE, !.Faults = {"load"}]
MCSettings == {Evicting, InMemory, Growing, Sharing, DiskFull, Unloaded}
=============================================================================
