------------------------------- MODULE QuoteBatch -------------------------------
(***************************************************************************)
(* A batch of quote calls on its way through Multicall3: cut in chunks,    *)
(* one eth_call for a chunk, a chunk that overruns the node's gas cap      *)
(* halved until the one call that does is found, and a chunk that fails    *)
(* in another way quoted as zero.                                          *)
(* src/routing/multicall.py, and the loops of batched_v3_quote,            *)
(* batched_v4_quote and batched_curve_quote.                               *)
(***************************************************************************)
EXTENDS SwapPlans

CONSTANTS
    ChunkSize,      \* _MAX_CALLS_PER_BATCH
    GasCap          \* bound: how many ordinary calls the node's gas cap admits

\* A batch of size paths: the answers of the finished chunks and of the
\* current one, the slices of the current chunk still to be asked, the first
\* first, and the chunks given up, by their first index.
ChunkFrom(n, first) ==
    IF first > n THEN <<>>
    ELSE << <<first, IF first + ChunkSize - 1 < n THEN first + ChunkSize - 1 ELSE n>> >>

Begin(size) ==
    [size |-> size, done |-> <<>>, part |-> <<>>, slices |-> ChunkFrom(size, 1), failed |-> {}]

Answered(b) == b.slices = <<>>

\* The current chunk is over: on to the next one.
Close(b, answers) ==
    [b EXCEPT !.done = @ \o answers, !.part = <<>>,
              !.slices = ChunkFrom(b.size, Len(b.done) + Len(answers) + 1)]

\* The answers to the first slice.
Reply(b, answers) ==
    IF Len(b.slices) = 1 THEN Close(b, b.part \o answers)
    ELSE [b EXCEPT !.part = @ \o answers, !.slices = Tail(@)]

\* aggregate: each call on its own, 0 when it reverts.
Aggregate(market, paths, b) ==
    LET slice == Head(b.slices)
    IN  [i \in 1..(slice[2] - slice[1] + 1) |->
            Answer(market, CallOf(paths[slice[1] + i - 1]))]

\* Too many calls in the slice, or one of the heavy ones.
Overruns(b, heavy) ==
    LET slice == Head(b.slices)
    IN  slice[2] - slice[1] + 1 > GasCap \/ \E i \in slice[1]..slice[2] : i \in heavy

\* Variant: the middle is half of the last index, so that the left half of a
\* pair is empty and its right half the pair.
BisectLow(b) ==
    LET slice == Head(b.slices)
        mid == slice[1] + (slice[2] - slice[1]) \div 2
        left == IF mid = slice[1] THEN <<>> ELSE << <<slice[1], mid - 1>> >>
    IN  IF slice[1] = slice[2] THEN Reply(b, <<0>>)
        ELSE [b EXCEPT !.slices = left \o << <<mid, slice[2]>> >> \o Tail(@)]

\* An overrun: the one call is dropped, more are halved.
Bisect(b) ==
    LET slice == Head(b.slices)
        mid == slice[1] + (slice[2] - slice[1] + 1) \div 2
    IN  IF slice[1] = slice[2] THEN Reply(b, <<0>>)
        ELSE [b EXCEPT !.slices = << <<slice[1], mid - 1>>, <<mid, slice[2]>> >> \o Tail(@)]

\* Variant: what the chunk had already answered stays, and the zeros come after.
DropChunkAppended(b) ==
    LET first == Len(b.done) + 1
        size == ChunkFrom(b.size, first)[1][2] - first + 1
    IN  [Close(b, b.part \o [i \in 1..size |-> 0]) EXCEPT !.failed = @ \cup {first}]

\* Another error: the chunk is zero, answers it already had included.
DropChunk(b) ==
    LET first == Len(b.done) + 1
        size == ChunkFrom(b.size, first)[1][2] - first + 1
    IN  [Close(b, [i \in 1..size |-> 0]) EXCEPT !.failed = @ \cup {first}]

\* The quotes, aligned with the paths.
QuotesOf(b, paths) == [i \in DOMAIN b.done |-> [path |-> paths[i], amount |-> b.done[i]]]
=============================================================================
