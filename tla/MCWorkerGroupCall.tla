---- MODULE MCWorkerGroupCall ----
EXTENDS WorkerGroupCall

CONSTANTS ShortLengths, LongLengths

\* Half of the rows have any lengths that fit; or one row is too long.
MCBatches ==
    {[r \in Rows |-> IF r <= 4 THEN f[r] ELSE (r % 4) + 1] : f \in [1 .. 4 -> ShortLengths]}
        \cup {[r \in Rows |-> IF r = s THEN length ELSE 1] : s \in Rows, length \in LongLengths}

\* An order drawn from its seed: as it is, or backwards
MCShuffle(seed, epoch) ==
    [i \in 1 .. RowsPerRank |-> IF (seed + epoch) % 2 = 0 THEN i ELSE RowsPerRank + 1 - i]
====
