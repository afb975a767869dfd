------------------------- MODULE MC_ResourceValidation -------------------------
EXTENDS ResourceValidation

\* CPUCount: negative, zero (no limit), the minimum, above the default.
MCCPUCounts == {-1, 0, 1, 4}

\* CpusetCpus: unset, "0", "3", "-2", and "0-3" which Atoi rejects.
MCCpusets ==
    {[set |-> FALSE, parses |-> FALSE, first |-> 0]} \cup
    {[set |-> TRUE, parses |-> TRUE, first |-> n] : n \in {0, 3, -2}} \cup
    {[set |-> TRUE, parses |-> FALSE, first |-> 0]}

\* Memory in bytes around every boundary of the conversion, the default, the
\* floor and the alignment: negative, zero, below one MiB, below the floor,
\* at it, one byte above it, aligned and unaligned sizes above it.  TLC's
\* integers end at 2^31 - 1, about 2 GiB.
MCMemories ==
    {-2 * MiB, -1, 0, 1, MiB - 1, MiB, 100 * MiB, 511 * MiB + 7,
     512 * MiB, 512 * MiB + 1, 600 * MiB, 640 * MiB, 2047 * MiB}

MCHostConfigs ==
    [cpuCount : MCCPUCounts, cpuset : MCCpusets, memory : MCMemories]
=============================================================================
