--------------------------- MODULE ResourceValidation ---------------------------
(***************************************************************************)
(* validateCreateConfig (pod_proxy.go) applied to a container's host       *)
(* config: it rewrites CPUCount and Memory in place, or returns an error.  *)
(* The code defines it and nothing calls it; its inputs are therefore      *)
(* every host config of the type it reads, as spec section 8 quantifies    *)
(* ("for all memory inputs", "for all CPU inputs").                        *)
(***************************************************************************)
EXTENDS CreateConfig

CONSTANTS
    HostConfigs   \* the host configs (CPUCount, CpusetCpus, Memory) tried

\* The fields validateCreateConfig reads: CPUCount, the first comma field of
\* CpusetCpus as Atoi sees it, and Memory in bytes.
HostConfigType ==
    [cpuCount : Int,
     cpuset   : [set : BOOLEAN, parses : BOOLEAN, first : Int],
     memory   : Int]

ASSUME HostConfigsAssumption == HostConfigs \subseteq HostConfigType

VARIABLES
    request,      \* the host config as the caller built it
    hostConfig,   \* config.HostConfig, rewritten by the call
    validateErr,  \* the call returned an error
    validated     \* the call has returned

vars == <<request, hostConfig, validateErr, validated>>

Init ==
    /\ request \in HostConfigs
    /\ hostConfig = request
    /\ validateErr = FALSE
    /\ validated = FALSE

ValidateCreateConfig ==
    /\ ~validated
    /\ hostConfig' = validateCreateConfig(hostConfig).hostConfig
    /\ validateErr' = validateCreateConfig(hostConfig).err
    /\ validated' = TRUE
    /\ UNCHANGED request

Next == ValidateCreateConfig

Spec == Init /\ [][Next]_vars

-----------------------------------------------------------------------------

TypeOK ==
    /\ request \in HostConfigType
    /\ hostConfig \in HostConfigType
    /\ validateErr \in BOOLEAN
    /\ validated \in BOOLEAN

\* A config validateCreateConfig accepted asks for at least MinCPUs, and for
\* a memory size in MiB that is at least the floor, a multiple of the
\* hot-add alignment, and not below what the caller asked for: rounding
\* after the floor only ever goes up.
ResourcesNormalized ==
    validated /\ ~validateErr =>
        /\ hostConfig.cpuCount >= MinCPUs
        /\ hostConfig.memory >= MemoryMinMB
        /\ hostConfig.memory % MemoryAlignMB = 0
        /\ hostConfig.memory >= GoQuo(request.memory, MiB)

\* Spec section 8: a CPU count of 0 or less, or an unparsable CPU set, is
\* normalised to the minimum.
CPUFloorAtMinimum ==
    validated /\ request.cpuCount <= 0 /\ (~request.cpuset.set \/ ~request.cpuset.parses) =>
        ~validateErr /\ hostConfig.cpuCount = MinCPUs

=============================================================================
