------------------------ MODULE ResourceValidationProofs ------------------------
(***************************************************************************)
(* Proofs about validateCreateConfig for every host config, not only the   *)
(* boundary values TLC tries.  The memory lemmas follow the three stages   *)
(* of the code: the truncating conversion to MiB, the default and floor,   *)
(* and the rounding up to the alignment.  ResourcesNormalized is not       *)
(* inductive by itself (it says nothing of a state before the call): RInv *)
(* adds that the host config is the request until the call, and the       *)
(* request validated without error after it.                               *)
(***************************************************************************)
EXTENDS ResourceValidation, TLAPS

LEMMA GoQuoType ==
    ASSUME NEW x \in Int
    PROVE  GoQuo(x, MiB) \in Int
  BY DEF GoQuo, MiB

LEMMA FlooredBounds ==
    ASSUME NEW q \in Int
    PROVE  /\ FlooredMemoryMB(q) \in Int
           /\ FlooredMemoryMB(q) >= MemoryMinMB
           /\ FlooredMemoryMB(q) >= q
  BY DEF FlooredMemoryMB, MemoryMinMB, MemoryDefaultMB

LEMMA AlignBounds ==
    ASSUME NEW f \in Int, f >= MemoryMinMB
    PROVE  /\ AlignMemory(f) \in Int
           /\ AlignMemory(f) >= f
           /\ AlignMemory(f) % MemoryAlignMB = 0
  BY DEF AlignMemory, MemoryAlignMB, MemoryMinMB

\* For every memory size in bytes, the normalised size in MiB is at least
\* the floor, aligned for hot-add, and not below the size asked for.
LEMMA MemoryNormalized ==
    ASSUME NEW m \in Int
    PROVE  /\ NormalizedMemoryMB(m) \in Int
           /\ NormalizedMemoryMB(m) >= MemoryMinMB
           /\ NormalizedMemoryMB(m) % MemoryAlignMB = 0
           /\ NormalizedMemoryMB(m) >= GoQuo(m, MiB)
<1>1. GoQuo(m, MiB) \in Int
  BY GoQuoType
<1>2. /\ FlooredMemoryMB(GoQuo(m, MiB)) \in Int
      /\ FlooredMemoryMB(GoQuo(m, MiB)) >= MemoryMinMB
      /\ FlooredMemoryMB(GoQuo(m, MiB)) >= GoQuo(m, MiB)
  BY <1>1, FlooredBounds
<1>3. /\ AlignMemory(FlooredMemoryMB(GoQuo(m, MiB))) \in Int
      /\ AlignMemory(FlooredMemoryMB(GoQuo(m, MiB))) >= FlooredMemoryMB(GoQuo(m, MiB))
      /\ AlignMemory(FlooredMemoryMB(GoQuo(m, MiB))) % MemoryAlignMB = 0
  BY <1>2, AlignBounds
<1>4. QED
  BY <1>1, <1>2, <1>3 DEF NormalizedMemoryMB, MemoryMinMB

\* An accepted config gets at least MinCPUs.
LEMMA CPUsNormalized ==
    ASSUME NEW hc \in HostConfigType
    PROVE  NormalizedCPUs(hc) \in Int /\ NormalizedCPUs(hc) >= MinCPUs
  BY DEF NormalizedCPUs, RequestedCPUs, HostConfigType, MinCPUs, DefaultCPUs

LEMMA ValidateType ==
    ASSUME NEW hc \in HostConfigType
    PROVE  /\ validateCreateConfig(hc).hostConfig \in HostConfigType
           /\ validateCreateConfig(hc).err \in BOOLEAN
<1>1. NormalizedMemoryMB(hc.memory) \in Int
  BY MemoryNormalized DEF HostConfigType
<1>2. NormalizedCPUs(hc) \in Int
  BY CPUsNormalized
<1>3. QED
  BY <1>1, <1>2 DEF validateCreateConfig, HostConfigType

RInv ==
    /\ TypeOK
    /\ ~validated => hostConfig = request
    /\ validated /\ ~validateErr =>
          /\ ~CPUParseError(request)
          /\ hostConfig = validateCreateConfig(request).hostConfig

LEMMA InitRInv == Init => RInv
  BY HostConfigsAssumption DEF Init, RInv, TypeOK

LEMMA NextRInv == RInv /\ [Next]_vars => RInv'
<1> SUFFICES ASSUME RInv, [Next]_vars PROVE RInv'
  OBVIOUS
<1>1. CASE ValidateCreateConfig
  <2>1. hostConfig = request /\ request \in HostConfigType
    BY <1>1 DEF ValidateCreateConfig, RInv, TypeOK
  <2>2. TypeOK'
    BY <1>1, <2>1, ValidateType DEF ValidateCreateConfig, TypeOK
  <2>3. validateErr' = FALSE => ~CPUParseError(request)
    BY <1>1, <2>1 DEF ValidateCreateConfig, validateCreateConfig
  <2>4. QED
    BY <1>1, <2>1, <2>2, <2>3 DEF ValidateCreateConfig, RInv
<1>2. CASE UNCHANGED vars
  BY <1>2 DEF vars, RInv, TypeOK
<1>3. QED
  BY <1>1, <1>2 DEF Next

LEMMA RInvNormalized == RInv => ResourcesNormalized
<1> SUFFICES ASSUME RInv, validated, ~validateErr
             PROVE  /\ hostConfig.cpuCount >= MinCPUs
                    /\ hostConfig.memory >= MemoryMinMB
                    /\ hostConfig.memory % MemoryAlignMB = 0
                    /\ hostConfig.memory >= GoQuo(request.memory, MiB)
  BY DEF ResourcesNormalized
<1>1. request \in HostConfigType
  BY DEF RInv, TypeOK
<1>2. /\ hostConfig.cpuCount = NormalizedCPUs(request)
      /\ hostConfig.memory = NormalizedMemoryMB(request.memory)
  BY <1>1 DEF RInv, validateCreateConfig, HostConfigType
<1>3. QED
  BY <1>1, <1>2, CPUsNormalized, MemoryNormalized DEF HostConfigType

\* Whatever CPU count, CPU set and memory size the host config carries, a
\* config validateCreateConfig accepts has at least MinCPUs and a memory
\* size at least the floor, aligned for hot-add and not below the request.
THEOREM ResourcesNormalizedThm == Spec => []ResourcesNormalized
<1>1. Init => RInv
  BY InitRInv
<1>2. RInv /\ [Next]_vars => RInv'
  BY NextRInv
<1>3. RInv => ResourcesNormalized
  BY RInvNormalized
<1>4. QED
  BY <1>1, <1>2, <1>3, PTL DEF Spec
=============================================================================
