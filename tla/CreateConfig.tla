----------------------------- MODULE CreateConfig -----------------------------
(***************************************************************************)
(* The configuration translation of the pod proxy (pod_proxy.go), as pure  *)
(* operators: a Kubernetes container spec to a docker create config        *)
(* (KubeSpecToDockerCreateSpec), the image defaults merged into it         *)
(* (setCreateConfigOptions with its PATH / TERM / env merge), and the CPU  *)
(* and memory normalisation of validateCreateConfig.                       *)
(*                                                                         *)
(* Data abstraction: an environment entry "k=v" is the record [key, val]   *)
(* (strings.SplitN(e, "=", 2)); every entry is assumed to contain "=", so  *)
(* that HasPrefix(e, "PATH=") is key = "PATH".  Commands are sequences of  *)
(* opaque tokens, volumes sets of names.  Integers are int64 in the code:  *)
(* no expression below can overflow for an int64 input (memory in MiB is   *)
(* at most 2^43).                                                          *)
(***************************************************************************)
EXTENDS Integers, Sequences, FiniteSets

\* pod_proxy.go constants.
MemoryAlignMB   == 128
MemoryMinMB     == 512
MemoryDefaultMB == 2048
MinCPUs         == 1
DefaultCPUs     == 2

\* units.MiB
MiB == 1048576

DefaultPathEntry == [key |-> "PATH", val |-> "defaultEnvPath"]
XtermEntry       == [key |-> "TERM", val |-> "xterm"]

-----------------------------------------------------------------------------
(* Environment merge.                                                      *)

\* The keys of an environment: the domain of containerEnv.
KeysOf(env) == {env[i].key : i \in 1 .. Len(env)}

\* The first entry of env with key k.
FirstWith(env, k) ==
    env[CHOOSE i \in 1 .. Len(env) :
            env[i].key = k /\ \A j \in 1 .. i - 1 : env[j].key # k]

\* The positions of imgEnv whose key is not in containerEnv.
Kept(imgEnv, containerEnv) ==
    {i \in 1 .. Len(imgEnv) : imgEnv[i].key \notin containerEnv}

\* The place of kept position i among the kept positions I.
KeptRank(I, i) == Cardinality({m \in I : m <= i})

\* The loop over imgEnv: each entry whose key is not in containerEnv is
\* appended, in imgEnv's order.  The j-th entry appended is the kept
\* position of rank j.
UnsetImageEnv(imgEnv, containerEnv) ==
    LET I == Kept(imgEnv, containerEnv)
    IN  [j \in 1 .. Cardinality(I) |-> imgEnv[CHOOSE i \in I : KeptRank(I, i) = j]]

\* setPathFromImageConfig: a user PATH is kept; otherwise the image's first
\* PATH entry is appended, or else the default path.
setPathFromImageConfig(env, imgEnv) ==
    IF "PATH" \in KeysOf(env) THEN env
    ELSE IF "PATH" \in KeysOf(imgEnv) THEN Append(env, FirstWith(imgEnv, "PATH"))
    ELSE Append(env, DefaultPathEntry)

\* Mutant: TERM=xterm appended after the image's variables.
setEnvFromImageConfigLateTerm(tty, env, imgEnv) ==
    LET withPath == setPathFromImageConfig(env, imgEnv)
        containerEnv == KeysOf(withPath)
        merged == withPath \o UnsetImageEnv(imgEnv, containerEnv)
    IN  IF tty /\ "TERM" \notin containerEnv THEN Append(merged, XtermEntry)
                                            ELSE merged

\* Mutant: containerEnv built from the user's environment before the PATH
\* entry was added.
setEnvFromImageConfigEarlyKeys(tty, env, imgEnv) ==
    LET withPath == setPathFromImageConfig(env, imgEnv)
        containerEnv == KeysOf(env)
        withTerm == IF tty /\ "TERM" \notin containerEnv
                    THEN Append(withPath, XtermEntry) ELSE withPath
    IN  withTerm \o UnsetImageEnv(imgEnv, containerEnv)

\* setEnvFromImageConfig: PATH first; then TERM=xterm when a tty is asked for
\* and TERM is unset; then every image entry whose key is not in
\* containerEnv.  containerEnv is built once, after the PATH step, and is
\* not updated by the TERM entry nor by the image entries appended.
setEnvFromImageConfig(tty, env, imgEnv) ==
    LET withPath == setPathFromImageConfig(env, imgEnv)
        containerEnv == KeysOf(withPath)
        withTerm == IF tty /\ "TERM" \notin containerEnv
                    THEN Append(withPath, XtermEntry) ELSE withPath
    IN  withTerm \o UnsetImageEnv(imgEnv, containerEnv)

-----------------------------------------------------------------------------
(* Create config.                                                          *)

\* KubeSpecToDockerCreateSpec: name, image, working directory, tty, stdin
\* flags, the command when non-empty and the CPU and memory limits.  The
\* container's Env, Args and any entrypoint or user are not copied.
KubeSpecToDockerCreateSpec(c) ==
    [name       |-> c.name,
     image      |-> c.image,
     workingDir |-> c.workingDir,
     tty        |-> c.tty,
     cmd        |-> c.command,
     entrypoint |-> <<>>,
     user       |-> "",
     env        |-> <<>>,
     volumes    |-> {},
     cpuCount   |-> c.cpuLimit,
     cpuset     |-> [set |-> FALSE, parses |-> FALSE, first |-> 0],
     memory     |-> c.memoryLimit]

\* setCreateConfigOptions: each of Cmd, WorkingDir, Entrypoint and User the
\* user left empty is taken from the image; the image's volumes are added;
\* then the environment is merged.
setCreateConfigOptions(config, img) ==
    [config EXCEPT
        !.cmd        = IF @ = <<>> THEN img.cmd ELSE @,
        !.workingDir = IF @ = "" THEN img.workingDir ELSE @,
        !.entrypoint = IF @ = <<>> THEN img.entrypoint ELSE @,
        !.volumes    = @ \cup img.volumes,
        !.user       = IF @ = "" THEN img.user ELSE @,
        !.env        = setEnvFromImageConfig(config.tty, @, img.env)]

-----------------------------------------------------------------------------
(* Resource normalisation (validateCreateConfig).                          *)

\* Go's integer division truncates toward zero.
GoQuo(x, y) == IF x >= 0 THEN x \div y ELSE -((-x) \div y)

\* The CPU count before the floor: a positive CPUCount, else the first
\* field of CpusetCpus parsed with Atoi, else DefaultCPUs.
RequestedCPUs(hc) ==
    IF hc.cpuCount > 0 THEN hc.cpuCount
    ELSE IF hc.cpuset.set THEN hc.cpuset.first
    ELSE DefaultCPUs

\* Atoi failed on the first field of a non-empty CpusetCpus.
CPUParseError(hc) == hc.cpuCount <= 0 /\ hc.cpuset.set /\ ~hc.cpuset.parses

NormalizedCPUs(hc) ==
    IF RequestedCPUs(hc) < MinCPUs THEN MinCPUs ELSE RequestedCPUs(hc)

\* Memory in MiB with the default for 0 and the floor applied.
FlooredMemoryMB(mb) ==
    IF mb = 0 THEN MemoryDefaultMB
    ELSE IF mb < MemoryMinMB THEN MemoryMinMB
    ELSE mb

\* Mutant: the remainder dropped instead of rounding up.
AlignMemoryDown(mb) ==
    IF mb % MemoryAlignMB # 0 THEN mb - (mb % MemoryAlignMB) ELSE mb

\* Rounding up to the hot-add alignment.
AlignMemory(mb) ==
    IF mb % MemoryAlignMB # 0 THEN mb + (MemoryAlignMB - (mb % MemoryAlignMB))
    ELSE mb

NormalizedMemoryMB(bytes) == AlignMemory(FlooredMemoryMB(GoQuo(bytes, MiB)))

\* validateCreateConfig on the host config hc: an unparsable cpuset returns
\* an error before anything is written; otherwise CPUCount and Memory (now
\* in MiB) are overwritten with their normalised values.
validateCreateConfig(hc) ==
    IF CPUParseError(hc)
    THEN [err |-> TRUE, hostConfig |-> hc]
    ELSE [err |-> FALSE,
          hostConfig |-> [hc EXCEPT !.cpuCount = NormalizedCPUs(hc),
                                    !.memory = NormalizedMemoryMB(hc.memory)]]

=============================================================================
