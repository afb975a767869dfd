------------------------------- MODULE PodProxy -------------------------------
(***************************************************************************)
(* The pod proxy (pod_proxy.go): CreatePod translates each container of a  *)
(* pod, one after another, with KubeSpecToDockerCreateSpec and calls       *)
(* createContainer, which looks the image up in the image store and merges *)
(* the image's defaults into the config (setCreateConfigOptions).  A       *)
(* failed container is logged and the loop goes on; CreatePod returns nil. *)
(*                                                                         *)
(* The image store is modelled by its contract (spec section 6): Get       *)
(* returns the image's config or an error.  createContainer keeps the      *)
(* merged config in a local it only logs; the model records it in configs  *)
(* so that properties can speak of it.                                     *)
(***************************************************************************)
EXTENDS CreateConfig, FiniteSets

CONSTANTS
    Pods,          \* the pods CreatePod may be given: sequences of container specs
    ImageConfigs,  \* the image configs the image store may hold
    Images         \* image references

VARIABLES
    pod,          \* the pod being created
    imageConfig,  \* [Images -> ImageConfigs]: the image store's content
    next,         \* index of the container CreatePod handles next
    configs,      \* [1..Len(pod) -> ...]: the config createContainer built
    logged,       \* indices of containers whose creation failed and was logged
    returned      \* CreatePod has returned (nil)

\* An environment entry "k=v" of a []string Env, split at its first "=".
EnvEntry == [key : STRING, val : STRING]

\* The fields of a v1.Container that the translation reads.
ContainerSpec ==
    [name : STRING, image : Images, command : Seq(STRING), workingDir : STRING,
     tty : BOOLEAN, env : Seq(EnvEntry), cpuLimit : Int, memoryLimit : Int]

\* The fields of an image's config (metadata.ImageConfig) the merge reads.
ImageConfig ==
    [cmd : Seq(STRING), entrypoint : Seq(STRING), workingDir : STRING,
     user : STRING, volumes : SUBSET STRING, env : Seq(EnvEntry)]

\* A pod's Spec.Containers is a slice of containers; the image store holds
\* image configs.
ASSUME PodsAssumption == Pods \subseteq Seq(ContainerSpec)

ASSUME ImageConfigsAssumption == ImageConfigs \subseteq ImageConfig

vars == <<pod, imageConfig, next, configs, logged, returned>>

\* No config built (yet) for a container.
NoConfig == [none |-> TRUE]

Init ==
    /\ pod \in Pods
    /\ imageConfig \in [Images -> ImageConfigs]
    /\ next = 1
    /\ configs = [i \in 1 .. Len(pod) |-> NoConfig]
    /\ logged = {}
    /\ returned = FALSE

\* Mutant: the error createContainer returns is dropped unlogged.
CreateContainerUnlogged ==
    /\ next <= Len(pod)
    /\ LET config == KubeSpecToDockerCreateSpec(pod[next])
       IN  \/ UNCHANGED <<configs, logged>>
           \/ /\ configs' = [configs EXCEPT ![next] =
                     setCreateConfigOptions(config, imageConfig[config.image])]
              /\ UNCHANGED logged
    /\ next' = next + 1
    /\ UNCHANGED <<pod, imageConfig, returned>>

\* One iteration of CreatePod's loop: the container spec translated, then
\* createContainer: the image store's Get fails (createContainer returns
\* the error, CreatePod logs it) or the image's defaults are merged.
CreateContainer ==
    /\ next <= Len(pod)
    /\ LET config == KubeSpecToDockerCreateSpec(pod[next])
       IN  \/ /\ logged' = logged \cup {next}
              /\ UNCHANGED configs
           \/ /\ configs' = [configs EXCEPT ![next] =
                     setCreateConfigOptions(config, imageConfig[config.image])]
              /\ UNCHANGED logged
    /\ next' = next + 1
    /\ UNCHANGED <<pod, imageConfig, returned>>

\* After the loop CreatePod returns nil, whatever failed.
CreatePodReturn ==
    /\ next > Len(pod)
    /\ ~returned
    /\ returned' = TRUE
    /\ UNCHANGED <<pod, imageConfig, next, configs, logged>>

Next == CreateContainer \/ CreatePodReturn

Spec == Init /\ [][Next]_vars

-----------------------------------------------------------------------------
(* Properties.                                                             *)

Configured == {i \in DOMAIN configs : configs[i] # NoConfig}

\* The value a program reading env sees for key k (the first entry).
Lookup(env, k) == IF k \in KeysOf(env) THEN FirstWith(env, k).val ELSE "unset"

\* Spec section 4.2, the environment merge policy: the user's value, else
\* for PATH the image's or the default path, else for TERM with a tty
\* "xterm", else the image's value.
PolicyValue(tty, user, img, k) ==
    IF k \in KeysOf(user) THEN Lookup(user, k)
    ELSE IF k = "PATH" THEN (IF "PATH" \in KeysOf(img) THEN Lookup(img, "PATH")
                                                    ELSE DefaultPathEntry.val)
    ELSE IF k = "TERM" /\ tty THEN XtermEntry.val
    ELSE Lookup(img, k)

PolicyKeys(tty, user, img) ==
    KeysOf(user) \cup KeysOf(img) \cup {"PATH"} \cup (IF tty THEN {"TERM"} ELSE {})

\* Every container createContainer configured has, for every variable, the
\* value spec section 4.2 prescribes over the environment the docker config
\* carries and the image's, and no other variable; the user's command and
\* working directory win over the image's, which fill what the user left
\* empty.
MergedAsSpecified ==
    \A i \in Configured :
        LET user == KubeSpecToDockerCreateSpec(pod[i])
            img  == imageConfig[user.image]
            env  == configs[i].env
        IN  /\ KeysOf(env) = PolicyKeys(user.tty, user.env, img.env)
            /\ \A k \in KeysOf(env) :
                  Lookup(env, k) = PolicyValue(user.tty, user.env, img.env, k)
            /\ configs[i].cmd = IF pod[i].command # <<>> THEN pod[i].command ELSE img.cmd
            /\ configs[i].workingDir =
                  IF pod[i].workingDir # "" THEN pod[i].workingDir ELSE img.workingDir

\* Spec section 8: the resolved environment has exactly one PATH entry.
OnePathEntry ==
    \A i \in Configured :
        Cardinality({j \in 1 .. Len(configs[i].env) : configs[i].env[j].key = "PATH"}) = 1

\* CreatePod's best-effort loop returns nil whatever failed, but loses no
\* container silently: once it has returned, each container of the pod
\* was either configured by createContainer or its failure was logged,
\* and never both.
FailuresLogged ==
    returned => \A i \in 1 .. Len(pod) : (i \in logged) # (i \in Configured)

-----------------------------------------------------------------------------
(* What the spec says of the code and the code does not do.                *)

\* Spec section 4.2: an image variable is appended only when its key is not
\* already present, so no variable appears twice.
EnvKeysUnique ==
    \A i \in Configured :
        \A j, l \in 1 .. Len(configs[i].env) :
            j # l => configs[i].env[j].key # configs[i].env[l].key

\* Spec sections 4.2 and 8: the merge starts from the user's environment and
\* the user's values win.
KubeEnvKept ==
    \A i \in Configured :
        \A k \in KeysOf(pod[i].env) :
            Lookup(configs[i].env, k) = Lookup(pod[i].env, k)

=============================================================================
