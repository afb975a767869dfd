------------------------------- MODULE MC_PodProxy -------------------------------
EXTENDS PodProxy

E(k, v) == [key |-> k, val |-> v]

MCImages == {"busybox"}

\* Image environments: none; a PATH; a TERM; a variable listed twice; two
\* PATH entries and a TERM.
MCImageEnvs ==
    {<<>>,
     <<E("PATH", "imgPath")>>,
     <<E("TERM", "vt100")>>,
     <<E("HOME", "/root"), E("HOME", "/home")>>,
     <<E("PATH", "imgPath"), E("PATH", "imgPath2"), E("TERM", "vt100")>>}

\* Image configs: no command, a Cmd, or an Entrypoint; with or without a
\* working directory.
MCImageConfigs ==
    {[cmd |-> ce[1], entrypoint |-> ce[2], workingDir |-> wd, user |-> "nobody",
      volumes |-> {"/data"}, env |-> ie] :
        ce \in {<<<<>>, <<>>>>, <<<<"imgCmd">>, <<>>>>, <<<<>>, <<"/init">>>>},
        wd \in {"", "/img"},
        ie \in MCImageEnvs}

\* Container specs: with or without a command, a working directory and a
\* tty; an environment that is empty, sets HOME or sets TERM.
MCContainers ==
    {[name |-> "c", image |-> "busybox", command |-> cmd, workingDir |-> wd,
      tty |-> tty, env |-> ke, cpuLimit |-> 0, memoryLimit |-> 0] :
        cmd \in {<<>>, <<"userCmd">>},
        wd \in {"", "/user"},
        tty \in BOOLEAN,
        ke \in {<<>>, <<E("HOME", "/user")>>, <<E("TERM", "xterm-256color")>>}}

\* Pods of two containers, so that a failed first container is followed by
\* a second one.
MCPods == {<<c1, c2>> : c1, c2 \in MCContainers}

\* The image-entry loop of setEnvFromImageConfig is the filter of imgEnv by
\* the keys not in containerEnv, on every image environment of the model
\* and every key set the merge can build.
ASSUME UnsetImageEnvIsFilter ==
    \A ie \in MCImageEnvs, C \in SUBSET {"PATH", "TERM", "HOME"} :
        UnsetImageEnv(ie, C) = SelectSeq(ie, LAMBDA e : e.key \notin C)
=============================================================================
