--------------------------- MODULE IsolationProxy ---------------------------
(***************************************************************************)
(* The isolation proxy of the VIC provider (VicIsolationProxy in           *)
(* src/providers/vic/proxy/image_store.go, the isolation_proxy.go part):   *)
(* the handle pipeline that builds one container on the port layer.        *)
(*                                                                         *)
(* Each attempt in Attempts creates one container.  It calls, in the order *)
(* the spec (section 4.1) fixes, CreateHandle, AddImageToHandle,           *)
(* CreateHandleTask, AddHandleToScope, AddLoggingToHandle,                 *)
(* AddInteractionToHandle and CommitHandle, each consuming the handle the  *)
(* previous one returned; the first error ends the attempt.  Attempts run  *)
(* concurrently (spec section 5) and share only the port layer.            *)
(*                                                                         *)
(* The port layer (remote) is modelled by its contract: a handle is an     *)
(* opaque id naming a pending definition, the set of capabilities joined   *)
(* so far; every successful join issues a fresh handle whose definition is *)
(* the old one plus the capability; joining the scope reserves an endpoint *)
(* on the "default" network; Commit makes the definition of the handle the *)
(* container's.  A failed call may have been applied by the server before  *)
(* its response was lost (deadline or transport error).                    *)
(***************************************************************************)
EXTENDS Naturals, Sequences, FiniteSets

CONSTANTS
    Attempts,       \* container-creation attempts, one container each
    MaxHandles,     \* bound on the handles the port layer issues
    Malformed       \* a response payload whose Handle is not a string

ASSUME AttemptsAssumption == IsFiniteSet(Attempts) /\ Attempts # {}
ASSUME MaxHandlesAssumption == MaxHandles \in Nat

VARIABLES
    stage,      \* [Attempts -> Stages]: the proxy call the attempt makes next
    handle,     \* [Attempts -> ...]: the handle the attempt holds
    config,     \* [Attempts -> Configs]: its IsolationContainerConfig (input)
    calls,      \* [Attempts -> Seq(Calls)]: the remote calls it made, in order
    crashed,    \* the process panicked
    nextHandle, \* remote: the next handle id the port layer issues
    hdef,       \* remote: the pending definition each handle names
    endpoints,  \* remote: containers holding an endpoint on the scope
    committed,  \* remote: containers committed
    cdef        \* remote: the committed definition of each container

proxyVars  == <<stage, handle, config, calls, crashed>>
remoteVars == <<nextHandle, hdef, endpoints, committed, cdef>>
vars == <<proxyVars, remoteVars>>

-----------------------------------------------------------------------------
(* Data.                                                                   *)

\* The empty string "" returned as the handle with an error.
NoHandle == 0

HandleIds == 1 .. MaxHandles

\* Capabilities a join adds to a pending definition.
Caps == {"image", "taskJoined", "taskBound", "scope", "logging", "interaction"}

\* The remote calls, in the order the pipeline makes them.
PipelineOps == <<"Create", "ImageJoin", "TaskJoin", "TaskBind",
                 "ScopeAdd", "LoggingJoin", "InteractionJoin", "Commit">>

Ops == {PipelineOps[i] : i \in 1 .. Len(PipelineOps)} \cup {"ScopeRemove"}

Calls == [op : Ops, ok : BOOLEAN]

Stages == {"create", "image", "task", "scope", "logging", "interaction",
           "commit", "done", "failed"}

\* What of an IsolationContainerConfig the pipeline tells apart: whether
\* PortMap is non-empty, whether Entrypoint and Cmd are non-empty.
Configs == [ports : BOOLEAN, entrypoint : BOOLEAN, cmd : BOOLEAN]

\* networkConfigFromIsolationConfig: always a NetworkConfig for the network
\* "default", with one "hostPort:containerPort" entry per PortMap entry.
networkConfigFromIsolationConfig(c) == [network |-> "default", ports |-> c.ports]

\* IsolationContainerConfigToTask resolves path and args from Entrypoint, or
\* else from Cmd by cmd[0]; with both empty cmd[0] is an index out of range.
HasTaskPath(c) == c.entrypoint \/ c.cmd

-----------------------------------------------------------------------------
(* Steps shared by the operations.                                         *)

\* The attempt makes the remote calls cs, in order.
MakeCalls(a, cs) == calls' = [calls EXCEPT ![a] = @ \o cs]

Call(op, ok) == [op |-> op, ok |-> ok]

\* The operation returns handle h and no error; the attempt moves on.
Proceed(a, next, h) ==
    /\ stage' = [stage EXCEPT ![a] = next]
    /\ handle' = [handle EXCEPT ![a] = h]

\* The operation returns handle h with an error; the attempt ends.
Abort(a, h) ==
    /\ stage' = [stage EXCEPT ![a] = "failed"]
    /\ handle' = [handle EXCEPT ![a] = h]

\* The port layer issues the fresh handle nextHandle for definition d.
Issue(d) ==
    /\ nextHandle <= MaxHandles
    /\ hdef' = [hdef EXCEPT ![nextHandle] = d]
    /\ nextHandle' = nextHandle + 1

\* Mutant: the response's Handle used without the .(string) assertion.
CheckedPayloadUnasserted(a, next, d) ==
    \/ Issue(d) /\ Proceed(a, next, nextHandle)
    \/ Issue(d) /\ Proceed(a, next, Malformed)

\* The handle field of a join response, checked with .(string): a malformed
\* payload is an InternalServerError and the empty handle.
CheckedPayload(a, next, d) ==
    \/ Issue(d) /\ Proceed(a, next, nextHandle)
    \/ Issue(d) /\ Abort(a, NoHandle)

\* A join of capability cap by remote call op whose response carries the
\* handle in an interface{} field: AddImageToHandle, AddLoggingToHandle and
\* AddInteractionToHandle share this shape.
JoinStep(a, op, cap, next) ==
    \/ /\ MakeCalls(a, <<Call(op, TRUE)>>)
       /\ CheckedPayload(a, next, hdef[handle[a]] \cup {cap})
    \/ /\ MakeCalls(a, <<Call(op, FALSE)>>)
       /\ Abort(a, NoHandle)
       /\ UNCHANGED <<nextHandle, hdef>>

-----------------------------------------------------------------------------
(* Operations: one action per method of VicIsolationProxy.                 *)

Init ==
    /\ stage = [a \in Attempts |-> "create"]
    /\ handle = [a \in Attempts |-> NoHandle]
    /\ config \in [Attempts -> Configs]
    /\ calls = [a \in Attempts |-> <<>>]
    /\ crashed = FALSE
    /\ nextHandle = 1
    /\ hdef = [h \in HandleIds |-> {}]
    /\ endpoints = {}
    /\ committed = {}
    /\ cdef = [a \in Attempts |-> {}]

\* CreateHandle: the host UUID lookup may fail before any remote call; then
\* Containers.Create of the placeholder image returns the skeleton's handle.
CreateHandle(a) ==
    /\ ~crashed
    /\ stage[a] = "create"
    /\ \/ /\ Abort(a, NoHandle)
          /\ UNCHANGED <<calls, nextHandle, hdef>>
       \/ /\ MakeCalls(a, <<Call("Create", TRUE)>>)
          /\ Issue({})
          /\ Proceed(a, "image", nextHandle)
       \/ /\ MakeCalls(a, <<Call("Create", FALSE)>>)
          /\ Abort(a, NoHandle)
          /\ UNCHANGED <<nextHandle, hdef>>
    /\ UNCHANGED <<config, crashed, endpoints, committed, cdef>>

\* AddImageToHandle: the host UUID lookup may fail; then Storage.ImageJoin.
AddImageToHandle(a) ==
    /\ ~crashed
    /\ stage[a] = "image"
    /\ \/ /\ Abort(a, NoHandle)
          /\ UNCHANGED <<calls, nextHandle, hdef>>
       \/ JoinStep(a, "ImageJoin", "image", "task")
    /\ UNCHANGED <<config, crashed, endpoints, committed, cdef>>

\* The port layer issues two fresh handles, for definitions d1 and d2.
IssueTwo(d1, d2) ==
    /\ nextHandle + 1 <= MaxHandles
    /\ hdef' = [hdef EXCEPT ![nextHandle] = d1, ![nextHandle + 1] = d2]
    /\ nextHandle' = nextHandle + 2

\* Mutant: no return after a Tasks.Join error; Tasks.Bind is called with
\* the empty handle and fails.
CreateHandleTaskNoJoinReturn(a) ==
    /\ ~crashed
    /\ stage[a] = "task"
    /\ HasTaskPath(config[a])
    /\ MakeCalls(a, <<Call("TaskJoin", FALSE), Call("TaskBind", FALSE)>>)
    /\ Abort(a, NoHandle)
    /\ UNCHANGED <<crashed, nextHandle, hdef, config, endpoints, committed, cdef>>

\* CreateHandleTask: IsolationContainerConfigToTask (which panics when
\* Entrypoint and Cmd are both empty), then Tasks.Join and, on the handle it
\* returns, Tasks.Bind.  An error or a malformed payload of either call
\* returns at once with the empty handle.
CreateHandleTask(a) ==
    LET joined == hdef[handle[a]] \cup {"taskJoined"}
    IN
    /\ ~crashed
    /\ stage[a] = "task"
    /\ \/ /\ ~HasTaskPath(config[a])
          /\ crashed' = TRUE
          /\ UNCHANGED <<stage, handle, calls, nextHandle, hdef>>
       \/ /\ HasTaskPath(config[a])
          /\ UNCHANGED crashed
          /\ \/ /\ MakeCalls(a, <<Call("TaskJoin", FALSE)>>)
                /\ Abort(a, NoHandle)
                /\ UNCHANGED <<nextHandle, hdef>>
             \/ /\ MakeCalls(a, <<Call("TaskJoin", TRUE)>>)
                /\ Issue(joined)
                /\ Abort(a, NoHandle)
             \/ /\ MakeCalls(a, <<Call("TaskJoin", TRUE), Call("TaskBind", FALSE)>>)
                /\ Issue(joined)
                /\ Abort(a, NoHandle)
             \/ /\ MakeCalls(a, <<Call("TaskJoin", TRUE), Call("TaskBind", TRUE)>>)
                /\ IssueTwo(joined, joined \cup {"taskBound"})
                /\ \/ Proceed(a, "scope", nextHandle + 1)
                   \/ Abort(a, NoHandle)
    /\ UNCHANGED <<config, endpoints, committed, cdef>>

\* Mutant: the AddContainer payload is not assigned to handle; the input
\* handle is returned.
AddHandleToScopeStaleHandle(a) ==
    /\ ~crashed
    /\ stage[a] = "scope"
    /\ MakeCalls(a, <<Call("ScopeAdd", TRUE)>>)
    /\ endpoints' = endpoints \cup {a}
    /\ Issue(hdef[handle[a]] \cup {"scope"})
    /\ Proceed(a, "logging", handle[a])
    /\ UNCHANGED <<config, crashed, committed, cdef>>

\* AddHandleToScope: networkConfigFromIsolationConfig is never nil, so
\* Scopes.AddContainer is called for every config (its nil branch is dead).
\* On an error the input handle is returned, and the server may have
\* reserved the endpoint before the response was lost.  The deferred
\* rollback tests the err of AddContainer, which is nil wherever the defer
\* is registered: RemoveContainer is never called.
AddHandleToScope(a) ==
    /\ ~crashed
    /\ stage[a] = "scope"
    /\ \/ /\ MakeCalls(a, <<Call("ScopeAdd", TRUE)>>)
          /\ endpoints' = endpoints \cup {a}
          /\ Issue(hdef[handle[a]] \cup {"scope"})
          /\ Proceed(a, "logging", nextHandle)
       \/ /\ MakeCalls(a, <<Call("ScopeAdd", FALSE)>>)
          /\ UNCHANGED <<endpoints, nextHandle, hdef>>
          /\ Abort(a, handle[a])
       \/ /\ MakeCalls(a, <<Call("ScopeAdd", FALSE)>>)
          /\ endpoints' = endpoints \cup {a}
          /\ UNCHANGED <<nextHandle, hdef>>
          /\ Abort(a, handle[a])
    /\ UNCHANGED <<config, crashed, committed, cdef>>

\* AddLoggingToHandle: Logging.LoggingJoin.
AddLoggingToHandle(a) ==
    /\ ~crashed
    /\ stage[a] = "logging"
    /\ JoinStep(a, "LoggingJoin", "logging", "interaction")
    /\ UNCHANGED <<config, crashed, endpoints, committed, cdef>>

\* AddInteractionToHandle: Interaction.InteractionJoin.
AddInteractionToHandle(a) ==
    /\ ~crashed
    /\ stage[a] = "interaction"
    /\ JoinStep(a, "InteractionJoin", "interaction", "commit")
    /\ UNCHANGED <<config, crashed, endpoints, committed, cdef>>

\* Mutant: a Commit whose answer was lost is retried by the attempt, which
\* stays at the commit step although the container was already committed.
CommitHandleRetried(a) ==
    /\ ~crashed
    /\ stage[a] = "commit"
    /\ MakeCalls(a, <<Call("Commit", FALSE)>>)
    /\ committed' = committed \cup {a}
    /\ cdef' = [cdef EXCEPT ![a] = hdef[handle[a]]]
    /\ UNCHANGED <<stage, handle, config, crashed, nextHandle, hdef, endpoints>>

\* CommitHandle: Containers.Commit of the handle; NotFound, Conflict and the
\* other errors all end the attempt.  A commit the server applied may still
\* be reported as an error when its response is lost.
CommitHandle(a) ==
    /\ ~crashed
    /\ stage[a] = "commit"
    /\ \/ /\ MakeCalls(a, <<Call("Commit", TRUE)>>)
          /\ committed' = committed \cup {a}
          /\ cdef' = [cdef EXCEPT ![a] = hdef[handle[a]]]
          /\ Proceed(a, "done", NoHandle)
       \/ /\ MakeCalls(a, <<Call("Commit", FALSE)>>)
          /\ UNCHANGED <<committed, cdef>>
          /\ Abort(a, NoHandle)
       \/ /\ MakeCalls(a, <<Call("Commit", FALSE)>>)
          /\ committed' = committed \cup {a}
          /\ cdef' = [cdef EXCEPT ![a] = hdef[handle[a]]]
          /\ Abort(a, NoHandle)
    /\ UNCHANGED <<config, crashed, nextHandle, hdef, endpoints>>

Step(a) ==
    \/ CreateHandle(a)
    \/ AddImageToHandle(a)
    \/ CreateHandleTask(a)
    \/ AddHandleToScope(a)
    \/ AddLoggingToHandle(a)
    \/ AddInteractionToHandle(a)
    \/ CommitHandle(a)

Next == \E a \in Attempts : Step(a)

\* No fairness: every remote call is made with NewXParamsWithContext(ctx)
\* and a Commit with waitTime <= 0 sends no wait bound, so whether a call
\* returns rests on the caller's context and the port layer, not on this
\* code.
Spec == Init /\ [][Next]_vars

-----------------------------------------------------------------------------
(* Properties.                                                             *)

TypeOK ==
    /\ stage \in [Attempts -> Stages]
    /\ handle \in [Attempts -> {NoHandle} \cup HandleIds]
    /\ config \in [Attempts -> Configs]
    /\ calls \in [Attempts -> Seq(Calls)]
    /\ crashed \in BOOLEAN
    /\ nextHandle \in 1 .. MaxHandles + 1
    /\ hdef \in [HandleIds -> SUBSET Caps]
    /\ endpoints \subseteq Attempts
    /\ committed \subseteq Attempts
    /\ cdef \in [Attempts -> SUBSET Caps]

\* What a container must carry to run: the image, the primary task joined
\* and bound, logging, interaction, and the scope when it publishes ports.
RequiredCaps(c) ==
    {"image", "taskJoined", "taskBound", "logging", "interaction"}
        \cup (IF c.ports THEN {"scope"} ELSE {})

\* Every container the port layer has committed, whether or not its attempt
\* heard of the commit, carries every capability the pipeline joins: each
\* CreateHandleTask, AddHandleToScope and Add...ToHandle passed the handle
\* the previous call returned, never a stale one, down to CommitHandle.
CommittedComplete ==
    \A a \in committed : RequiredCaps(config[a]) \subseteq cdef[a]

\* The remote calls of every attempt are a prefix of the pipeline's order,
\* every call but the last one succeeded (each error returned at once, the
\* Tasks.Join error included, and nothing was called after it), and an
\* attempt that reports success made the whole pipeline successfully.
CallsFollowPipeline ==
    \A a \in Attempts :
        /\ Len(calls[a]) <= Len(PipelineOps)
        /\ \A i \in 1 .. Len(calls[a]) :
              /\ calls[a][i].op = PipelineOps[i]
              /\ i < Len(calls[a]) => calls[a][i].ok
        /\ stage[a] = "done" =>
              /\ Len(calls[a]) = Len(PipelineOps)
              /\ \A i \in 1 .. Len(calls[a]) : calls[a][i].ok

-----------------------------------------------------------------------------
(* Refinement: the pipeline implements ContainerCreation.                  *)

\* What an attempt has reported to its caller at each stage.
StatusOf(s) ==
    CASE s = "done"   -> "succeeded"
      [] s = "failed" -> "failed"
      [] OTHER        -> "running"

Status == [a \in Attempts |-> StatusOf(stage[a])]

Creation == INSTANCE ContainerCreation WITH status <- Status, created <- committed

\* The pipeline, seen through the reports of its attempts and the set of
\* committed containers, is a behaviour of ContainerCreation: a container is
\* committed at most once, only by its running attempt, and in the same
\* step that attempt returns; an attempt that reports success was committed.
CreationRefined == Creation!Spec

-----------------------------------------------------------------------------
(* What the spec says of the code and the code does not do.                *)

ScopeAddFailed(a) ==
    \E i \in 1 .. Len(calls[a]) : calls[a][i] = Call("ScopeAdd", FALSE)

\* Spec 4.1 and 8: when Scopes.AddContainer fails, AddHandleToScope calls
\* Scopes.RemoveContainer exactly once before returning the error.
ScopeRollbackAttempted ==
    \A a \in Attempts :
        ScopeAddFailed(a) =>
            Cardinality({i \in 1 .. Len(calls[a]) : calls[a][i].op = "ScopeRemove"}) = 1

\* Spec 8: AddHandleToScope with an empty port map makes no scope call.
NoScopeCallWithoutPorts ==
    \A a \in Attempts :
        ~config[a].ports => \A i \in 1 .. Len(calls[a]) : calls[a][i].op # "ScopeAdd"

\* Spec 4.1 leaves an empty Cmd with an empty Entrypoint undefined: the
\* pipeline should fail the attempt with an error, not stop the process.
NoPanic == ~crashed

=============================================================================
