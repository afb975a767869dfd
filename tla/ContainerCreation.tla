-------------------------- MODULE ContainerCreation --------------------------
(***************************************************************************)
(* What the isolation proxy promises its caller (spec sections 3 and 4.1), *)
(* with handles, capabilities and remote calls hidden: each creation       *)
(* attempt runs until it reports success or failure; the container it      *)
(* builds comes into existence in one atomic commit, at most once, and     *)
(* only while its attempt is running.  An attempt that reports success has *)
(* its container; an attempt that reports failure may still have one,     *)
(* when the commit was applied and its answer lost.                        *)
(***************************************************************************)
CONSTANTS Attempts

VARIABLES
    status,   \* [Attempts -> Outcomes]: what the attempt has reported
    created   \* the attempts whose container exists on the runtime

vars == <<status, created>>

Outcomes == {"running", "succeeded", "failed"}

Init ==
    /\ status = [a \in Attempts |-> "running"]
    /\ created = {}

\* The commit of a's container: the attempt ends, told of the commit or not.
Create(a) ==
    /\ status[a] = "running"
    /\ a \notin created
    /\ created' = created \cup {a}
    /\ \E o \in {"succeeded", "failed"} : status' = [status EXCEPT ![a] = o]

\* The attempt ends with an error before any commit.
Fail(a) ==
    /\ status[a] = "running"
    /\ status' = [status EXCEPT ![a] = "failed"]
    /\ UNCHANGED created

Next == \E a \in Attempts : Create(a) \/ Fail(a)

Spec == Init /\ [][Next]_vars

=============================================================================
