---------------------- MODULE IsolationProxyCallsProofs ----------------------
(***************************************************************************)
(* Proof that every attempt's remote calls follow the pipeline order, for  *)
(* every set of attempts and every handle bound.                           *)
(*                                                                         *)
(* CallsFollowPipeline is not inductive: it says nothing of how many calls *)
(* a running attempt has made, so it cannot tell that the next call is the *)
(* next one of PipelineOps.  CInv adds it: an attempt that has not failed  *)
(* made exactly the calls of the stages before its own (CallsAt), all of   *)
(* them successful.  Each method appends the calls of its own stage, and  *)
(* only an attempt it moves to "failed" may end with a failed call.        *)
(***************************************************************************)
EXTENDS IsolationProxyProofs, SequenceTheorems

\* The number of remote calls made before an attempt reaches stage s:
\* Create, ImageJoin, TaskJoin and TaskBind, ScopeAdd, LoggingJoin,
\* InteractionJoin, and Commit.
CallsAt(s) ==
    CASE s = "create"      -> 0
      [] s = "image"       -> 1
      [] s = "task"        -> 2
      [] s = "scope"       -> 4
      [] s = "logging"     -> 5
      [] s = "interaction" -> 6
      [] s = "commit"      -> 7
      [] s = "done"        -> 8

\* The calls of s are the first Len(s) calls of the pipeline.
Prefix(s) ==
    /\ Len(s) <= Len(PipelineOps)
    /\ \A i \in 1 .. Len(s) : s[i].op = PipelineOps[i]

AllOk(s) == \A i \in 1 .. Len(s) : s[i].ok

ButLastOk(s) == \A i \in 1 .. Len(s) - 1 : s[i].ok

CInv ==
    \A a \in Attempts :
        /\ Prefix(calls[a])
        /\ ButLastOk(calls[a])
        /\ stage[a] # "failed" =>
              Len(calls[a]) = CallsAt(stage[a]) /\ AllOk(calls[a])

-----------------------------------------------------------------------------

LEMMA PipelineLen == Len(PipelineOps) = 8
  BY DEF PipelineOps

\* Appending to a prefix of successful calls the next calls of the
\* pipeline, all but the last successful, gives a prefix again.
LEMMA Extend ==
    ASSUME NEW s \in Seq(Calls), NEW cs \in Seq(Calls),
           Prefix(s), AllOk(s),
           Len(s) + Len(cs) <= Len(PipelineOps),
           \A j \in 1 .. Len(cs) : cs[j].op = PipelineOps[Len(s) + j],
           ButLastOk(cs)
    PROVE  /\ s \o cs \in Seq(Calls)
           /\ Len(s \o cs) = Len(s) + Len(cs)
           /\ Prefix(s \o cs)
           /\ ButLastOk(s \o cs)
           /\ AllOk(cs) => AllOk(s \o cs)
<1>1. /\ s \o cs \in Seq(Calls)
      /\ Len(s \o cs) = Len(s) + Len(cs)
      /\ \A i \in 1 .. Len(s) + Len(cs) :
            (s \o cs)[i] = IF i <= Len(s) THEN s[i] ELSE cs[i - Len(s)]
  BY ConcatProperties
<1>2. Len(s) \in Nat /\ Len(cs) \in Nat
  BY LenProperties
<1>3. Prefix(s \o cs)
  <2>1. ASSUME NEW i \in 1 .. Len(s \o cs) PROVE (s \o cs)[i].op = PipelineOps[i]
    <3>1. CASE i <= Len(s)
      BY <1>1, <3>1 DEF Prefix
    <3>2. CASE i > Len(s)
      <4>1. i - Len(s) \in 1 .. Len(cs) /\ Len(s) + (i - Len(s)) = i
        BY <1>1, <1>2, <3>2
      <4>2. QED
        BY <1>1, <4>1
    <3>3. QED
      BY <1>1, <1>2, <3>1, <3>2
  <2>2. QED
    BY <1>1, <2>1 DEF Prefix
<1>4. ButLastOk(s \o cs)
  <2>1. ASSUME NEW i \in 1 .. Len(s \o cs) - 1 PROVE (s \o cs)[i].ok
    <3>1. CASE i <= Len(s)
      BY <1>1, <1>2, <3>1 DEF AllOk
    <3>2. CASE i > Len(s)
      <4>1. i - Len(s) \in 1 .. Len(cs) - 1
        BY <1>1, <1>2, <3>2
      <4>2. QED
        BY <1>1, <1>2, <3>2, <4>1 DEF ButLastOk
    <3>3. QED
      BY <1>1, <1>2, <3>1, <3>2
  <2>2. QED
    BY <2>1 DEF ButLastOk
<1>5. AllOk(cs) => AllOk(s \o cs)
  <2>1. ASSUME AllOk(cs), NEW i \in 1 .. Len(s \o cs) PROVE (s \o cs)[i].ok
    <3>1. CASE i <= Len(s)
      BY <1>1, <3>1 DEF AllOk
    <3>2. CASE i > Len(s)
      <4>1. i - Len(s) \in 1 .. Len(cs)
        BY <1>1, <1>2, <3>2
      <4>2. QED
        BY <1>1, <2>1, <3>2, <4>1 DEF AllOk
    <3>3. QED
      BY <1>1, <1>2, <3>1, <3>2
  <2>2. QED
    BY <2>1 DEF AllOk
<1>6. QED
  BY <1>1, <1>3, <1>4, <1>5

\* A step of attempt a that has not failed, appending calls cs and moving a
\* to s2, keeps CInv, provided cs are the next calls of the pipeline, all
\* but the last successful, and a stage other than "failed" is reached only
\* with all of them successful and exactly its calls made.
LEMMA StepCInv ==
    ASSUME TypeOK, CInv, NEW a \in Attempts,
           NEW cs \in Seq(Calls), NEW s2 \in Stages,
           stage[a] # "failed",
           MakeCalls(a, cs),
           stage' = [stage EXCEPT ![a] = s2],
           CallsAt(stage[a]) + Len(cs) <= Len(PipelineOps),
           \A j \in 1 .. Len(cs) : cs[j].op = PipelineOps[CallsAt(stage[a]) + j],
           ButLastOk(cs),
           s2 # "failed" => AllOk(cs) /\ CallsAt(s2) = CallsAt(stage[a]) + Len(cs)
    PROVE  CInv'
<1>1. /\ calls[a] \in Seq(Calls)
      /\ Prefix(calls[a]) /\ AllOk(calls[a])
      /\ Len(calls[a]) = CallsAt(stage[a])
  BY DEF TypeOK, CInv
<1>2. /\ calls[a] \o cs \in Seq(Calls)
      /\ Len(calls[a] \o cs) = Len(calls[a]) + Len(cs)
      /\ Prefix(calls[a] \o cs)
      /\ ButLastOk(calls[a] \o cs)
      /\ AllOk(cs) => AllOk(calls[a] \o cs)
  BY <1>1, Extend
<1>3. calls'[a] = calls[a] \o cs /\ stage'[a] = s2
  BY DEF MakeCalls, TypeOK
<1>4. \A b \in Attempts \ {a} : calls'[b] = calls[b] /\ stage'[b] = stage[b]
  BY DEF MakeCalls, TypeOK
<1>5. QED
  BY <1>1, <1>2, <1>3, <1>4 DEF CInv

\* One call, the next of the pipeline, as every method but CreateHandleTask
\* makes.
LEMMA OneCallCInv ==
    ASSUME TypeOK, CInv, NEW a \in Attempts, NEW op, NEW ok \in BOOLEAN,
           NEW s2 \in Stages, NEW n \in {0, 1, 4, 5, 6, 7},
           stage[a] # "failed",
           CallsAt(stage[a]) = n,
           op = PipelineOps[n + 1],
           MakeCalls(a, <<Call(op, ok)>>),
           stage' = [stage EXCEPT ![a] = s2],
           s2 # "failed" => ok /\ CallsAt(s2) = n + 1
    PROVE  CInv'
<1> DEFINE cs == <<Call(op, ok)>>
<1>1. op \in {"Create", "ImageJoin", "TaskJoin", "TaskBind", "ScopeAdd",
              "LoggingJoin", "InteractionJoin", "Commit"}
  BY DEF PipelineOps
<1>2. cs \in Seq(Calls)
  BY <1>1, CallType
<1>3. Len(cs) = 1 /\ cs[1].op = op /\ cs[1].ok = ok
  BY DEF Call
<1>4. CallsAt(stage[a]) + Len(cs) <= Len(PipelineOps)
  BY <1>3, PipelineLen
<1>5. \A j \in 1 .. Len(cs) : cs[j].op = PipelineOps[CallsAt(stage[a]) + j]
  BY <1>3
<1>6. ButLastOk(cs)
  BY <1>3 DEF ButLastOk
<1>7. ok => AllOk(cs)
  <2>1. \A i \in 1 .. Len(cs) : i = 1
    BY <1>3
  <2>2. QED
    BY <1>3, <2>1, Zenon DEF AllOk
<1>8. s2 # "failed" => AllOk(cs) /\ CallsAt(s2) = CallsAt(stage[a]) + Len(cs)
  <2>1. HAVE s2 # "failed"
  <2>2. ok /\ CallsAt(s2) = n + 1
    BY <2>1
  <2>3. AllOk(cs)
    BY <2>2, <1>7
  <2>4. QED
    BY <1>3, <2>2, <2>3
<1>9. QED
  BY <1>2, <1>4, <1>5, <1>6, <1>8, StepCInv

\* A step that makes no call and either fails the attempt or leaves every
\* stage alone (the host UUID lookup failing, the cmd[0] panic).
LEMMA NoCallCInv ==
    ASSUME TypeOK, CInv, NEW a \in Attempts,
           UNCHANGED calls,
           \/ stage' = [stage EXCEPT ![a] = "failed"]
           \/ UNCHANGED stage
    PROVE  CInv'
  BY DEF CInv, TypeOK, AllOk, ButLastOk

\* The number of calls before each stage, and the call each stage makes.
LEMMA CallsAtValues ==
    /\ CallsAt("create") = 0 /\ CallsAt("image") = 1 /\ CallsAt("task") = 2
    /\ CallsAt("scope") = 4 /\ CallsAt("logging") = 5
    /\ CallsAt("interaction") = 6 /\ CallsAt("commit") = 7
    /\ CallsAt("done") = 8
    /\ PipelineOps[1] = "Create" /\ PipelineOps[2] = "ImageJoin"
    /\ PipelineOps[3] = "TaskJoin" /\ PipelineOps[4] = "TaskBind"
    /\ PipelineOps[5] = "ScopeAdd" /\ PipelineOps[6] = "LoggingJoin"
    /\ PipelineOps[7] = "InteractionJoin" /\ PipelineOps[8] = "Commit"
  BY DEF CallsAt, PipelineOps

-----------------------------------------------------------------------------
(* One lemma per method.                                                   *)

\* Abort fails the attempt; Proceed moves it to the stage given.
LEMMA MovesStage ==
    ASSUME NEW a, NEW h, NEW next
    PROVE  /\ Abort(a, h) => stage' = [stage EXCEPT ![a] = "failed"]
           /\ Proceed(a, next, h) => stage' = [stage EXCEPT ![a] = next]
  BY DEF Abort, Proceed

LEMMA CreateHandleCInv ==
    ASSUME TypeOK, CInv, NEW a \in Attempts, CreateHandle(a) PROVE CInv'
<1>1. stage[a] = "create" /\ CallsAt(stage[a]) = 0
  BY CallsAtValues DEF CreateHandle
<1>2. CASE Abort(a, NoHandle) /\ UNCHANGED <<calls, nextHandle, hdef>>
  BY <1>2, MovesStage, NoCallCInv
<1>3. CASE MakeCalls(a, <<Call("Create", TRUE)>>) /\ Proceed(a, "image", nextHandle)
  <2>1. stage' = [stage EXCEPT ![a] = "image"]
    BY <1>3, MovesStage
  <2>2. /\ "Create" = PipelineOps[0 + 1] /\ stage[a] # "failed"
        /\ "image" \in Stages /\ TRUE \in BOOLEAN /\ 0 \in {0, 1, 4, 5, 6, 7}
        /\ ("image" # "failed" => TRUE /\ CallsAt("image") = 0 + 1)
    BY <1>1, CallsAtValues DEF Stages
  <2>3. QED
    BY <1>1, <1>3, <2>1, <2>2, OneCallCInv
<1>4. CASE MakeCalls(a, <<Call("Create", FALSE)>>) /\ Abort(a, NoHandle)
  <2>1. stage' = [stage EXCEPT ![a] = "failed"]
    BY <1>4, MovesStage
  <2>2. /\ "Create" = PipelineOps[0 + 1] /\ stage[a] # "failed"
        /\ "failed" \in Stages /\ FALSE \in BOOLEAN /\ 0 \in {0, 1, 4, 5, 6, 7}
        /\ ("failed" # "failed" => FALSE /\ CallsAt("failed") = 0 + 1)
    BY <1>1, CallsAtValues DEF Stages
  <2>3. QED
    BY <1>1, <1>4, <2>1, <2>2, OneCallCInv
<1>5. QED
  BY <1>2, <1>3, <1>4 DEF CreateHandle

\* The shared shape of AddImageToHandle, AddLoggingToHandle and
\* AddInteractionToHandle.
LEMMA JoinStepCInv ==
    ASSUME TypeOK, CInv, NEW a \in Attempts, NEW op, NEW cap, NEW next \in Stages,
           NEW n \in {1, 5, 6},
           stage[a] # "failed",
           CallsAt(stage[a]) = n,
           op = PipelineOps[n + 1],
           next # "failed" /\ CallsAt(next) = n + 1,
           JoinStep(a, op, cap, next)
    PROVE  CInv'
<1>1. CASE MakeCalls(a, <<Call(op, TRUE)>>) /\ Proceed(a, next, nextHandle)
  <2>1. stage' = [stage EXCEPT ![a] = next]
    BY <1>1, MovesStage
  <2>2. /\ TRUE \in BOOLEAN /\ n \in {0, 1, 4, 5, 6, 7}
        /\ (next # "failed" => TRUE /\ CallsAt(next) = n + 1)
    OBVIOUS
  <2>3. QED
    BY <1>1, <2>1, <2>2, OneCallCInv
<1>2. CASE MakeCalls(a, <<Call(op, TRUE)>>) /\ Abort(a, NoHandle)
  <2>1. stage' = [stage EXCEPT ![a] = "failed"]
    BY <1>2, MovesStage
  <2>2. /\ TRUE \in BOOLEAN /\ n \in {0, 1, 4, 5, 6, 7} /\ "failed" \in Stages
        /\ ("failed" # "failed" => TRUE /\ CallsAt("failed") = n + 1)
    BY DEF Stages
  <2>3. QED
    BY <1>2, <2>1, <2>2, OneCallCInv
<1>3. CASE MakeCalls(a, <<Call(op, FALSE)>>) /\ Abort(a, NoHandle)
  <2>1. stage' = [stage EXCEPT ![a] = "failed"]
    BY <1>3, MovesStage
  <2>2. /\ FALSE \in BOOLEAN /\ n \in {0, 1, 4, 5, 6, 7} /\ "failed" \in Stages
        /\ ("failed" # "failed" => FALSE /\ CallsAt("failed") = n + 1)
    BY DEF Stages
  <2>3. QED
    BY <1>3, <2>1, <2>2, OneCallCInv
<1>4. QED
  BY <1>1, <1>2, <1>3 DEF JoinStep, CheckedPayload

LEMMA AddImageToHandleCInv ==
    ASSUME TypeOK, CInv, NEW a \in Attempts, AddImageToHandle(a) PROVE CInv'
<1>1. stage[a] = "image" /\ CallsAt(stage[a]) = 1
  BY CallsAtValues DEF AddImageToHandle
<1>2. CASE Abort(a, NoHandle) /\ UNCHANGED <<calls, nextHandle, hdef>>
  BY <1>2, MovesStage, NoCallCInv
<1>3. CASE JoinStep(a, "ImageJoin", "image", "task")
  <2>1. /\ stage[a] # "failed" /\ 1 \in {1, 5, 6}
        /\ "ImageJoin" = PipelineOps[1 + 1] /\ "task" \in Stages
        /\ "task" # "failed" /\ CallsAt("task") = 1 + 1
    BY <1>1, CallsAtValues DEF Stages
  <2>2. QED
    BY <1>1, <1>3, <2>1, JoinStepCInv
<1>4. QED
  BY <1>2, <1>3 DEF AddImageToHandle

LEMMA AddLoggingToHandleCInv ==
    ASSUME TypeOK, CInv, NEW a \in Attempts, AddLoggingToHandle(a) PROVE CInv'
<1>1. stage[a] = "logging" /\ CallsAt(stage[a]) = 5
  BY CallsAtValues DEF AddLoggingToHandle
<1>2. JoinStep(a, "LoggingJoin", "logging", "interaction")
  BY DEF AddLoggingToHandle
<1>3. QED
  <2>1. /\ stage[a] # "failed" /\ 5 \in {1, 5, 6}
        /\ "LoggingJoin" = PipelineOps[5 + 1] /\ "interaction" \in Stages
        /\ "interaction" # "failed" /\ CallsAt("interaction") = 5 + 1
    BY <1>1, CallsAtValues DEF Stages
  <2>2. QED
    BY <1>1, <1>2, <2>1, JoinStepCInv

LEMMA AddInteractionToHandleCInv ==
    ASSUME TypeOK, CInv, NEW a \in Attempts, AddInteractionToHandle(a)
    PROVE  CInv'
<1>1. stage[a] = "interaction" /\ CallsAt(stage[a]) = 6
  BY CallsAtValues DEF AddInteractionToHandle
<1>2. JoinStep(a, "InteractionJoin", "interaction", "commit")
  BY DEF AddInteractionToHandle
<1>3. QED
  <2>1. /\ stage[a] # "failed" /\ 6 \in {1, 5, 6}
        /\ "InteractionJoin" = PipelineOps[6 + 1] /\ "commit" \in Stages
        /\ "commit" # "failed" /\ CallsAt("commit") = 6 + 1
    BY <1>1, CallsAtValues DEF Stages
  <2>2. QED
    BY <1>1, <1>2, <2>1, JoinStepCInv

LEMMA CreateHandleTaskCInv ==
    ASSUME TypeOK, CInv, NEW a \in Attempts, CreateHandleTask(a) PROVE CInv'
<1>1. stage[a] = "task" /\ stage[a] # "failed" /\ CallsAt(stage[a]) = 2
  BY CallsAtValues DEF CreateHandleTask
<1>2. CASE UNCHANGED <<stage, calls>>
  BY <1>2, NoCallCInv
<1>3. CASE MakeCalls(a, <<Call("TaskJoin", FALSE)>>) /\ Abort(a, NoHandle)
  <2>1. stage' = [stage EXCEPT ![a] = "failed"]
    BY <1>3, MovesStage
  <2> DEFINE cs == <<Call("TaskJoin", FALSE)>>
  <2>2. cs \in Seq(Calls)
    BY CallType
  <2>3. Len(cs) = 1 /\ cs[1].op = "TaskJoin"
    BY DEF Call
  <2>4. /\ \A j \in 1 .. Len(cs) : cs[j].op = PipelineOps[CallsAt(stage[a]) + j]
        /\ CallsAt(stage[a]) + Len(cs) <= Len(PipelineOps)
        /\ ButLastOk(cs)
    <3>1. \A j \in 1 .. Len(cs) : j = 1
      BY <2>3
    <3>2. PipelineOps[CallsAt(stage[a]) + 1] = "TaskJoin"
      BY <1>1, CallsAtValues
    <3>3. \A j \in 1 .. Len(cs) : cs[j].op = PipelineOps[CallsAt(stage[a]) + j]
      BY <2>3, <3>1, <3>2
    <3>4. CallsAt(stage[a]) + Len(cs) <= Len(PipelineOps)
      BY <1>1, <2>3, PipelineLen
    <3>5. ButLastOk(cs)
      BY <2>3 DEF ButLastOk
    <3>6. QED
      BY <3>3, <3>4, <3>5
  <2>5. /\ "failed" \in Stages
        /\ ("failed" # "failed" => AllOk(cs) /\ CallsAt("failed") = CallsAt(stage[a]) + Len(cs))
    BY DEF Stages
  <2>6. QED
    BY <1>1, <1>3, <2>1, <2>2, <2>4, <2>5, StepCInv
<1>4. ASSUME NEW ok \in BOOLEAN, NEW s2 \in {"scope", "failed"},
             MakeCalls(a, <<Call("TaskJoin", TRUE), Call("TaskBind", ok)>>),
             stage' = [stage EXCEPT ![a] = s2],
             s2 = "scope" => ok
      PROVE  CInv'
  <2> DEFINE cs == <<Call("TaskJoin", TRUE), Call("TaskBind", ok)>>
  <2>1. cs \in Seq(Calls)
    BY CallType, TwoCallsType
  <2>2. /\ Len(cs) = 2
        /\ ButLastOk(cs)
        /\ ok => AllOk(cs)
    BY DEF ButLastOk, AllOk, Call
  <2>3. \A j \in 1 .. Len(cs) : cs[j].op = PipelineOps[CallsAt(stage[a]) + j]
    BY <1>1, <2>2, CallsAtValues DEF Call
  <2>4. CallsAt(stage[a]) + Len(cs) <= Len(PipelineOps)
    BY <1>1, <2>2, PipelineLen
  <2>5. s2 # "failed" => AllOk(cs) /\ CallsAt(s2) = CallsAt(stage[a]) + Len(cs)
    BY <1>1, <1>4, <2>2, CallsAtValues
  <2>6. s2 \in Stages
    BY DEF Stages
  <2>7. QED
    BY <1>1, <1>4, <2>1, <2>2, <2>3, <2>4, <2>5, <2>6, StepCInv
<1>5. CASE MakeCalls(a, <<Call("TaskJoin", TRUE)>>) /\ Abort(a, NoHandle)
  <2>1. stage' = [stage EXCEPT ![a] = "failed"]
    BY <1>5, MovesStage
  <2> DEFINE cs == <<Call("TaskJoin", TRUE)>>
  <2>2. cs \in Seq(Calls)
    BY CallType
  <2>3. Len(cs) = 1 /\ cs[1].op = "TaskJoin"
    BY DEF Call
  <2>4. /\ \A j \in 1 .. Len(cs) : cs[j].op = PipelineOps[CallsAt(stage[a]) + j]
        /\ CallsAt(stage[a]) + Len(cs) <= Len(PipelineOps)
        /\ ButLastOk(cs)
    <3>1. \A j \in 1 .. Len(cs) : j = 1
      BY <2>3
    <3>2. PipelineOps[CallsAt(stage[a]) + 1] = "TaskJoin"
      BY <1>1, CallsAtValues
    <3>3. \A j \in 1 .. Len(cs) : cs[j].op = PipelineOps[CallsAt(stage[a]) + j]
      BY <2>3, <3>1, <3>2
    <3>4. CallsAt(stage[a]) + Len(cs) <= Len(PipelineOps)
      BY <1>1, <2>3, PipelineLen
    <3>5. ButLastOk(cs)
      BY <2>3 DEF ButLastOk
    <3>6. QED
      BY <3>3, <3>4, <3>5
  <2>5. /\ "failed" \in Stages
        /\ ("failed" # "failed" => AllOk(cs) /\ CallsAt("failed") = CallsAt(stage[a]) + Len(cs))
    BY DEF Stages
  <2>6. QED
    BY <1>1, <1>5, <2>1, <2>2, <2>4, <2>5, StepCInv
<1>6. CASE MakeCalls(a, <<Call("TaskJoin", TRUE), Call("TaskBind", FALSE)>>)
           /\ Abort(a, NoHandle)
  BY <1>6, MovesStage, <1>4
<1>7. CASE MakeCalls(a, <<Call("TaskJoin", TRUE), Call("TaskBind", TRUE)>>)
           /\ (Proceed(a, "scope", nextHandle + 1) \/ Abort(a, NoHandle))
  BY <1>7, MovesStage, <1>4
<1>8. QED
  BY <1>2, <1>3, <1>5, <1>6, <1>7 DEF CreateHandleTask

LEMMA AddHandleToScopeCInv ==
    ASSUME TypeOK, CInv, NEW a \in Attempts, AddHandleToScope(a) PROVE CInv'
<1>1. stage[a] = "scope" /\ CallsAt(stage[a]) = 4
  BY CallsAtValues DEF AddHandleToScope
<1>2. CASE MakeCalls(a, <<Call("ScopeAdd", TRUE)>>) /\ Proceed(a, "logging", nextHandle)
  <2>1. stage' = [stage EXCEPT ![a] = "logging"]
    BY <1>2, MovesStage
  <2>2. /\ "ScopeAdd" = PipelineOps[4 + 1] /\ stage[a] # "failed"
        /\ "logging" \in Stages /\ TRUE \in BOOLEAN /\ 4 \in {0, 1, 4, 5, 6, 7}
        /\ ("logging" # "failed" => TRUE /\ CallsAt("logging") = 4 + 1)
    BY <1>1, CallsAtValues DEF Stages
  <2>3. QED
    BY <1>1, <1>2, <2>1, <2>2, OneCallCInv
<1>3. CASE MakeCalls(a, <<Call("ScopeAdd", FALSE)>>) /\ Abort(a, handle[a])
  <2>1. stage' = [stage EXCEPT ![a] = "failed"]
    BY <1>3, MovesStage
  <2>2. /\ "ScopeAdd" = PipelineOps[4 + 1] /\ stage[a] # "failed"
        /\ "failed" \in Stages /\ FALSE \in BOOLEAN /\ 4 \in {0, 1, 4, 5, 6, 7}
        /\ ("failed" # "failed" => FALSE /\ CallsAt("failed") = 4 + 1)
    BY <1>1, CallsAtValues DEF Stages
  <2>3. QED
    BY <1>1, <1>3, <2>1, <2>2, OneCallCInv
<1>4. QED
  BY <1>2, <1>3 DEF AddHandleToScope

LEMMA CommitHandleCInv ==
    ASSUME TypeOK, CInv, NEW a \in Attempts, CommitHandle(a) PROVE CInv'
<1>1. stage[a] = "commit" /\ CallsAt(stage[a]) = 7
  BY CallsAtValues DEF CommitHandle
<1>2. CASE MakeCalls(a, <<Call("Commit", TRUE)>>) /\ Proceed(a, "done", NoHandle)
  <2>1. stage' = [stage EXCEPT ![a] = "done"]
    BY <1>2, MovesStage
  <2>2. /\ "Commit" = PipelineOps[7 + 1] /\ stage[a] # "failed"
        /\ "done" \in Stages /\ TRUE \in BOOLEAN /\ 7 \in {0, 1, 4, 5, 6, 7}
        /\ ("done" # "failed" => TRUE /\ CallsAt("done") = 7 + 1)
    BY <1>1, CallsAtValues DEF Stages
  <2>3. QED
    BY <1>1, <1>2, <2>1, <2>2, OneCallCInv
<1>3. CASE MakeCalls(a, <<Call("Commit", FALSE)>>) /\ Abort(a, NoHandle)
  <2>1. stage' = [stage EXCEPT ![a] = "failed"]
    BY <1>3, MovesStage
  <2>2. /\ "Commit" = PipelineOps[7 + 1] /\ stage[a] # "failed"
        /\ "failed" \in Stages /\ FALSE \in BOOLEAN /\ 7 \in {0, 1, 4, 5, 6, 7}
        /\ ("failed" # "failed" => FALSE /\ CallsAt("failed") = 7 + 1)
    BY <1>1, CallsAtValues DEF Stages
  <2>3. QED
    BY <1>1, <1>3, <2>1, <2>2, OneCallCInv
<1>4. QED
  BY <1>2, <1>3 DEF CommitHandle

-----------------------------------------------------------------------------

LEMMA InitCInv == Init => CInv
  BY DEF Init, CInv, Prefix, AllOk, ButLastOk, CallsAt

LEMMA NextCInv == TypeOK /\ CInv /\ [Next]_vars => CInv'
<1> SUFFICES ASSUME TypeOK, CInv, [Next]_vars PROVE CInv'
  OBVIOUS
<1>1. CASE UNCHANGED vars
  BY <1>1 DEF vars, proxyVars, CInv
<1>2. CASE Next
  <2>1. PICK a \in Attempts : Step(a)
    BY <1>2 DEF Next
  <2>2. QED
    BY <2>1, CreateHandleCInv, AddImageToHandleCInv, CreateHandleTaskCInv,
          AddHandleToScopeCInv, AddLoggingToHandleCInv,
          AddInteractionToHandleCInv, CommitHandleCInv DEF Step
<1>3. QED
  BY <1>1, <1>2

LEMMA CInvFollows == TypeOK /\ CInv => CallsFollowPipeline
<1> SUFFICES ASSUME TypeOK, CInv, NEW a \in Attempts
             PROVE  /\ Len(calls[a]) <= Len(PipelineOps)
                    /\ \A i \in 1 .. Len(calls[a]) :
                          /\ calls[a][i].op = PipelineOps[i]
                          /\ i < Len(calls[a]) => calls[a][i].ok
                    /\ stage[a] = "done" =>
                          /\ Len(calls[a]) = Len(PipelineOps)
                          /\ \A i \in 1 .. Len(calls[a]) : calls[a][i].ok
  BY DEF CallsFollowPipeline
<1>1. Len(calls[a]) \in Nat
  BY LenProperties DEF TypeOK
<1>2. Prefix(calls[a]) /\ ButLastOk(calls[a])
  BY DEF CInv
<1>3. Len(calls[a]) <= Len(PipelineOps)
  BY <1>2 DEF Prefix
<1>4. ASSUME NEW i \in 1 .. Len(calls[a])
      PROVE  /\ calls[a][i].op = PipelineOps[i]
             /\ i < Len(calls[a]) => calls[a][i].ok
  <2>1. calls[a][i].op = PipelineOps[i]
    BY <1>2 DEF Prefix
  <2>2. i < Len(calls[a]) => i \in 1 .. Len(calls[a]) - 1
    BY <1>1
  <2>3. QED
    BY <1>2, <2>1, <2>2 DEF ButLastOk
<1>5. stage[a] = "done" =>
          /\ Len(calls[a]) = Len(PipelineOps)
          /\ \A i \in 1 .. Len(calls[a]) : calls[a][i].ok
  <2>1. HAVE stage[a] = "done"
  <2>2. Len(calls[a]) = CallsAt(stage[a]) /\ AllOk(calls[a])
    BY <2>1 DEF CInv
  <2>3. QED
    BY <2>1, <2>2, PipelineLen DEF CallsAt, AllOk
<1>6. QED
  BY <1>3, <1>4, <1>5

\* Whatever interleaving of attempts, failed calls and lost responses
\* happens, each attempt's remote calls are the pipeline's calls in order,
\* every call but the last one succeeded (every error returns at once, the
\* Tasks.Join error before Tasks.Bind included), and an attempt that
\* reports success made the whole pipeline, Commit included.
THEOREM CallsFollowPipelineThm == Spec => []CallsFollowPipeline
<1>1. Init => CInv
  BY InitCInv
<1>2. TypeOK /\ TypeOK' /\ CInv /\ [Next]_vars => CInv'
  BY NextCInv
<1>3. TypeOK /\ CInv => CallsFollowPipeline
  BY CInvFollows
<1>4. QED
  BY <1>1, <1>2, <1>3, TypeCorrect, PTL DEF Spec
=============================================================================
