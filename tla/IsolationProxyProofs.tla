------------------------ MODULE IsolationProxyProofs ------------------------
(***************************************************************************)
(* Proofs about the handle pipeline of IsolationProxy, for every set of    *)
(* attempts and every handle bound.                                        *)
(*                                                                         *)
(* TypeOK is not inductive on its own: a join reads hdef[handle[a]], which *)
(* is a set of capabilities only when handle[a] is an issued handle.  And  *)
(* CommittedComplete speaks of committed containers only; what makes it    *)
(* hold is what the handle of a running attempt carries.  HandleInv states *)
(* both: the handle of an attempt that has not ended is issued (below      *)
(* nextHandle, so later issues never overwrite its definition) and names   *)
(* a definition holding every capability joined by the steps before.      *)
(***************************************************************************)
EXTENDS IsolationProxy, TLAPS

\* The stages in which an attempt holds a handle.
LiveStages == {"image", "task", "scope", "logging", "interaction", "commit"}

\* The capabilities the steps before stage s have joined.
CapsAt(s) ==
    CASE s = "image"       -> {}
      [] s = "task"        -> {"image"}
      [] s = "scope"       -> {"image", "taskJoined", "taskBound"}
      [] s = "logging"     -> {"image", "taskJoined", "taskBound", "scope"}
      [] s = "interaction" -> {"image", "taskJoined", "taskBound", "scope",
                               "logging"}
      [] s = "commit"      -> Caps

HandleInv ==
    \A a \in Attempts :
        stage[a] \in LiveStages =>
            /\ handle[a] \in 1 .. nextHandle - 1
            /\ CapsAt(stage[a]) \subseteq hdef[handle[a]]

IInv == TypeOK /\ HandleInv /\ CommittedComplete

-----------------------------------------------------------------------------

\* Every remote call the operations record is a well-typed call.
LEMMA CallType ==
    ASSUME NEW op \in {"Create", "ImageJoin", "TaskJoin", "TaskBind", "ScopeAdd",
                       "LoggingJoin", "InteractionJoin", "Commit"},
           NEW ok \in BOOLEAN
    PROVE  /\ Call(op, ok) \in Calls
           /\ <<Call(op, ok)>> \in Seq(Calls)
<1>1. op \in Ops
  <2>1. Len(PipelineOps) = 8
    BY DEF PipelineOps
  <2>2. \E i \in 1 .. Len(PipelineOps) : PipelineOps[i] = op
    BY <2>1 DEF PipelineOps
  <2>3. QED
    BY <2>2 DEF Ops
<1>2. Call(op, ok) \in Calls
  BY <1>1 DEF Call, Calls
<1>3. QED
  BY <1>2

\* Appending well-typed calls to an attempt's log keeps the log well typed.
LEMMA MakeCallsType ==
    ASSUME TypeOK, NEW a \in Attempts, NEW cs \in Seq(Calls), MakeCalls(a, cs)
    PROVE  calls' \in [Attempts -> Seq(Calls)]
BY DEF TypeOK, MakeCalls

\* Issuing a handle for a definition of capabilities keeps hdef well typed,
\* and leaves the definition of every issued handle as it was.
LEMMA IssueType ==
    ASSUME TypeOK, NEW d \in SUBSET Caps, Issue(d)
    PROVE  /\ nextHandle' \in 1 .. MaxHandles + 1
           /\ hdef' \in [HandleIds -> SUBSET Caps]
           /\ nextHandle \in HandleIds
           /\ hdef'[nextHandle] = d
           /\ nextHandle' = nextHandle + 1
           /\ \A h \in 1 .. nextHandle - 1 : hdef'[h] = hdef[h]
BY MaxHandlesAssumption DEF TypeOK, Issue, HandleIds

\* Two calls made in one operation form a well-typed log segment.
LEMMA TwoCallsType ==
    ASSUME NEW c1 \in Calls, NEW c2 \in Calls
    PROVE  <<c1, c2>> \in Seq(Calls)
<1>1. <<c1, c2>> \in [1 .. 2 -> Calls]
  OBVIOUS
<1>2. QED
  BY <1>1

\* Issuing two handles, as Tasks.Join then Tasks.Bind do, likewise.
LEMMA IssueTwoType ==
    ASSUME TypeOK, NEW d1 \in SUBSET Caps, NEW d2 \in SUBSET Caps,
           IssueTwo(d1, d2)
    PROVE  /\ nextHandle' \in 1 .. MaxHandles + 1
           /\ hdef' \in [HandleIds -> SUBSET Caps]
           /\ nextHandle + 1 \in HandleIds
           /\ nextHandle' = nextHandle + 2
           /\ hdef'[nextHandle + 1] = d2
           /\ \A h \in 1 .. nextHandle - 1 : hdef'[h] = hdef[h]
BY MaxHandlesAssumption DEF TypeOK, IssueTwo, HandleIds

LEMMA InitIInv == Init => IInv
<1> SUFFICES ASSUME Init PROVE IInv
  OBVIOUS
<1>1. TypeOK
  <2>1. stage \in [Attempts -> Stages] /\ handle \in [Attempts -> {NoHandle} \cup HandleIds]
    BY DEF Init, Stages
  <2>2. calls \in [Attempts -> Seq(Calls)]
    BY DEF Init
  <2>3. nextHandle \in 1 .. MaxHandles + 1 /\ hdef \in [HandleIds -> SUBSET Caps]
    BY MaxHandlesAssumption DEF Init
  <2>4. QED
    BY <2>1, <2>2, <2>3 DEF Init, TypeOK
<1>2. HandleInv
  BY DEF Init, HandleInv, LiveStages
<1>3. CommittedComplete
  BY DEF Init, CommittedComplete
<1>4. QED
  BY <1>1, <1>2, <1>3 DEF IInv

LEMMA CreateHandleIInv ==
    ASSUME IInv, NEW a \in Attempts, CreateHandle(a)
    PROVE  IInv'
<1>0. TypeOK
  BY DEF IInv
<1>1. CASE /\ Abort(a, NoHandle)
           /\ UNCHANGED <<calls, nextHandle, hdef>>
  BY <1>1 DEF CreateHandle, IInv, TypeOK, HandleInv, CommittedComplete, Abort,
              Stages, LiveStages
<1>2. CASE /\ MakeCalls(a, <<Call("Create", TRUE)>>)
           /\ Issue({})
           /\ Proceed(a, "image", nextHandle)
  <2>0. <<Call("Create", TRUE)>> \in Seq(Calls)
    BY CallType
  <2>1. calls' \in [Attempts -> Seq(Calls)]
    BY <1>0, <1>2, <2>0, MakeCallsType
  <2>2. /\ nextHandle' \in 1 .. MaxHandles + 1
        /\ hdef' \in [HandleIds -> SUBSET Caps]
        /\ nextHandle \in HandleIds
        /\ hdef'[nextHandle] = {}
        /\ \A h \in 1 .. nextHandle - 1 : hdef'[h] = hdef[h]
    BY <1>0, <1>2, IssueType
  <2>3. TypeOK'
    BY <1>2, <2>1, <2>2 DEF CreateHandle, IInv, TypeOK, Proceed, Stages
  <2>4. HandleInv'
    BY <1>2, <2>2 DEF CreateHandle, IInv, TypeOK, HandleInv, Proceed, Issue,
                      LiveStages, CapsAt
  <2>5. CommittedComplete'
    BY <1>2 DEF CreateHandle, IInv, CommittedComplete
  <2>6. QED
    BY <2>3, <2>4, <2>5 DEF IInv
<1>3. CASE /\ MakeCalls(a, <<Call("Create", FALSE)>>)
           /\ Abort(a, NoHandle)
           /\ UNCHANGED <<nextHandle, hdef>>
  <2>0. <<Call("Create", FALSE)>> \in Seq(Calls)
    BY CallType
  <2>1. calls' \in [Attempts -> Seq(Calls)]
    BY <1>0, <1>3, <2>0, MakeCallsType
  <2>2. QED
    BY <1>3, <2>1 DEF CreateHandle, IInv, TypeOK, HandleInv, CommittedComplete,
                      Abort, Stages, LiveStages
<1>4. QED
  BY <1>1, <1>2, <1>3 DEF CreateHandle

\* A join step of an attempt that holds a handle keeps IInv, provided the
\* stage it moves to needs no capability but the joined one and those the
\* current stage already guarantees.
LEMMA JoinStepIInv ==
    ASSUME IInv,
           NEW a \in Attempts,
           NEW op \in {"ImageJoin", "LoggingJoin", "InteractionJoin"},
           NEW cap \in Caps,
           NEW next \in LiveStages,
           stage[a] \in LiveStages,
           CapsAt(next) \subseteq CapsAt(stage[a]) \cup {cap},
           JoinStep(a, op, cap, next),
           UNCHANGED <<config, crashed, endpoints, committed, cdef>>
    PROVE  IInv'
<1>0. TypeOK
  BY DEF IInv
<1>1. /\ handle[a] \in 1 .. nextHandle - 1
      /\ CapsAt(stage[a]) \subseteq hdef[handle[a]]
  BY DEF IInv, HandleInv
<1> DEFINE d == hdef[handle[a]] \cup {cap}
<1>2. d \in SUBSET Caps
  BY <1>0, <1>1, MaxHandlesAssumption DEF TypeOK, HandleIds
<1>3. CASE /\ MakeCalls(a, <<Call(op, TRUE)>>)
           /\ Issue(d)
           /\ Proceed(a, next, nextHandle)
  <2>1. calls' \in [Attempts -> Seq(Calls)]
    BY <1>0, <1>3, CallType, MakeCallsType
  <2>2. /\ nextHandle' \in 1 .. MaxHandles + 1
        /\ hdef' \in [HandleIds -> SUBSET Caps]
        /\ nextHandle \in HandleIds
        /\ hdef'[nextHandle] = d
        /\ \A h \in 1 .. nextHandle - 1 : hdef'[h] = hdef[h]
    BY <1>0, <1>2, <1>3, IssueType
  <2>3. TypeOK'
    BY <1>3, <2>1, <2>2, <1>0 DEF TypeOK, Proceed, Stages, LiveStages
  <2>4. HandleInv'
    BY <1>0, <1>1, <1>3, <2>2 DEF TypeOK, IInv, HandleInv, Proceed, Issue
  <2>5. CommittedComplete'
    BY DEF IInv, CommittedComplete
  <2>6. QED
    BY <2>3, <2>4, <2>5 DEF IInv
<1>4. CASE /\ MakeCalls(a, <<Call(op, TRUE)>>)
           /\ Issue(d)
           /\ Abort(a, NoHandle)
  <2>1. calls' \in [Attempts -> Seq(Calls)]
    BY <1>0, <1>4, CallType, MakeCallsType
  <2>2. /\ nextHandle' \in 1 .. MaxHandles + 1
        /\ hdef' \in [HandleIds -> SUBSET Caps]
        /\ nextHandle \in HandleIds
        /\ \A h \in 1 .. nextHandle - 1 : hdef'[h] = hdef[h]
    BY <1>0, <1>2, <1>4, IssueType
  <2>3. TypeOK'
    BY <1>4, <2>1, <2>2, <1>0 DEF TypeOK, Abort, Stages, NoHandle
  <2>4. HandleInv'
    BY <1>0, <1>4, <2>2 DEF TypeOK, IInv, HandleInv, Abort, Issue, LiveStages
  <2>5. CommittedComplete'
    BY DEF IInv, CommittedComplete
  <2>6. QED
    BY <2>3, <2>4, <2>5 DEF IInv
<1>5. CASE /\ MakeCalls(a, <<Call(op, FALSE)>>)
           /\ Abort(a, NoHandle)
           /\ UNCHANGED <<nextHandle, hdef>>
  <2>1. calls' \in [Attempts -> Seq(Calls)]
    BY <1>0, <1>5, CallType, MakeCallsType
  <2>2. QED
    BY <1>5, <2>1 DEF IInv, TypeOK, HandleInv, CommittedComplete, Abort,
                      Stages, LiveStages, NoHandle
<1>6. QED
  BY <1>3, <1>4, <1>5 DEF JoinStep, CheckedPayload

LEMMA AddImageToHandleIInv ==
    ASSUME IInv, NEW a \in Attempts, AddImageToHandle(a)
    PROVE  IInv'
<1>1. CASE /\ Abort(a, NoHandle)
           /\ UNCHANGED <<calls, nextHandle, hdef>>
  BY <1>1 DEF AddImageToHandle, IInv, TypeOK, HandleInv, CommittedComplete,
              Abort, Stages, LiveStages, NoHandle
<1>2. CASE JoinStep(a, "ImageJoin", "image", "task")
  <2>1. CapsAt("task") \subseteq CapsAt("image") \cup {"image"}
    BY DEF CapsAt
  <2>2. QED
    BY <1>2, <2>1, JoinStepIInv DEF AddImageToHandle, LiveStages, Caps
<1>3. QED
  BY <1>1, <1>2 DEF AddImageToHandle

LEMMA AddLoggingToHandleIInv ==
    ASSUME IInv, NEW a \in Attempts, AddLoggingToHandle(a)
    PROVE  IInv'
<1>1. CapsAt("interaction") \subseteq CapsAt("logging") \cup {"logging"}
  BY DEF CapsAt
<1>2. QED
  BY <1>1, JoinStepIInv DEF AddLoggingToHandle, LiveStages, Caps

LEMMA AddInteractionToHandleIInv ==
    ASSUME IInv, NEW a \in Attempts, AddInteractionToHandle(a)
    PROVE  IInv'
<1>1. CapsAt("commit") \subseteq CapsAt("interaction") \cup {"interaction"}
  BY DEF CapsAt, Caps
<1>2. QED
  BY <1>1, JoinStepIInv DEF AddInteractionToHandle, LiveStages, Caps

LEMMA CreateHandleTaskIInv ==
    ASSUME IInv, NEW a \in Attempts, CreateHandleTask(a)
    PROVE  IInv'
<1>0. TypeOK
  BY DEF IInv
<1> DEFINE joined == hdef[handle[a]] \cup {"taskJoined"}
<1>1. /\ handle[a] \in 1 .. nextHandle - 1
      /\ {"image"} \subseteq hdef[handle[a]]
  BY DEF CreateHandleTask, IInv, HandleInv, LiveStages, CapsAt
<1>2. joined \in SUBSET Caps /\ joined \cup {"taskBound"} \in SUBSET Caps
  BY <1>0, <1>1, MaxHandlesAssumption DEF TypeOK, HandleIds, Caps
<1>3. UNCHANGED <<config, endpoints, committed, cdef>>
  BY DEF CreateHandleTask
<1>4. CommittedComplete'
  BY <1>3 DEF IInv, CommittedComplete
\* The panic: nothing of the attempts changes.
<1>5. CASE /\ crashed' = TRUE
           /\ UNCHANGED <<stage, handle, calls, nextHandle, hdef>>
  BY <1>0, <1>3, <1>4, <1>5 DEF IInv, TypeOK, HandleInv
<1>6. ASSUME UNCHANGED crashed,
             NEW cs \in Seq(Calls),
             MakeCalls(a, cs),
             Abort(a, NoHandle),
             \/ UNCHANGED <<nextHandle, hdef>>
             \/ Issue(joined)
      PROVE  IInv'
  <2>1. calls' \in [Attempts -> Seq(Calls)]
    BY <1>0, <1>6, MakeCallsType
  <2>2. /\ nextHandle' \in 1 .. MaxHandles + 1
        /\ hdef' \in [HandleIds -> SUBSET Caps]
        /\ \A h \in 1 .. nextHandle - 1 : hdef'[h] = hdef[h]
        /\ nextHandle' >= nextHandle
    <3>1. CASE UNCHANGED <<nextHandle, hdef>>
      BY <1>0, <3>1 DEF TypeOK
    <3>2. CASE Issue(joined)
      BY <1>0, <1>2, <3>2, IssueType
    <3>3. QED
      BY <1>6, <3>1, <3>2
  <2>3. TypeOK'
    BY <1>0, <1>3, <1>6, <2>1, <2>2 DEF TypeOK, Abort, Stages, NoHandle
  <2>4. HandleInv'
    BY <1>0, <1>6, <2>2 DEF TypeOK, IInv, HandleInv, Abort, LiveStages
  <2>5. QED
    BY <1>4, <2>3, <2>4 DEF IInv
<1>7. CASE /\ UNCHANGED crashed
           /\ MakeCalls(a, <<Call("TaskJoin", TRUE), Call("TaskBind", TRUE)>>)
           /\ IssueTwo(joined, joined \cup {"taskBound"})
           /\ \/ Proceed(a, "scope", nextHandle + 1)
              \/ Abort(a, NoHandle)
  <2>1. <<Call("TaskJoin", TRUE), Call("TaskBind", TRUE)>> \in Seq(Calls)
    <3>1. Call("TaskJoin", TRUE) \in Calls /\ Call("TaskBind", TRUE) \in Calls
      BY CallType
    <3>2. QED
      BY <3>1, TwoCallsType
  <2>2. calls' \in [Attempts -> Seq(Calls)]
    BY <1>0, <1>7, <2>1, MakeCallsType
  <2>3. /\ nextHandle' \in 1 .. MaxHandles + 1
        /\ hdef' \in [HandleIds -> SUBSET Caps]
        /\ nextHandle + 1 \in HandleIds
        /\ nextHandle' = nextHandle + 2
        /\ hdef'[nextHandle + 1] = joined \cup {"taskBound"}
        /\ \A h \in 1 .. nextHandle - 1 : hdef'[h] = hdef[h]
    BY <1>0, <1>2, <1>7, IssueTwoType
  <2>4. TypeOK'
    BY <1>0, <1>3, <1>7, <2>2, <2>3 DEF TypeOK, Proceed, Abort, Stages, NoHandle
  <2>5. HandleInv'
    <3> SUFFICES ASSUME NEW b \in Attempts, stage'[b] \in LiveStages
                 PROVE  /\ handle'[b] \in 1 .. nextHandle' - 1
                        /\ CapsAt(stage'[b]) \subseteq hdef'[handle'[b]]
      BY DEF HandleInv
    <3>1. CASE b = a
      <4>1. stage'[a] = "scope" /\ handle'[a] = nextHandle + 1
        BY <1>0, <1>7, <3>1 DEF TypeOK, Proceed, Abort, LiveStages
      <4>2. handle'[a] \in 1 .. nextHandle' - 1
        BY <1>0, <2>3, <4>1 DEF TypeOK
      <4>3. CapsAt("scope") \subseteq hdef'[nextHandle + 1]
        BY <1>1, <2>3 DEF CapsAt, joined
      <4>4. QED
        BY <3>1, <4>1, <4>2, <4>3
    <3>2. CASE b # a
      <4>1. stage'[b] = stage[b] /\ handle'[b] = handle[b]
        BY <1>0, <1>7, <3>2 DEF TypeOK, Proceed, Abort
      <4>2. /\ handle[b] \in 1 .. nextHandle - 1
            /\ CapsAt(stage[b]) \subseteq hdef[handle[b]]
        BY <4>1 DEF IInv, HandleInv
      <4>3. QED
        BY <1>0, <2>3, <4>1, <4>2 DEF TypeOK
    <3>3. QED
      BY <3>1, <3>2
  <2>6. QED
    BY <1>4, <2>4, <2>5 DEF IInv
<1>8. QED
  <2>1. <<Call("TaskJoin", FALSE)>> \in Seq(Calls)
    BY CallType
  <2>2. <<Call("TaskJoin", TRUE)>> \in Seq(Calls)
    BY CallType
  <2>3. <<Call("TaskJoin", TRUE), Call("TaskBind", FALSE)>> \in Seq(Calls)
    <3>1. Call("TaskJoin", TRUE) \in Calls /\ Call("TaskBind", FALSE) \in Calls
      BY CallType
    <3>2. QED
      BY <3>1, TwoCallsType
  <2>4. QED
    BY <1>5, <1>6, <1>7, <2>1, <2>2, <2>3 DEF CreateHandleTask

LEMMA AddHandleToScopeIInv ==
    ASSUME IInv, NEW a \in Attempts, AddHandleToScope(a)
    PROVE  IInv'
<1>0. TypeOK
  BY DEF IInv
<1>1. /\ handle[a] \in 1 .. nextHandle - 1
      /\ CapsAt("scope") \subseteq hdef[handle[a]]
  BY DEF AddHandleToScope, IInv, HandleInv, LiveStages
<1>2. UNCHANGED <<config, crashed, committed, cdef>>
  BY DEF AddHandleToScope
<1>3. CommittedComplete'
  BY <1>2 DEF IInv, CommittedComplete
<1>4. endpoints' \subseteq Attempts
  BY <1>0 DEF AddHandleToScope, TypeOK
<1> DEFINE scoped == hdef[handle[a]] \cup {"scope"}
<1>5. CASE /\ MakeCalls(a, <<Call("ScopeAdd", TRUE)>>)
           /\ Issue(scoped)
           /\ Proceed(a, "logging", nextHandle)
  <2>1. calls' \in [Attempts -> Seq(Calls)]
    BY <1>0, <1>5, CallType, MakeCallsType
  <2>2. scoped \in SUBSET Caps
    BY <1>0, <1>1, MaxHandlesAssumption DEF TypeOK, HandleIds, Caps
  <2>3. /\ nextHandle' \in 1 .. MaxHandles + 1
        /\ hdef' \in [HandleIds -> SUBSET Caps]
        /\ nextHandle \in HandleIds
        /\ hdef'[nextHandle] = scoped
        /\ nextHandle' = nextHandle + 1
        /\ \A h \in 1 .. nextHandle - 1 : hdef'[h] = hdef[h]
    BY <1>0, <1>5, <2>2, IssueType
  <2>4. TypeOK'
    BY <1>0, <1>2, <1>4, <1>5, <2>1, <2>3 DEF TypeOK, Proceed, Stages
  <2>5. HandleInv'
    <3> SUFFICES ASSUME NEW b \in Attempts, stage'[b] \in LiveStages
                 PROVE  /\ handle'[b] \in 1 .. nextHandle' - 1
                        /\ CapsAt(stage'[b]) \subseteq hdef'[handle'[b]]
      BY DEF HandleInv
    <3>1. CASE b = a
      <4>1. stage'[a] = "logging" /\ handle'[a] = nextHandle
        BY <1>0, <1>5 DEF TypeOK, Proceed
      <4>2. CapsAt("logging") \subseteq hdef'[nextHandle]
        BY <1>1, <2>3 DEF CapsAt, scoped
      <4>3. QED
        BY <1>0, <2>3, <3>1, <4>1, <4>2 DEF TypeOK
    <3>2. CASE b # a
      <4>1. stage'[b] = stage[b] /\ handle'[b] = handle[b]
        BY <1>0, <1>5, <3>2 DEF TypeOK, Proceed
      <4>2. /\ handle[b] \in 1 .. nextHandle - 1
            /\ CapsAt(stage[b]) \subseteq hdef[handle[b]]
        BY <4>1 DEF IInv, HandleInv
      <4>3. QED
        BY <1>0, <2>3, <4>1, <4>2 DEF TypeOK
    <3>3. QED
      BY <3>1, <3>2
  <2>6. QED
    BY <1>3, <2>4, <2>5 DEF IInv
<1>6. CASE /\ MakeCalls(a, <<Call("ScopeAdd", FALSE)>>)
           /\ UNCHANGED <<nextHandle, hdef>>
           /\ Abort(a, handle[a])
  <2>1. calls' \in [Attempts -> Seq(Calls)]
    BY <1>0, <1>6, CallType, MakeCallsType
  <2>2. TypeOK'
    BY <1>0, <1>1, <1>2, <1>4, <1>6, <2>1 DEF TypeOK, Abort, Stages, HandleIds
  <2>3. HandleInv'
    BY <1>0, <1>6 DEF TypeOK, IInv, HandleInv, Abort, LiveStages
  <2>4. QED
    BY <1>3, <2>2, <2>3 DEF IInv
<1>7. CASE /\ MakeCalls(a, <<Call("ScopeAdd", FALSE)>>)
           /\ endpoints' = endpoints \cup {a}
           /\ UNCHANGED <<nextHandle, hdef>>
           /\ Abort(a, handle[a])
  <2>1. calls' \in [Attempts -> Seq(Calls)]
    BY <1>0, <1>7, CallType, MakeCallsType
  <2>2. TypeOK'
    BY <1>0, <1>1, <1>2, <1>4, <1>7, <2>1 DEF TypeOK, Abort, Stages, HandleIds
  <2>3. HandleInv'
    BY <1>0, <1>7 DEF TypeOK, IInv, HandleInv, Abort, LiveStages
  <2>4. QED
    BY <1>3, <2>2, <2>3 DEF IInv
<1>8. QED
  BY <1>5, <1>6, <1>7 DEF AddHandleToScope, scoped

LEMMA CommitHandleIInv ==
    ASSUME IInv, NEW a \in Attempts, CommitHandle(a)
    PROVE  IInv'
<1>0. TypeOK
  BY DEF IInv
<1>1. /\ handle[a] \in 1 .. nextHandle - 1
      /\ Caps \subseteq hdef[handle[a]]
  BY DEF CommitHandle, IInv, HandleInv, LiveStages, CapsAt
<1>2. UNCHANGED <<config, crashed, nextHandle, hdef, endpoints>>
  BY DEF CommitHandle
\* The committed definition of a is the definition of its handle.
<1>3. ASSUME committed' = committed \cup {a},
             cdef' = [cdef EXCEPT ![a] = hdef[handle[a]]]
      PROVE  /\ committed' \subseteq Attempts
             /\ cdef' \in [Attempts -> SUBSET Caps]
             /\ CommittedComplete'
  <2>0. handle[a] \in HandleIds
    BY <1>0, <1>1, MaxHandlesAssumption DEF TypeOK, HandleIds
  <2>1. hdef[handle[a]] = Caps
    BY <1>0, <1>1, <2>0 DEF TypeOK
  <2>2. \A c \in Attempts : RequiredCaps(config[c]) \subseteq Caps
    BY DEF RequiredCaps, Caps
  <2>3. QED
    BY <1>0, <1>2, <1>3, <2>1, <2>2 DEF TypeOK, IInv, CommittedComplete
<1>4. CASE /\ MakeCalls(a, <<Call("Commit", TRUE)>>)
           /\ committed' = committed \cup {a}
           /\ cdef' = [cdef EXCEPT ![a] = hdef[handle[a]]]
           /\ Proceed(a, "done", NoHandle)
  <2>1. calls' \in [Attempts -> Seq(Calls)]
    BY <1>0, <1>4, CallType, MakeCallsType
  <2>2. QED
    BY <1>0, <1>2, <1>3, <1>4, <2>1 DEF IInv, TypeOK, HandleInv, Proceed,
                                        Stages, LiveStages, NoHandle
<1>5. CASE /\ MakeCalls(a, <<Call("Commit", FALSE)>>)
           /\ UNCHANGED <<committed, cdef>>
           /\ Abort(a, NoHandle)
  <2>1. calls' \in [Attempts -> Seq(Calls)]
    BY <1>0, <1>5, CallType, MakeCallsType
  <2>2. QED
    BY <1>0, <1>2, <1>5, <2>1 DEF IInv, TypeOK, HandleInv, CommittedComplete,
                                  Abort, Stages, LiveStages, NoHandle
<1>6. CASE /\ MakeCalls(a, <<Call("Commit", FALSE)>>)
           /\ committed' = committed \cup {a}
           /\ cdef' = [cdef EXCEPT ![a] = hdef[handle[a]]]
           /\ Abort(a, NoHandle)
  <2>1. calls' \in [Attempts -> Seq(Calls)]
    BY <1>0, <1>6, CallType, MakeCallsType
  <2>2. QED
    BY <1>0, <1>2, <1>3, <1>6, <2>1 DEF IInv, TypeOK, HandleInv, Abort,
                                        Stages, LiveStages, NoHandle
<1>7. QED
  BY <1>4, <1>5, <1>6 DEF CommitHandle

LEMMA NextIInv == IInv /\ [Next]_vars => IInv'
<1> SUFFICES ASSUME IInv, [Next]_vars PROVE IInv'
  OBVIOUS
<1>1. CASE UNCHANGED vars
  BY <1>1 DEF vars, proxyVars, remoteVars, IInv, TypeOK, HandleInv,
              CommittedComplete
<1>2. CASE Next
  <2>1. PICK a \in Attempts : Step(a)
    BY <1>2 DEF Next
  <2>2. QED
    BY <2>1, CreateHandleIInv, AddImageToHandleIInv, CreateHandleTaskIInv,
          AddHandleToScopeIInv, AddLoggingToHandleIInv,
          AddInteractionToHandleIInv, CommitHandleIInv DEF Step
<1>3. QED
  BY <1>1, <1>2

\* Every state the pipeline reaches is well typed: in particular every
\* handle an attempt holds is "" or one the port layer issued, never a
\* payload that failed the *models.ContainerJoinResponse assertions of
\* CreateHandleTask and AddImageToHandle.
THEOREM TypeCorrect == Spec => []TypeOK
<1>1. Init => IInv
  BY InitIInv
<1>2. IInv => TypeOK
  BY DEF IInv
<1>3. QED
  BY <1>1, <1>2, NextIInv, PTL DEF Spec

\* Whatever interleaving of attempts, failed calls and lost responses
\* happens, every container CommitHandle committed has the image, the task
\* join and bind, logging, interaction and, when it publishes ports, its
\* scope endpoint in its committed definition.
THEOREM CommittedCompleteThm == Spec => []CommittedComplete
<1>1. Init => IInv
  BY InitIInv
<1>2. IInv => CommittedComplete
  BY DEF IInv
<1>3. QED
  BY <1>1, <1>2, NextIInv, PTL DEF Spec

=============================================================================
