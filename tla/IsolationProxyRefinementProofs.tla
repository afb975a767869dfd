-------------------- MODULE IsolationProxyRefinementProofs --------------------
(***************************************************************************)
(* Proof that the handle pipeline implements ContainerCreation under the   *)
(* mapping Status / committed of IsolationProxy.                           *)
(*                                                                         *)
(* Every step of an attempt moves only that attempt's stage, from a stage  *)
(* at which it is running, and commits at most its own container, in a    *)
(* step that ends the attempt (StepShape).  With the invariant that only   *)
(* ended attempts have a committed container (CommittedEnded), such a step *)
(* is a stutter of ContainerCreation when the attempt keeps running, Fail  *)
(* when it fails without a commit, and Create when it commits.             *)
(***************************************************************************)
EXTENDS IsolationProxyProofs

\* The stages at which an attempt is still running.
RunningStages == {"create"} \cup LiveStages

Ended == {"done", "failed"}

\* The step moves attempt a's stage to s, and commits a's container only in
\* a step that ends a, and never reports success without committing.
Moves(a) ==
    \E s \in Stages :
        /\ stage' = [stage EXCEPT ![a] = s]
        /\ \/ committed' = committed /\ s # "done"
           \/ committed' = committed \cup {a} /\ s \in Ended

\* Only an attempt that has ended has a committed container.
CommittedEnded == \A a \in committed : stage[a] \in Ended

LEMMA StepShape ==
    ASSUME TypeOK, NEW a \in Attempts, Step(a)
    PROVE  /\ stage[a] \in RunningStages
           /\ Moves(a) \/ UNCHANGED <<stage, committed>>
<1>1. CASE CreateHandle(a)
  BY <1>1 DEF CreateHandle, Proceed, Abort, Moves, Stages, RunningStages,
              LiveStages
<1>2. CASE AddImageToHandle(a)
  BY <1>2 DEF AddImageToHandle, JoinStep, CheckedPayload, Proceed, Abort,
              Moves, Stages, RunningStages, LiveStages
<1>3. CASE CreateHandleTask(a)
  BY <1>3 DEF CreateHandleTask, Proceed, Abort, Moves, Stages, RunningStages,
              LiveStages
<1>4. CASE AddHandleToScope(a)
  BY <1>4 DEF AddHandleToScope, Proceed, Abort, Moves, Stages, RunningStages,
              LiveStages
<1>5. CASE AddLoggingToHandle(a)
  BY <1>5 DEF AddLoggingToHandle, JoinStep, CheckedPayload, Proceed, Abort,
              Moves, Stages, RunningStages, LiveStages
<1>6. CASE AddInteractionToHandle(a)
  BY <1>6 DEF AddInteractionToHandle, JoinStep, CheckedPayload, Proceed,
              Abort, Moves, Stages, RunningStages, LiveStages
<1>7. CASE CommitHandle(a)
  BY <1>7 DEF CommitHandle, Proceed, Abort, Moves, Stages, RunningStages,
              LiveStages, Ended
<1>8. QED
  BY <1>1, <1>2, <1>3, <1>4, <1>5, <1>6, <1>7 DEF Step

LEMMA InitCommittedEnded == Init => CommittedEnded
  BY DEF Init, CommittedEnded

LEMMA NextCommittedEnded ==
    IInv /\ CommittedEnded /\ [Next]_vars => CommittedEnded'
<1> SUFFICES ASSUME IInv, CommittedEnded, [Next]_vars PROVE CommittedEnded'
  OBVIOUS
<1>0. TypeOK
  BY DEF IInv
<1>1. CASE UNCHANGED vars
  BY <1>1 DEF vars, proxyVars, remoteVars, CommittedEnded
<1>2. CASE Next
  <2>1. PICK a \in Attempts : Step(a)
    BY <1>2 DEF Next
  <2>2. stage[a] \in RunningStages /\ (Moves(a) \/ UNCHANGED <<stage, committed>>)
    BY <1>0, <2>1, StepShape
  <2>3. a \notin committed
    BY <2>2 DEF CommittedEnded, RunningStages, LiveStages, Ended
  <2>4. CASE UNCHANGED <<stage, committed>>
    BY <2>4 DEF CommittedEnded
  <2>5. CASE Moves(a)
    <3>1. PICK s \in Stages :
            /\ stage' = [stage EXCEPT ![a] = s]
            /\ \/ committed' = committed /\ s # "done"
               \/ committed' = committed \cup {a} /\ s \in Ended
      BY <2>5 DEF Moves
    <3>2. \A b \in committed : b # a /\ stage'[b] = stage[b]
      BY <1>0, <2>3, <3>1 DEF TypeOK
    <3>3. QED
      BY <1>0, <3>1, <3>2 DEF CommittedEnded, TypeOK
  <2>6. QED
    BY <2>2, <2>4, <2>5
<1>3. QED
  BY <1>1, <1>2

\* The pipeline keeps IInv and CommittedEnded together.
LEMMA InvariantsHold == Spec => [](IInv /\ CommittedEnded)
<1>1. Init => IInv /\ CommittedEnded
  BY InitIInv, InitCommittedEnded
<1>2. IInv /\ CommittedEnded /\ [Next]_vars => (IInv /\ CommittedEnded)'
  BY NextIInv, NextCommittedEnded
<1>3. QED
  BY <1>1, <1>2, PTL DEF Spec

LEMMA InitRefined == Init => Creation!Init
  BY DEF Init, Creation!Init, Status, StatusOf

LEMMA NextRefined ==
    IInv /\ CommittedEnded /\ [Next]_vars => [Creation!Next]_Creation!vars
<1> SUFFICES ASSUME IInv, CommittedEnded, [Next]_vars
             PROVE  [Creation!Next]_Creation!vars
  OBVIOUS
<1>0. TypeOK
  BY DEF IInv
<1>1. CASE UNCHANGED vars
  BY <1>1 DEF vars, proxyVars, remoteVars, Creation!vars, Status
<1>2. CASE Next
  <2>1. PICK a \in Attempts : Step(a)
    BY <1>2 DEF Next
  <2>2. stage[a] \in RunningStages /\ (Moves(a) \/ UNCHANGED <<stage, committed>>)
    BY <1>0, <2>1, StepShape
  <2>3. a \notin committed /\ Status[a] = "running"
    BY <2>2 DEF CommittedEnded, RunningStages, LiveStages, Ended, Status,
                StatusOf
  <2>4. CASE UNCHANGED <<stage, committed>>
    BY <2>4 DEF Creation!vars, Status
  <2>5. CASE Moves(a)
    <3>1. PICK s \in Stages :
            /\ stage' = [stage EXCEPT ![a] = s]
            /\ \/ committed' = committed /\ s # "done"
               \/ committed' = committed \cup {a} /\ s \in Ended
      BY <2>5 DEF Moves
    <3>2. Status' = [Status EXCEPT ![a] = StatusOf(s)]
      BY <1>0, <3>1 DEF TypeOK, Status
    <3>3. CASE committed' = committed /\ s \notin Ended
      <4>1. StatusOf(s) = "running"
        BY <3>3 DEF StatusOf, Ended
      <4>2. Status' = Status
        BY <2>3, <3>2, <4>1, <1>0 DEF TypeOK, Status
      <4>3. QED
        BY <3>3, <4>2 DEF Creation!vars
    <3>4. CASE committed' = committed /\ s = "failed"
      <4>1. Status' = [Status EXCEPT ![a] = "failed"]
        BY <3>2, <3>4 DEF StatusOf
      <4>2. Creation!Fail(a)
        BY <2>3, <3>4, <4>1 DEF Creation!Fail
      <4>3. QED
        BY <4>2 DEF Creation!Next
    <3>5. CASE committed' = committed \cup {a} /\ s \in Ended
      <4>1. StatusOf(s) \in {"succeeded", "failed"}
        BY <3>5 DEF StatusOf, Ended
      <4>2. Creation!Create(a)
        BY <2>3, <3>2, <3>5, <4>1 DEF Creation!Create
      <4>3. QED
        BY <4>2 DEF Creation!Next
    <3>6. QED
      BY <3>1, <3>3, <3>4, <3>5 DEF Ended
  <2>6. QED
    BY <2>2, <2>4, <2>5
<1>3. QED
  BY <1>1, <1>2

\* The handle pipeline implements ContainerCreation: whatever calls fail or
\* lose their answers, a container is committed at most once, only by its
\* running attempt and in the step that ends it, and an attempt reports
\* success only for a committed container.
THEOREM Refinement == Spec => CreationRefined
<1>1. Init => Creation!Init
  BY InitRefined
<1>2. [](IInv /\ CommittedEnded) /\ [][Next]_vars => [][Creation!Next]_Creation!vars
  BY NextRefined, PTL
<1>3. QED
  BY <1>1, <1>2, InvariantsHold, PTL DEF Spec, CreationRefined, Creation!Spec
=============================================================================
