---------------------------- MODULE ImageStoreProofs ----------------------------
(***************************************************************************)
(* Proof that Get reports an error only after its pull was answered 200   *)
(* and read, for any number of callers and references.  The property      *)
(* alone is not inductive: a Get at the second lookup must already have    *)
(* had a 200 answer.  GInv adds that, with the types of the per-caller     *)
(* variables.                                                              *)
(***************************************************************************)
EXTENDS ImageStore, TLAPS

PCs == {"idle", "pulling", "relookup", "done"}

GInv ==
    /\ pc \in [Getters -> PCs]
    /\ request \in [Getters -> {"none", "posted", "ok", "rejected"}]
    /\ result \in [Getters -> Results]
    /\ ref \in [Getters -> Refs]
    /\ \A g \in Getters : pc[g] = "relookup" => request[g] = "ok"
    /\ GetErrorOnlyAfterPull

LEMMA InitGInv == Init => GInv
  BY DEF Init, GInv, PCs, Results, GetErrorOnlyAfterPull

\* Returned(g, ...) ends g's Get with the given result and leaves the other
\* callers alone.
LEMMA ReturnedShape ==
    ASSUME GInv, NEW g \in Getters, NEW cfg \in Refs \cup {NoImage},
           NEW err \in BOOLEAN, Returned(g, cfg, err)
    PROVE  /\ pc' \in [Getters -> PCs]
           /\ result' \in [Getters -> Results]
           /\ pc'[g] = "done" /\ result'[g].err = err
           /\ \A h \in Getters \ {g} : pc'[h] = pc[h] /\ result'[h] = result[h]
  BY DEF Returned, GInv, PCs, Results

LEMMA NextGInv == GInv /\ [Next]_vars => GInv'
<1> SUFFICES ASSUME GInv, [Next]_vars PROVE GInv'
  OBVIOUS
<1>1. CASE UNCHANGED vars
  BY <1>1 DEF vars, GInv, GetErrorOnlyAfterPull
<1>2. ASSUME NEW g \in Getters, GetLookup(g) PROVE GInv'
  <2>1. CASE ref[g] \in cached
    <3>1. Returned(g, ref[g], FALSE) /\ UNCHANGED <<request, cached, stored, ref>>
      BY <1>2, <2>1 DEF GetLookup
    <3>2. ref[g] \in Refs
      BY DEF GInv
    <3>3. QED
      BY <3>1, <3>2, ReturnedShape DEF GInv, GetErrorOnlyAfterPull
  <2>2. CASE ref[g] \notin cached
    <3>1. PICK actuate \in BOOLEAN :
            /\ IF actuate
               THEN /\ request' = [request EXCEPT ![g] = "posted"]
                    /\ pc' = [pc EXCEPT ![g] = "pulling"]
                    /\ UNCHANGED result
               ELSE Returned(g, NoImage, FALSE) /\ UNCHANGED request
            /\ UNCHANGED <<cached, stored, ref>>
      BY <1>2, <2>2 DEF GetLookup
    <3>2. pc[g] = "idle"
      BY <1>2 DEF GetLookup
    <3>3. CASE actuate
      BY <3>1, <3>2, <3>3 DEF GInv, PCs, GetErrorOnlyAfterPull
    <3>4. CASE ~actuate
      BY <3>1, <3>4, ReturnedShape DEF GInv, GetErrorOnlyAfterPull
    <3>5. QED
      BY <3>3, <3>4
  <2>3. QED
    BY <2>1, <2>2
<1>3. ASSUME NEW g \in Getters, PersonaAnswer(g) PROVE GInv'
  <2>1. request[g] = "posted" /\ UNCHANGED <<pc, ref, result>>
    BY <1>3 DEF PersonaAnswer
  <2>2. pc[g] # "relookup" /\ ~(pc[g] = "done" /\ result[g].err)
    BY <2>1 DEF GInv, GetErrorOnlyAfterPull
  <2>3. request' \in {[request EXCEPT ![g] = "ok"], [request EXCEPT ![g] = "rejected"]}
    BY <1>3 DEF PersonaAnswer
  <2>4. QED
    BY <2>1, <2>2, <2>3 DEF GInv, GetErrorOnlyAfterPull
<1>4. ASSUME NEW g \in Getters, PullAnswered(g) PROVE GInv'
  <2>1. pc[g] = "pulling" /\ UNCHANGED <<cached, stored, request, ref>>
    BY <1>4 DEF PullAnswered
  <2>2. CASE /\ request[g] = "ok"
             /\ pc' = [pc EXCEPT ![g] = "relookup"]
             /\ UNCHANGED result
    BY <2>1, <2>2 DEF GInv, PCs, GetErrorOnlyAfterPull
  <2>3. CASE Returned(g, NoImage, FALSE)
    BY <2>1, <2>3, ReturnedShape DEF GInv, GetErrorOnlyAfterPull
  <2>4. QED
    BY <1>4, <2>2, <2>3 DEF PullAnswered
<1>5. ASSUME NEW g \in Getters, PullTimeout(g) PROVE GInv'
  <2>1. Returned(g, NoImage, FALSE) /\ UNCHANGED <<cached, stored, request, ref>>
    BY <1>5 DEF PullTimeout
  <2>2. QED
    BY <2>1, ReturnedShape DEF GInv, GetErrorOnlyAfterPull
<1>6. ASSUME NEW g \in Getters, Relookup(g) PROVE GInv'
  <2>1. /\ pc[g] = "relookup" /\ request[g] = "ok"
        /\ UNCHANGED <<cached, stored, request, ref>>
    BY <1>6 DEF Relookup, GInv
  <2>2. ref[g] \in Refs
    BY DEF GInv
  <2>3. CASE ref[g] \in cached
    BY <1>6, <2>1, <2>2, <2>3, ReturnedShape DEF Relookup, GInv,
       GetErrorOnlyAfterPull
  <2>4. CASE ref[g] \notin cached
    <3>1. Returned(g, NoImage, TRUE)
      BY <1>6, <2>4 DEF Relookup
    <3>2. QED
      BY <2>1, <3>1, ReturnedShape DEF GInv, GetErrorOnlyAfterPull
  <2>5. QED
    BY <2>3, <2>4
<1>7. QED
  BY <1>1, <1>2, <1>3, <1>4, <1>5, <1>6 DEF Next

\* Whatever the callers, references and persona do, a Get that returns an
\* error had its pull answered 200 and read in full: every failure of the
\* pull that PullImage reports is dropped by Get.
THEOREM GetErrorOnlyAfterPullThm == Spec => []GetErrorOnlyAfterPull
<1>1. Init => GInv
  BY InitGInv
<1>2. GInv /\ [Next]_vars => GInv'
  BY NextGInv
<1>3. GInv => GetErrorOnlyAfterPull
  BY DEF GInv
<1>4. QED
  BY <1>1, <1>2, <1>3, PTL DEF Spec
=============================================================================
