------------------------------- MODULE ImageStore -------------------------------
(***************************************************************************)
(* VicImageStore.Get and PullImage (proxy/image_store.go), called by       *)
(* concurrent goroutines.  Get looks the reference up in the process-wide  *)
(* image cache; on a miss with actuate set it asks the docker persona to   *)
(* pull the image (an HTTP POST with a 60 s client timeout) and, when the  *)
(* persona answers 200, looks the cache up again.                          *)
(*                                                                         *)
(* Get is split at the one place it waits: the POST.  The persona is a     *)
(* separate process: it may answer a request late (after the client gave   *)
(* up), reject it, or never answer.  Whether the process cache learns of   *)
(* an image the persona pulled depends on the cache package, outside this  *)
(* repository, so both outcomes are allowed.                               *)
(***************************************************************************)
EXTENDS FiniteSets

CONSTANTS
    Getters,   \* goroutines calling Get
    Refs,      \* image references
    NoImage    \* the nil *metadata.ImageConfig

VARIABLES
    cached,    \* references cache.ImageCache() holds
    stored,    \* references the port layer's image store holds
    request,   \* [Getters -> ...]: the persona's side of each Get's pull
    pc,        \* [Getters -> ...]: where each Get is
    ref,       \* [Getters -> Refs]: the reference each Get asked for
    result     \* [Getters -> ...]: what each Get returned

vars == <<cached, stored, request, pc, ref, result>>

\* Get's return value (*ImageConfig, error), the config named by its reference.
Results == [cfg : Refs \cup {NoImage}, err : BOOLEAN]

Returned(g, cfg, err) ==
    /\ result' = [result EXCEPT ![g] = [cfg |-> cfg, err |-> err]]
    /\ pc' = [pc EXCEPT ![g] = "done"]

Init ==
    /\ cached \in SUBSET Refs
    /\ stored = cached          \* InitializeImageCache loads the port layer's images
    /\ request = [g \in Getters |-> "none"]
    /\ pc = [g \in Getters |-> "idle"]
    /\ ref \in [Getters -> Refs]
    /\ result = [g \in Getters |-> [cfg |-> NoImage, err |-> FALSE]]

\* Get up to the POST: a cache hit returns the config; a miss without
\* actuate returns (nil, nil); a miss with actuate posts the pull.
GetLookup(g) ==
    /\ pc[g] = "idle"
    /\ IF ref[g] \in cached
       THEN Returned(g, ref[g], FALSE) /\ UNCHANGED request
       ELSE \E actuate \in BOOLEAN :
              IF actuate
              THEN /\ request' = [request EXCEPT ![g] = "posted"]
                   /\ pc' = [pc EXCEPT ![g] = "pulling"]
                   /\ UNCHANGED result
              ELSE Returned(g, NoImage, FALSE) /\ UNCHANGED request
    /\ UNCHANGED <<cached, stored, ref>>

\* The persona handles a posted pull.  It answers 200 once it has started
\* streaming the pull's progress: the image may then be stored (and the
\* process cache may or may not learn of it), or the pull may fail inside
\* the stream, which PullImage never inspects (it only logs the body).  Or
\* it answers an error status.  It may also never handle the request.
PersonaAnswer(g) ==
    /\ request[g] = "posted"
    /\ \/ /\ request' = [request EXCEPT ![g] = "ok"]
          /\ stored' = stored \cup {ref[g]}
          /\ cached' \in {cached, cached \cup {ref[g]}}
       \/ /\ request' = [request EXCEPT ![g] = "ok"]
          /\ UNCHANGED <<stored, cached>>
       \/ /\ request' = [request EXCEPT ![g] = "rejected"]
          /\ UNCHANGED <<stored, cached>>
    /\ UNCHANGED <<pc, ref, result>>

\* Mutant: the status code is not checked; every answer goes on to the
\* second lookup.
PullAnsweredNoStatusCheck(g) ==
    /\ pc[g] = "pulling"
    /\ request[g] \in {"ok", "rejected"}
    /\ pc' = [pc EXCEPT ![g] = "relookup"]
    /\ UNCHANGED <<cached, stored, request, ref, result>>

\* The POST returns the persona's answer.  A 200 whose body ReadAll reads
\* to the end lets Get look the cache up again.  A 200 whose body cannot be
\* read (the connection fails, or the 60 s client timeout fires while the
\* pull is still streaming) and any other status are errors PullImage
\* returns and Get drops, returning (c, nil) with c nil.
PullAnswered(g) ==
    /\ pc[g] = "pulling"
    /\ request[g] \in {"ok", "rejected"}
    /\ \/ /\ request[g] = "ok"
          /\ pc' = [pc EXCEPT ![g] = "relookup"]
          /\ UNCHANGED result
       \/ Returned(g, NoImage, FALSE)
    /\ UNCHANGED <<cached, stored, request, ref>>

\* Mutant: a client without a timeout: Post fails only once the persona has
\* answered (a body it cannot read), never while the persona is silent.
PullTimeoutNoDeadline(g) ==
    /\ pc[g] = "pulling"
    /\ request[g] # "posted"
    /\ Returned(g, NoImage, FALSE)
    /\ UNCHANGED <<cached, stored, request, ref>>

\* The POST fails before the persona answered: the 60 s client timeout or a
\* transport error.  The persona may still carry the pull out later.  Get
\* drops the error and returns (nil, nil).
PullTimeout(g) ==
    /\ pc[g] = "pulling"
    /\ request[g] = "posted"
    /\ Returned(g, NoImage, FALSE)
    /\ UNCHANGED <<cached, stored, request, ref>>

\* The second lookup after a successful pull: the config, or the cache's
\* error returned as (nil, err).
Relookup(g) ==
    /\ pc[g] = "relookup"
    /\ IF ref[g] \in cached THEN Returned(g, ref[g], FALSE)
                            ELSE Returned(g, NoImage, TRUE)
    /\ UNCHANGED <<cached, stored, request, ref>>

Next ==
    \E g \in Getters :
        \/ GetLookup(g)
        \/ PersonaAnswer(g)
        \/ PullAnswered(g)
        \/ PullTimeout(g)
        \/ Relookup(g)

\* Each goroutine runs on: its answered POST is read, the timer of its HTTP
\* client fires, the second lookup runs.  Nothing is assumed of the persona
\* nor of when a caller calls Get.
Fairness ==
    \A g \in Getters :
        /\ WF_vars(PullAnswered(g))
        /\ WF_vars(PullTimeout(g))
        /\ WF_vars(Relookup(g))

Spec == Init /\ [][Next]_vars /\ Fairness

-----------------------------------------------------------------------------
(* Properties.                                                             *)

\* Get reports an error only after the persona answered its pull 200 and
\* PullImage read the whole answer: a transport error, a timeout, an error
\* status or an unreadable body is dropped, and the one error Get returns
\* is the second cache lookup's.  That error says nothing of whether the
\* image was pulled: a 200 may carry the pull's failure in its stream.
GetErrorOnlyAfterPull ==
    \A g \in Getters :
        pc[g] = "done" /\ result[g].err => request[g] = "ok"

\* A Get that has posted a pull returns, whether the persona answers, late
\* or never: PullImage's client gives up after 60 s.
GetsTerminate ==
    \A g \in Getters : pc[g] = "pulling" ~> pc[g] = "done"

-----------------------------------------------------------------------------
(* What the spec says of the code and the code does not do.                *)

\* Spec section 6: Get returns an image config or an error.
GetReturnsImageOrError ==
    \A g \in Getters :
        pc[g] = "done" => result[g].cfg # NoImage \/ result[g].err

=============================================================================
