----------------------------- MODULE RateLimiter -----------------------------
(***************************************************************************)
(* The RateLimiter (src/ratelimit/ratelimiter.cpp) in front of the         *)
(* RateLimitManager of a policy that several endpoints share.  The first   *)
(* request to an endpoint sends a HEAD request and waits for it in a       *)
(* nested QEventLoop.  The event loop goes on inside: timers fire, replies *)
(* arrive, and callers submit more requests, whose own nested loops run on *)
(* top and must return first.  A slot of complete() can submit too, so a   *)
(* nested loop may also run in the middle of ReceiveReply.                 *)
(***************************************************************************)
EXTENDS RateLimitManager

CONSTANTS
    Endpoints,       \* endpoints that come under the policy
    HeadCounts       \* the server counts a HEAD request as a hit

ASSUME HeadCountsAssumption == HeadCounts \in BOOLEAN

VARIABLES
    known,           \* m_manager_by_endpoint
    loops,           \* the nested event loops, innermost last
    heads            \* HEAD requests without a reply yet

limiterVars == <<known, loops, heads>>
allVars == <<vars, limiterVars>>

\* One call of SetupEndpoint, waiting for its HEAD reply.  "inSlot" says that it
\* was made by a slot of complete(), within ReceiveReply.
Frame(e, inSlot) ==
    [endpoint |-> e, id |-> submitted + 1, inSlot |-> inSlot,
     done |-> FALSE, hits |-> hits]

LimiterInit == Init /\ known = {} /\ loops = <<>> /\ heads = {}

-----------------------------------------------------------------------------
\* Submit for an endpoint nobody has asked for: SetupEndpoint up to loop.exec().
EnterLoop(e, inSlot) ==
    /\ e \notin known
    /\ submitted < MaxRequests
    /\ submitted' = submitted + 1
    /\ loops' = Append(loops, Frame(e, inSlot))
    /\ heads' = heads \cup {[id |-> submitted + 1, answered |-> FALSE, hits |-> hits]}
    /\ UNCHANGED known

SubmitUnknown ==
    \E e \in Endpoints :
        /\ EnterLoop(e, FALSE)
        /\ UNCHANGED <<now, managerVars, networkVars, finished, delivered, notBefore>>

\* Submit for an endpoint that has a manager.
SubmitKnown == known # {} /\ QueueRequest /\ UNCHANGED limiterVars

(***************************************************************************)
(* A reply whose slot submits to an unknown endpoint: ReceiveReply is      *)
(* suspended after complete(), its request still active.                   *)
(***************************************************************************)
ReceiveAndEnterLoop ==
    \E r \in replies, e \in Endpoints :
        /\ replies' = replies \ {r}
        /\ r.code = "ok" /\ active # 0 /\ ~orphan
        /\ hits' = r.hits /\ history' = PushFront(r.date, history)
        /\ finished' = finished \cup {r.id}
        /\ delivered' = Append(delivered, active)
        /\ EnterLoop(e, TRUE)
        /\ UNCHANGED <<now, hasPolicy, active, orphan, queue, timer, sent, log,
                       notBefore>>

\* The server handles a HEAD request.
HeadAnswer ==
    \E h \in heads :
        /\ ~h.answered
        /\ IF HeadCounts THEN RecordHit(FALSE) ELSE UNCHANGED log
        /\ heads' = (heads \ {h}) \cup
               {[h EXCEPT !.answered = TRUE,
                          !.hits = [it \in Items |-> Count(log', it, now)]]}
        /\ UNCHANGED <<now, managerVars, sent, replies, ghostVars, known, loops>>

\* Mutant: only the innermost loop is listening.
InnermostHeadFinished ==
    \E h \in heads :
        /\ h.answered
        /\ heads' = heads \ {h}
        /\ loops' = [k \in DOMAIN loops |->
               IF loops[k].id = h.id /\ k = Len(loops)
               THEN [loops[k] EXCEPT !.done = TRUE, !.hits = h.hits] ELSE loops[k]]
        /\ UNCHANGED <<vars, known>>

\* The HEAD reply arrives: quit() for its loop, wherever that is in the stack.
HeadFinished ==
    \E h \in heads :
        /\ h.answered
        /\ heads' = heads \ {h}
        /\ loops' = [k \in DOMAIN loops |->
               IF loops[k].id = h.id THEN [loops[k] EXCEPT !.done = TRUE, !.hits = h.hits]
                                     ELSE loops[k]]
        /\ UNCHANGED <<vars, known>>

\* Mutants of LoopReturn: the request is queued and the manager started although
\* it is busy; the next request is chosen before the slot's request is queued.
LoopReturnTo(key, resume) ==
    /\ loops # <<>>
    /\ loops[Len(loops)].done
    /\ loops' = SubSeq(loops, 1, Len(loops) - 1)
    /\ known' = known \cup {key}
    /\ hasPolicy' = TRUE /\ hits' = loops[Len(loops)].hits
    /\ resume
    /\ UNCHANGED <<now, history, networkVars, ghostVars, heads>>

OverlappingLoopReturn ==
    LoopReturnTo(loops[Len(loops)].endpoint,
        ActivateRequest(Append(queue, loops[Len(loops)].id), hits', history))

DroppingLoopReturn ==
    LoopReturnTo(loops[Len(loops)].endpoint,
        IF loops[Len(loops)].inSlot
        THEN ActivateRequest(queue, hits', history)
        ELSE IF active # 0
        THEN queue' = Append(queue, loops[Len(loops)].id) /\ UNCHANGED <<active, orphan, timer>>
        ELSE ActivateRequest(Append(queue, loops[Len(loops)].id), hits', history))

(***************************************************************************)
(* The innermost loop returns: ProcessHeadResponse gets or creates the     *)
(* manager, updates its policy from the HEAD reply, and queues the request *)
(* that asked.  If a slot made the call, ReceiveReply then goes on: the    *)
(* completed request is dropped and the next one activated.                *)
(***************************************************************************)
LoopReturn ==
    /\ loops # <<>>
    /\ LET top == loops[Len(loops)]
           q   == Append(queue, top.id)
       IN  /\ top.done
           /\ loops' = SubSeq(loops, 1, Len(loops) - 1)
           /\ known' = known \cup {top.endpoint}
           /\ hasPolicy' = TRUE /\ hits' = top.hits
           /\ IF active # 0 /\ ~top.inSlot
              THEN queue' = q /\ UNCHANGED <<active, orphan, timer>>
              ELSE ActivateRequest(q, top.hits, history)
    /\ UNCHANGED <<now, history, networkVars, ghostVars, heads>>

LimiterNext ==
    \/ SubmitUnknown
    \/ SubmitKnown
    \/ ReceiveAndEnterLoop
    \/ HeadAnswer
    \/ HeadFinished
    \/ LoopReturn
    \/ (Tick \/ SendRequest \/ ReceiveReply \/ ServerAnswer \/ OtherHit \/ NetworkFailure)
          /\ UNCHANGED limiterVars

LimiterSpec == LimiterInit /\ [][LimiterNext]_allVars

LimiterFairSpec ==
    /\ LimiterSpec
    /\ WF_allVars(Tick /\ UNCHANGED limiterVars)
    /\ WF_allVars(SendRequest /\ UNCHANGED limiterVars)
    /\ WF_allVars(ServerAnswer /\ UNCHANGED limiterVars)
    /\ WF_allVars(ReceiveReply /\ UNCHANGED limiterVars)
    /\ WF_allVars(HeadAnswer) /\ WF_allVars(HeadFinished) /\ WF_allVars(LoopReturn)

-----------------------------------------------------------------------------
(* Properties. *)

LimiterTypeOK ==
    /\ TypeOK
    /\ known \subseteq Endpoints
    /\ loops \in Seq([endpoint : Endpoints, id : Nat, inSlot : BOOLEAN,
                      done : BOOLEAN, hits : [Items -> Nat]])
    /\ heads \subseteq [id : Nat, answered : BOOLEAN, hits : [Items -> Nat]]

\* How often a request is on its way to being answered: waiting for its HEAD,
\* queued, or active and not yet answered.
Pending(id) ==
    Cardinality({k \in DOMAIN loops : loops[k].id = id})
    + Cardinality({k \in DOMAIN queue : queue[k] = id})
    + (IF active = id /\ id \notin finished THEN 1 ELSE 0)

(***************************************************************************)
(* Whatever runs inside the nested loops, each request that was submitted  *)
(* and not answered is in exactly one place, and an answered one is in     *)
(* none: no return of a loop drops, overwrites or repeats a request.       *)
(***************************************************************************)
ExactlyOnePlace ==
    \A id \in 1..submitted : Pending(id) = IF id \in finished THEN 0 ELSE 1

\* The types, and that the nested loops of the limiter lose and repeat nothing.
LimiterInv == LimiterTypeOK /\ ExactlyOnePlace

(***************************************************************************)
(* The nested loops always unwind: every request submitted, from wherever, *)
(* is delivered when the server answers and the limits are not reached.    *)
(***************************************************************************)
EveryRequestComesBack ==
    \A id \in 1..MaxRequests :
        (submitted >= id) ~> (\E i \in DOMAIN delivered : delivered[i] = id)

=============================================================================
