-------------------------- MODULE RateLimitManager --------------------------
(***************************************************************************)
(* One RateLimitManager (src/ratelimit/ratelimitmanager.cpp): the object   *)
(* that owns every request made under one rate limit policy, sends them    *)
(* one at a time, and decides from the policy in the last reply and from   *)
(* the dates of the earlier replies when the next may be sent.  Around it  *)
(* are the two things it talks to: the network with the server that counts *)
(* hits, and the callers that submit requests.                             *)
(*                                                                         *)
(* The program is a single Qt event loop, so each slot is one action.      *)
(* Times are whole ticks of one clock.  A request is named by its          *)
(* submission number; 0 is the null pointer.                               *)
(***************************************************************************)
EXTENDS Integers, Sequences, FiniteSets

CONSTANTS
    Items,           \* the policy's items: records [limit, period]
    TimingBucket,    \* TIMING_BUCKET_MSEC
    NormalBuffer,    \* NORMAL_BUFFER_MSEC
    RetryAfter,      \* the Retry-After header of a 429 reply
    ServerBucket,    \* how late the server may date a hit
    Outcomes,        \* what else than a rate violation a reply may be
    SoleClient,      \* nobody else uses the policy once we know of it
    MaxRequests,     \* bound: requests submitted
    MaxHits,         \* bound: hits in the record before others stop adding to it
    MaxTime          \* bound: the clock passes it only for an armed timer

Off == -1            \* the activation timer is not running

ItemsAssumption ==
    \A it \in Items : it.limit \in Nat \ {0} /\ it.period \in Nat

\* maximum_hits() exists: a policy has finitely many items.
MaximumHitsAssumption ==
    \E it \in Items : \A other \in Items : other.limit <= it.limit

TimesAssumption ==
    /\ TimingBucket \in Nat /\ NormalBuffer \in Nat /\ RetryAfter \in Nat
    /\ ServerBucket \in Nat /\ SoleClient \in BOOLEAN
    /\ Outcomes \subseteq {"ok", "error", "noheader"}
    /\ MaxRequests \in Nat /\ MaxHits \in Nat /\ MaxTime \in Nat

ASSUME PolicyAssumption ==
    ItemsAssumption /\ MaximumHitsAssumption /\ TimesAssumption

VARIABLES
    now,         \* the clock
    hasPolicy,   \* m_policy is not null
    hits,        \* m_policy: state().hits() of each item
    history,     \* m_history: reply dates, newest first
    active,      \* m_active_request (0: null)
    orphan,      \* m_active_request->reply is null
    queue,       \* m_queued_requests
    timer,       \* m_activation_timer: when it fires, or Off
    sent,        \* requests on their way to the server
    replies,     \* replies on their way back
    log,         \* the server's record of hits, oldest first
    submitted,   \* how many requests the callers have made
    finished,    \* requests the server has answered successfully
    delivered,   \* requests whose complete() signal was emitted, in order
    notBefore    \* no request may be sent before this time (after a 429)

managerVars == <<hasPolicy, hits, history, active, orphan, queue, timer>>
networkVars == <<sent, replies, log>>
ghostVars   == <<submitted, finished, delivered, notBefore>>
vars == <<now, managerVars, networkVars, ghostVars>>

-----------------------------------------------------------------------------
(* The policy, and when it lets the next request go. *)

\* RateLimitPolicy::maximum_hits()
MaximumHits == CHOOSE n \in {it.limit : it \in Items} :
                   \A it \in Items : it.limit <= n

\* Status >= BORDERLINE for some item.
AtLimit(policy) == \E it \in Items : policy[it] >= it.limit

\* Mutant: the oldest date kept, instead of the one a full limit back.
OldestNextSafeSend(it, policy, past) ==
    IF policy[it] < it.limit \/ past = <<>> THEN now ELSE past[Len(past)] + it.period

\* RateLimitItem::GetNextSafeSend
ItemNextSafeSend(it, policy, past) ==
    IF policy[it] < it.limit
    THEN now
    ELSE LET n == IF it.limit > Len(past) THEN Len(past) ELSE it.limit
             earliest == IF n < 1 THEN now ELSE past[n]
         IN  earliest + it.period

\* RateLimitPolicy::GetNextSafeSend takes the latest of these.
SendTimes(policy, past) ==
    {now} \cup {ItemNextSafeSend(it, policy, past) : it \in Items}

\* circular_buffer::push_front: the oldest entries fall off a full buffer.
PushFront(date, past) ==
    LET len == IF Len(past) < MaximumHits THEN Len(past) + 1 ELSE MaximumHits
    IN  [k \in 1..len |-> IF k = 1 THEN date ELSE past[k - 1]]

\* The server's count of the hits still inside an item's window at time t.
Count(record, it, t) ==
    Cardinality({k \in DOMAIN record : record[k].rec + it.period > t})

-----------------------------------------------------------------------------
Init ==
    /\ now = 0
    /\ hasPolicy = FALSE /\ hits = [it \in Items |-> 0] /\ history = <<>>
    /\ active = 0 /\ orphan = FALSE /\ queue = <<>> /\ timer = Off
    /\ sent = {} /\ replies = {} /\ log = <<>>
    /\ submitted = 0 /\ finished = {} /\ delivered = <<>>
    /\ notBefore = 0

Tick ==
    /\ now < MaxTime \/ timer > now
    /\ now' = now + 1
    /\ UNCHANGED <<managerVars, networkVars, ghostVars>>

\* Mutant: no bucket is added at the limit.
BucketlessActivateRequest(q, policy, past) ==
    /\ active' = IF q = <<>> THEN 0 ELSE Head(q)
    /\ queue' = IF q = <<>> THEN <<>> ELSE Tail(q)
    /\ orphan' = FALSE
    /\ timer' = IF q = <<>> THEN Off
                ELSE NormalBuffer + CHOOSE t \in SendTimes(policy, past) :
                                        \A u \in SendTimes(policy, past) : u <= t

(***************************************************************************)
(* ActivateRequest with q queued, under the policy and history given: the  *)
(* front of the queue becomes the active request and the timer is set.     *)
(* last_send in the code is never assigned, so MINIMUM_INTERVAL_MSEC has   *)
(* no effect.                                                              *)
(***************************************************************************)
ActivateRequest(q, policy, past) ==
    \/ /\ q = <<>>
       /\ active' = 0 /\ orphan' = FALSE /\ queue' = <<>> /\ timer' = Off
    \/ /\ q # <<>>
       /\ active' = Head(q) /\ orphan' = FALSE /\ queue' = Tail(q)
       /\ \E next_send \in SendTimes(policy, past) :
             /\ \A t \in SendTimes(policy, past) : t <= next_send
             /\ timer' = next_send
                    + IF AtLimit(policy) THEN TimingBucket ELSE NormalBuffer

\* The next n requests a caller makes.
NewRequests(n) == [k \in 1..n |-> submitted + k]

\* Update with the reply to the HEAD request that introduces the policy.
FirstUpdate ==
    /\ ~hasPolicy
    /\ hasPolicy' = TRUE
    /\ hits' = [it \in Items |-> Count(log, it, now)]
    /\ UNCHANGED <<now, history, active, orphan, queue, timer, networkVars, ghostVars>>

\* Mutant: a request is activated although another one waits to be sent again.
ImpatientQueueRequest ==
    /\ hasPolicy
    /\ submitted < MaxRequests
    /\ submitted' = submitted + 1
    /\ IF active # 0 /\ ~orphan
       THEN queue' = queue \o NewRequests(1) /\ UNCHANGED <<active, orphan, timer>>
       ELSE ActivateRequest(queue \o NewRequests(1), hits, history)
    /\ UNCHANGED <<now, hasPolicy, hits, history, networkVars,
                   finished, delivered, notBefore>>

\* A caller submits a request: RateLimiter::Submit for a known endpoint.
QueueRequest ==
    /\ hasPolicy
    /\ submitted < MaxRequests
    /\ submitted' = submitted + 1
    /\ IF active # 0
       THEN queue' = queue \o NewRequests(1) /\ UNCHANGED <<active, orphan, timer>>
       ELSE ActivateRequest(queue \o NewRequests(1), hits, history)
    /\ UNCHANGED <<now, hasPolicy, hits, history, networkVars,
                   finished, delivered, notBefore>>

\* The activation timer fires (perhaps late) and the active request goes out.
SendRequest ==
    /\ timer # Off /\ timer <= now
    /\ timer' = Off
    /\ IF active = 0
       THEN UNCHANGED sent
       ELSE sent' = sent \cup {active}
    /\ UNCHANGED <<now, hasPolicy, hits, history, active, orphan, queue, replies, log,
                   submitted, finished, delivered, notBefore>>

-----------------------------------------------------------------------------
\* Mutants: requests a slot submits overtake the queue; and they are not looked
\* for, so that a manager with an empty queue goes idle before they arrive.
OvertakingReceiveSuccess(r) ==
    /\ r.code = "ok" /\ ~orphan
    /\ hits' = r.hits /\ history' = PushFront(r.date, history)
    /\ finished' = finished \cup {r.id} /\ delivered' = Append(delivered, active)
    /\ \E n \in 0..1 :
          /\ submitted + n <= MaxRequests
          /\ submitted' = submitted + n
          /\ ActivateRequest(NewRequests(n) \o queue, r.hits, history')
    /\ UNCHANGED notBefore

IdleReceiveSuccess(r) ==
    /\ r.code = "ok" /\ ~orphan
    /\ hits' = r.hits /\ history' = PushFront(r.date, history)
    /\ finished' = finished \cup {r.id} /\ delivered' = Append(delivered, active)
    /\ \E n \in 0..1 :
          /\ submitted + n <= MaxRequests
          /\ submitted' = submitted + n
          /\ IF queue = <<>>
             THEN active' = 0 /\ orphan' = FALSE /\ timer' = Off /\ queue' = NewRequests(n)
             ELSE ActivateRequest(queue \o NewRequests(n), r.hits, history')
    /\ UNCHANGED notBefore

(***************************************************************************)
(* The reply of the active request.  complete() is emitted while the       *)
(* request is still active, so requests its slot submits are queued behind *)
(* the others; only then is the next one activated.                        *)
(***************************************************************************)
ReceiveSuccess(r) ==
    LET past == PushFront(r.date, history) IN
    /\ r.code = "ok"
    /\ hits' = r.hits /\ history' = past
    /\ finished' = finished \cup {r.id}
    /\ IF orphan
       THEN /\ UNCHANGED <<delivered, submitted>>
            /\ ActivateRequest(queue, r.hits, past)
       ELSE /\ delivered' = Append(delivered, active)
            /\ \E n \in 0..1 :
                  /\ submitted + n <= MaxRequests
                  /\ submitted' = submitted + n
                  /\ ActivateRequest(queue \o NewRequests(n), r.hits, past)
    /\ UNCHANGED notBefore

\* 429 with Retry-After: the same request is sent again later.
ReceiveViolation(r) ==
    /\ r.code = "violation"
    /\ hits' = r.hits /\ history' = PushFront(r.date, history)
    /\ timer' = now + RetryAfter + TimingBucket
    /\ notBefore' = now + RetryAfter + TimingBucket
    /\ orphan' = TRUE
    /\ UNCHANGED <<active, queue, submitted, finished, delivered>>

\* Any other error: logged, and the request stays active.
ReceiveError(r) ==
    /\ r.code = "error"
    /\ hits' = r.hits /\ history' = PushFront(r.date, history)
    /\ orphan' = TRUE
    /\ UNCHANGED <<active, queue, timer, submitted, finished, delivered, notBefore>>

\* No X-Rate-Limit-Policy header: the slot returns early.
ReceiveNoHeader(r) ==
    /\ r.code = "noheader"
    /\ UNCHANGED <<hits, history, active, orphan, queue, timer,
                   submitted, finished, delivered, notBefore>>

ReceiveReply ==
    \E r \in replies :
        /\ replies' = replies \ {r}
        /\ hasPolicy /\ active # 0
        /\ ReceiveSuccess(r) \/ ReceiveViolation(r) \/ ReceiveError(r) \/ ReceiveNoHeader(r)
        /\ UNCHANGED <<now, hasPolicy, sent, log>>

-----------------------------------------------------------------------------
(* The server and the network. *)

\* The server's date for a hit it handles now: up to one bucket late, in order.
RecordHit(own) ==
    \E rec \in now..(now + ServerBucket) :
        /\ log # <<>> => log[Len(log)].rec <= rec
        /\ log' = Append(log, [at |-> now, rec |-> rec, own |-> own])

\* Someone else uses the policy: an earlier session, another program.
OtherHit ==
    /\ ~(SoleClient /\ hasPolicy)
    /\ Len(log) < MaxHits
    /\ RecordHit(FALSE)
    /\ UNCHANGED <<now, managerVars, sent, replies, ghostVars>>

\* The server answers 429 when this hit is one too many for some item.
ServerAnswer ==
    \E id \in sent :
        /\ RecordHit(TRUE)
        /\ sent' = sent \ {id}
        /\ LET counts == [it \in Items |-> Count(log', it, now)]
               codes  == IF \E it \in Items : counts[it] > it.limit
                         THEN {"violation"} ELSE Outcomes
           IN  \E code \in codes :
                  replies' = replies \cup
                      {[id |-> id, code |-> code, date |-> now, hits |-> counts]}
        /\ UNCHANGED <<now, managerVars, ghostVars>>

\* The connection fails before the request reaches the server.
NetworkFailure ==
    /\ "noheader" \in Outcomes
    /\ \E id \in sent :
        /\ sent' = sent \ {id}
        /\ replies' = replies \cup {[id |-> id, code |-> "noheader", date |-> now, hits |-> hits]}
        /\ UNCHANGED <<now, managerVars, log, ghostVars>>

Next ==
    \/ Tick
    \/ FirstUpdate
    \/ QueueRequest
    \/ SendRequest
    \/ ReceiveReply
    \/ OtherHit
    \/ ServerAnswer
    \/ NetworkFailure

Spec == Init /\ [][Next]_vars

\* The event loop runs due timers and finished replies, the clock runs, and
\* the server answers whatever reaches it.
Fairness ==
    /\ WF_vars(Tick) /\ WF_vars(SendRequest) /\ WF_vars(ReceiveReply)
    /\ WF_vars(ServerAnswer) /\ WF_vars(FirstUpdate)

FairSpec == Spec /\ Fairness

-----------------------------------------------------------------------------
(* Properties. *)

Hit   == [at : Nat, rec : Nat, own : BOOLEAN]
Reply == [id : Nat \ {0}, code : Outcomes \cup {"violation", "noheader"},
          date : Nat, hits : [Items -> Nat]]

\* The variables have their types.
TypeOK ==
    /\ now \in Nat
    /\ hasPolicy \in BOOLEAN /\ hits \in [Items -> Nat] /\ history \in Seq(Nat)
    /\ active \in Nat /\ orphan \in BOOLEAN /\ queue \in Seq(Nat \ {0})
    /\ timer \in Nat \cup {Off}
    /\ sent \subseteq Nat \ {0} /\ replies \subseteq Reply /\ log \in Seq(Hit)
    /\ submitted \in Nat /\ finished \subseteq Nat /\ delivered \in Seq(Nat)
    /\ notBefore \in Nat

(***************************************************************************)
(* No request of ours is one too many: when the server handles it, the     *)
(* hit that lies a full limit back is already outside the window.  What    *)
(* GetNextSafeSend, the history and the bucket delay are for.              *)
(***************************************************************************)
Compliance ==
    \A k \in DOMAIN log : log[k].own =>
        \A it \in Items : k > it.limit =>
            log[k - it.limit].rec + it.period <= log[k].at

(***************************************************************************)
(* One thing at a time: the armed timer, the request on the wire and the   *)
(* reply on its way back exclude each other and belong to the active       *)
(* request, so two requests of a policy never overlap.                     *)
(***************************************************************************)
OneInFlight ==
    /\ (timer # Off) => (active # 0 /\ sent = {} /\ replies = {})
    /\ \A id \in sent : id = active /\ replies = {}
    /\ \A r \in replies : r.id = active /\ replies = {r}

\* The requests not answered yet: the active one, then the queued ones.
Line == (IF active = 0 THEN <<>> ELSE <<active>>) \o queue

Queue == INSTANCE RequestQueue WITH line <- Line

(***************************************************************************)
(* The manager implements RequestQueue: whatever the policy, the server    *)
(* and the other clients do, each of its steps joins the line, serves the  *)
(* request at its head, or leaves the line alone.                          *)
(***************************************************************************)
ImplementsQueue == Queue!QueueSpec

(***************************************************************************)
(* First come, first served: what was delivered, what is active and what   *)
(* is queued appear in the order of submission, none twice; a request      *)
(* leaves this line undelivered only once it has been answered, and nothing*)
(* waits while the manager is free.                                        *)
(***************************************************************************)
NobodyWaitsInVain == active = 0 => queue = <<>>

FirstComeFirstServed == Queue!ServedInTurn /\ NobodyWaitsInVain

NewSend == \E id \in sent' : id \notin sent

(***************************************************************************)
(* The Retry-After penalty and the bucket are waited out: no request leaves*)
(* before then, whatever is submitted in the meantime.                     *)
(***************************************************************************)
PenaltyRespected == [][NewSend => now >= notBefore]_vars

(***************************************************************************)
(* While the server keeps answering, every request is answered in the end: *)
(* no callback inside ReceiveReply, no wait for a window and no request    *)
(* sent again after a 429 leaves the queue standing.                       *)
(***************************************************************************)
EveryRequestAnswered ==
    \A id \in 1..MaxRequests : (submitted >= id) ~> (id \in finished)

-----------------------------------------------------------------------------
(***************************************************************************)
(* Why Compliance holds for a sole client.  The history is the tail of the *)
(* server's record (but for a hit whose reply is still on its way), and    *)
(* whenever a request is armed or sent there is room for it in every       *)
(* window at that time.                                                    *)
(***************************************************************************)

\* One more hit at time t finds the hit a full limit back outside the window.
Room(it, t) ==
    Len(log) >= it.limit => log[Len(log) + 1 - it.limit].rec + it.period <= t

\* past lists the times of the first m hits of the record, newest first.
Recalls(past, m) ==
    \A k \in 1..Len(past) : k <= m /\ past[k] = log[m + 1 - k].at

LogOK ==
    /\ \A k \in 1..Len(log) :
          /\ log[k].at <= now
          /\ log[k].at <= log[k].rec /\ log[k].rec <= log[k].at + ServerBucket
    /\ \A j, k \in 1..Len(log) : j <= k => log[j].rec <= log[k].rec

BeforePolicy ==
    ~hasPolicy => /\ history = <<>> /\ active = 0 /\ queue = <<>>
                  /\ timer = Off /\ sent = {} /\ replies = {}

HistoryOK ==
    /\ (active = 0 \/ timer # Off \/ sent # {}) => Recalls(history, Len(log))
    /\ \A r \in replies : r.code # "noheader" =>
          /\ r.code # "violation"
          /\ Len(log) > 0 /\ r.date = log[Len(log)].at
          /\ Recalls(history, Len(log) - 1)

RoomOK ==
    \A it \in Items :
        /\ (hasPolicy /\ active = 0 /\ hits[it] < it.limit) => Room(it, now)
        /\ timer # Off => Room(it, timer)
        /\ sent # {} => Room(it, now)
        /\ \A r \in replies :
              (r.code # "noheader" /\ r.hits[it] < it.limit) => Room(it, now)

SoleClientInv ==
    /\ TypeOK /\ OneInFlight /\ LogOK /\ BeforePolicy
    /\ HistoryOK /\ RoomOK /\ Compliance

-----------------------------------------------------------------------------
(* What the comments promise and the code does not keep. *)

(***************************************************************************)
(* What ratelimitedreply.h promises the caller: when the underlying        *)
(* request is finished, complete() is issued.                              *)
(***************************************************************************)
FinishedIsDelivered == \A id \in finished : \E i \in DOMAIN delivered : delivered[i] = id

=============================================================================
