-------------------------- MODULE RateLimiterProofs --------------------------
(***************************************************************************)
(* Proofs about a RateLimitManager and about the RateLimiter around it.    *)
(*                                                                         *)
(* First the manager by itself, with Spec: types, one request in flight,   *)
(* penalties; that a sole client never makes a request too many, for every *)
(* policy and every choice of delays with ServerBucket <= TimingBucket;    *)
(* and that it is an implementation of RequestQueue.                       *)
(*                                                                         *)
(* Then the limiter, with LimiterSpec: for any endpoints, any number of    *)
(* requests and any depth of nested event loops no request is lost or      *)
(* repeated, and two never overlap.                                        *)
(***************************************************************************)
EXTENDS RateLimiter, FiniteSetTheorems, SequenceTheorems, TLAPS

-----------------------------------------------------------------------------
(* Lemmas about the operators of the model. *)

\* maximum_hits() bounds the limit of every item.
LEMMA MaximumHitsBound ==
    /\ MaximumHits \in Nat
    /\ \A it \in Items : it.limit <= MaximumHits
<1> DEFINE limits == {it.limit : it \in Items}
<1>1. \E n \in limits : \A it \in Items : it.limit <= n
  BY PolicyAssumption DEF MaximumHitsAssumption
<1>2. MaximumHits \in limits /\ \A it \in Items : it.limit <= MaximumHits
  BY <1>1 DEF MaximumHits
<1> QED
  BY <1>2, PolicyAssumption DEF ItemsAssumption

\* The server's count of hits is a natural number.
LEMMA CountType ==
    ASSUME NEW record \in Seq(Hit), NEW it \in Items, NEW t \in Nat
    PROVE  Count(record, it, t) \in Nat
<1> DEFINE inside == {k \in DOMAIN record : record[k].rec + it.period > t}
<1>1. DOMAIN record = 1..Len(record) /\ Len(record) \in Nat
  OBVIOUS
<1>2. IsFiniteSet(1..Len(record))
  BY <1>1, FS_Interval
<1>3. IsFiniteSet(inside)
  BY <1>1, <1>2, FS_Subset
<1> QED
  BY <1>3, FS_CardinalityType DEF Count

\* Fewer hits than the limit inside the window: the one a full limit back is outside.
LEMMA CountBelowLimit ==
    ASSUME NEW record \in Seq(Hit), NEW it \in Items, NEW t \in Nat,
           \A j, k \in 1..Len(record) : j <= k => record[j].rec <= record[k].rec,
           Count(record, it, t) < it.limit,
           Len(record) >= it.limit
    PROVE  record[Len(record) + 1 - it.limit].rec + it.period <= t
<1> DEFINE inside == {k \in DOMAIN record : record[k].rec + it.period > t}
           back   == Len(record) + 1 - it.limit
           newest == back..Len(record)
<1>1. /\ it.limit \in Nat \ {0} /\ it.period \in Nat
      /\ DOMAIN record = 1..Len(record) /\ Len(record) \in Nat
      /\ back \in 1..Len(record)
  BY PolicyAssumption DEF ItemsAssumption
<1>2. \A k \in 1..Len(record) : record[k].rec \in Nat
  <2>1. \A k \in 1..Len(record) : record[k] \in Hit
    OBVIOUS
  <2> QED
    BY <2>1 DEF Hit
<1> SUFFICES ASSUME record[back].rec + it.period > t
             PROVE  FALSE
  BY <1>1, <1>2
<1>3. newest \subseteq inside
  <2> SUFFICES ASSUME NEW k \in newest
               PROVE  k \in inside
    OBVIOUS
  <2>1. k \in 1..Len(record) /\ back <= k
    BY <1>1
  <2>2. record[back].rec <= record[k].rec
    BY <2>1, <1>1
  <2> HIDE DEF back
  <2> QED
    BY <2>1, <2>2, <1>1, <1>2
<1>4. IsFiniteSet(inside)
  <2>1. IsFiniteSet(1..Len(record))
    BY <1>1, FS_Interval
  <2> QED
    BY <2>1, <1>1, FS_Subset
<1>5. Cardinality(newest) = it.limit
  <2>1. Cardinality(newest) = IF back > Len(record) THEN 0 ELSE Len(record) - back + 1
    <3>1. back \in Int /\ Len(record) \in Int
      BY <1>1
    <3> HIDE DEF back
    <3> QED
      BY <3>1, FS_Interval
  <2> QED
    BY <2>1, <1>1
<1>6. Cardinality(newest) <= Cardinality(inside)
  BY <1>3, <1>4, FS_Subset
<1>7. Cardinality(inside) \in Nat
  BY <1>4, FS_CardinalityType
<1> HIDE DEF inside, newest, back
<1> QED
  BY <1>1, <1>5, <1>6, <1>7 DEF Count, inside

\* Conversely, if the hit a full limit back is outside, one more hit is not too many.
LEMMA CountWithinLimit ==
    ASSUME NEW record \in Seq(Hit), NEW it \in Items, NEW t \in Nat,
           \A j, k \in 1..Len(record) : j <= k => record[j].rec <= record[k].rec,
           Len(record) > it.limit => record[Len(record) - it.limit].rec + it.period <= t
    PROVE  Count(record, it, t) <= it.limit
<1> DEFINE inside == {k \in DOMAIN record : record[k].rec + it.period > t}
           first  == IF Len(record) > it.limit THEN Len(record) - it.limit + 1 ELSE 1
           newest == first..Len(record)
<1>1. /\ it.limit \in Nat \ {0} /\ it.period \in Nat
      /\ DOMAIN record = 1..Len(record) /\ Len(record) \in Nat
      /\ first \in Nat /\ first >= 1
  BY PolicyAssumption DEF ItemsAssumption
<1>2. \A k \in 1..Len(record) : record[k].rec \in Nat
  <2>1. \A k \in 1..Len(record) : record[k] \in Hit
    OBVIOUS
  <2> QED
    BY <2>1 DEF Hit
<1>3. inside \subseteq newest
  <2> SUFFICES ASSUME NEW k \in inside, k < first
               PROVE  FALSE
    BY <1>1
  <2>1. k \in 1..Len(record) /\ record[k].rec + it.period > t
    BY <1>1
  <2>2. Len(record) > it.limit /\ k <= Len(record) - it.limit
    BY <2>1, <1>1
  <2>3. Len(record) - it.limit \in 1..Len(record)
    BY <2>2, <2>1, <1>1
  <2>4. record[k].rec <= record[Len(record) - it.limit].rec
    BY <2>1, <2>2, <2>3
  <2>5. record[Len(record) - it.limit].rec + it.period <= t
    BY <2>2
  <2>6. record[k].rec \in Nat /\ record[Len(record) - it.limit].rec \in Nat
    BY <2>1, <2>3, <1>2
  <2> QED
    BY <2>1, <2>4, <2>5, <2>6, <1>1, SMTT(30)
<1>4. IsFiniteSet(newest) /\ Cardinality(newest) <= it.limit
  <2>1. /\ IsFiniteSet(newest)
        /\ Cardinality(newest) = IF first > Len(record) THEN 0 ELSE Len(record) - first + 1
    <3>1. first \in Int /\ Len(record) \in Int
      BY <1>1
    <3> HIDE DEF first
    <3> QED
      BY <3>1, FS_Interval
  <2> QED
    BY <2>1, <1>1
<1>5. IsFiniteSet(inside) /\ Cardinality(inside) <= Cardinality(newest)
  BY <1>3, <1>4, FS_Subset
<1>6. Cardinality(inside) \in Nat /\ Cardinality(newest) \in Nat
  BY <1>4, <1>5, FS_CardinalityType
<1> HIDE DEF inside, newest, first
<1> QED
  BY <1>1, <1>4, <1>5, <1>6 DEF Count, inside

\* What GetNextSafeSend considers are times.
LEMMA SendTimesType ==
    ASSUME now \in Nat, NEW policy \in [Items -> Nat], NEW past \in Seq(Nat)
    PROVE  SendTimes(policy, past) \subseteq Nat
<1>1. ASSUME NEW it \in Items
      PROVE  ItemNextSafeSend(it, policy, past) \in Nat
  <2>1. it.limit \in Nat \ {0} /\ it.period \in Nat /\ policy[it] \in Nat
    BY PolicyAssumption DEF ItemsAssumption
  <2>2. Len(past) \in Nat /\ \A k \in 1..Len(past) : past[k] \in Nat
    OBVIOUS
  <2> QED
    BY <2>1, <2>2 DEF ItemNextSafeSend
<1> QED
  BY <1>1 DEF SendTimes

\* push_front on a buffer of times.
LEMMA PushFrontType ==
    ASSUME NEW date \in Nat, NEW past \in Seq(Nat)
    PROVE  /\ PushFront(date, past) \in Seq(Nat)
           /\ Len(PushFront(date, past)) <= Len(past) + 1
           /\ \A k \in 1..Len(PushFront(date, past)) :
                 PushFront(date, past)[k] = IF k = 1 THEN date ELSE past[k - 1]
<1> DEFINE len == IF Len(past) < MaximumHits THEN Len(past) + 1 ELSE MaximumHits
           new == [k \in 1..len |-> IF k = 1 THEN date ELSE past[k - 1]]
<1>1. len \in Nat /\ Len(past) \in Nat /\ len <= Len(past) + 1
  BY MaximumHitsBound
<1>2. \A k \in 1..len : (IF k = 1 THEN date ELSE past[k - 1]) \in Nat
  BY <1>1
<1>3. new \in [1..len -> Nat]
  BY <1>2
<1>4. new \in Seq(Nat)
  <2> HIDE DEF new, len
  <2> QED
    BY <1>1, <1>3, SeqDef
<1>5. Len(new) = len
  BY <1>1
<1> QED
  BY <1>1, <1>4, <1>5 DEF PushFront

\* The requests a caller makes are named by positive numbers.
LEMMA NewRequestsType ==
    ASSUME submitted \in Nat, NEW n \in Nat
    PROVE  NewRequests(n) \in Seq(Nat \ {0})
<1>1. NewRequests(n) \in [1..n -> Nat \ {0}]
  BY DEF NewRequests
<1> QED
  BY <1>1, SeqDef

LEMMA LongerQueueType ==
    ASSUME TypeOK, NEW n \in Nat
    PROVE  queue \o NewRequests(n) \in Seq(Nat \ {0})
<1>1. queue \in Seq(Nat \ {0}) /\ NewRequests(n) \in Seq(Nat \ {0})
  BY NewRequestsType DEF TypeOK
<1> QED
  BY <1>1, ConcatProperties

\* ActivateRequest either leaves the manager free or arms the timer for a request.
LEMMA ActivateRequestEffect ==
    ASSUME now \in Nat, NEW q \in Seq(Nat \ {0}), NEW policy \in [Items -> Nat],
           NEW past \in Seq(Nat), ActivateRequest(q, policy, past)
    PROVE  /\ active' \in Nat /\ timer' \in Nat \cup {Off}
           /\ orphan' \in BOOLEAN /\ queue' \in Seq(Nat \ {0})
           /\ \/ active' = 0 /\ timer' = Off
              \/ /\ active' \in Nat \ {0} /\ timer' \in Nat
                 /\ \E s \in SendTimes(policy, past) :
                       /\ \A t \in SendTimes(policy, past) : t <= s
                       /\ timer' = s + IF AtLimit(policy) THEN TimingBucket ELSE NormalBuffer
<1>1. SendTimes(policy, past) \subseteq Nat
  BY SendTimesType
<1>2. TimingBucket \in Nat /\ NormalBuffer \in Nat
  BY PolicyAssumption DEF TimesAssumption
<1>3. CASE q = <<>>
  <2>1. <<>> \in Seq(Nat \ {0})
    BY EmptySeq
  <2>2. active' = 0 /\ orphan' = FALSE /\ queue' = <<>> /\ timer' = Off
    BY <1>3 DEF ActivateRequest
  <2> QED
    BY <2>1, <2>2
<1>4. CASE q # <<>>
  <2>1. Head(q) \in Nat \ {0} /\ Tail(q) \in Seq(Nat \ {0})
    BY <1>4, HeadTailProperties
  <2>2. active' = Head(q) /\ queue' = Tail(q) /\ orphan' = FALSE
    BY <1>4 DEF ActivateRequest
  <2>3. PICK s \in SendTimes(policy, past) :
           /\ \A t \in SendTimes(policy, past) : t <= s
           /\ timer' = s + IF AtLimit(policy) THEN TimingBucket ELSE NormalBuffer
    BY <1>4 DEF ActivateRequest
  <2>4. timer' \in Nat
    BY <1>1, <1>2, <2>3
  <2> QED
    BY <2>1, <2>2, <2>3, <2>4
<1> QED
  BY <1>3, <1>4

-----------------------------------------------------------------------------
(* Types. *)

LEMMA InitTypeOK == Init => TypeOK
<1> SUFFICES ASSUME Init
             PROVE  TypeOK
  OBVIOUS
<1>1. <<>> \in Seq(Nat) /\ <<>> \in Seq(Nat \ {0}) /\ <<>> \in Seq(Hit)
  BY EmptySeq
<1>2. hits \in [Items -> Nat]
  BY DEF Init
<1> QED
  BY <1>1, <1>2 DEF Init, TypeOK

LEMMA ReplyFields ==
    ASSUME TypeOK, NEW r \in replies
    PROVE  /\ r.id \in Nat \ {0} /\ r.date \in Nat /\ r.hits \in [Items -> Nat]
           /\ PushFront(r.date, history) \in Seq(Nat)
BY PushFrontType DEF TypeOK, Reply

\* What the server appends to its record.
LEMMA RecordHitEffect ==
    ASSUME TypeOK, NEW own \in BOOLEAN, RecordHit(own)
    PROVE  \E hit \in Hit :
              /\ log' = Append(log, hit) /\ log' \in Seq(Hit)
              /\ hit.at = now /\ hit.own = own
              /\ now <= hit.rec /\ hit.rec <= now + ServerBucket
              /\ log # <<>> => log[Len(log)].rec <= hit.rec
<1>1. PICK rec \in now..(now + ServerBucket) :
         /\ log # <<>> => log[Len(log)].rec <= rec
         /\ log' = Append(log, [at |-> now, rec |-> rec, own |-> own])
  BY DEF RecordHit
<1>2. now \in Nat /\ ServerBucket \in Nat /\ log \in Seq(Hit)
  BY PolicyAssumption DEF TypeOK, TimesAssumption
<1> DEFINE hit == [at |-> now, rec |-> rec, own |-> own]
<1>3. hit \in Hit /\ now <= rec /\ rec <= now + ServerBucket
  BY <1>1, <1>2 DEF Hit
<1>4. Append(log, hit) \in Seq(Hit)
  BY <1>2, <1>3, AppendProperties
<1> QED
  BY <1>1, <1>3, <1>4

LEMMA ReceiveReplyTypeOK ==
    ASSUME TypeOK, ReceiveReply
    PROVE  TypeOK'
<1>1. \A n \in 0..1 : queue \o NewRequests(n) \in Seq(Nat \ {0})
  BY LongerQueueType
<1> USE DEF TypeOK
<1>2. PICK r \in replies :
         /\ replies' = replies \ {r}
         /\ ReceiveSuccess(r) \/ ReceiveViolation(r) \/ ReceiveError(r) \/ ReceiveNoHeader(r)
         /\ UNCHANGED <<now, hasPolicy, sent, log>>
  BY DEF ReceiveReply
<1>3. /\ r.id \in Nat \ {0} /\ r.date \in Nat /\ r.hits \in [Items -> Nat]
      /\ PushFront(r.date, history) \in Seq(Nat)
  BY ReplyFields
<1>4. RetryAfter \in Nat /\ TimingBucket \in Nat
  BY PolicyAssumption DEF TimesAssumption
<1>5. CASE ReceiveSuccess(r)
  <2> DEFINE past == PushFront(r.date, history)
  <2>1. PICK q \in Seq(Nat \ {0}) : ActivateRequest(q, r.hits, past)
    <3>1. CASE orphan
      BY <1>5, <3>1 DEF ReceiveSuccess
    <3>2. CASE ~orphan
      <4>1. PICK n \in 0..1 : ActivateRequest(queue \o NewRequests(n), r.hits, past)
        BY <1>5, <3>2 DEF ReceiveSuccess
      <4> QED
        BY <1>1, <4>1
    <3> QED
      BY <3>1, <3>2
  <2>2. active' \in Nat /\ orphan' \in BOOLEAN /\ queue' \in Seq(Nat \ {0})
        /\ timer' \in Nat \cup {Off}
    <3> HIDE DEF past
    <3>1. now \in Nat /\ past \in Seq(Nat)
      BY <1>3 DEF past
    <3> QED
      BY <1>3, <2>1, <3>1, ActivateRequestEffect
  <2>3. submitted' \in Nat /\ delivered' \in Seq(Nat)
    <3>1. Append(delivered, active) \in Seq(Nat)
      BY AppendProperties
    <3>2. CASE orphan
      BY <1>5, <3>2 DEF ReceiveSuccess
    <3>3. CASE ~orphan
      <4>1. delivered' = Append(delivered, active) /\ \E n \in 0..1 : submitted' = submitted + n
        BY <1>5, <3>3 DEF ReceiveSuccess
      <4> QED
        BY <3>1, <4>1
    <3> QED
      BY <3>2, <3>3
  <2>4. hits' = r.hits /\ history' = past /\ finished' \subseteq Nat /\ notBefore' = notBefore
    BY <1>3, <1>5 DEF ReceiveSuccess
  <2> QED
    BY <1>2, <1>3, <2>2, <2>3, <2>4
<1>6. CASE ReceiveViolation(r)
  BY <1>2, <1>3, <1>4, <1>6 DEF ReceiveViolation
<1>7. CASE ReceiveError(r)
  BY <1>2, <1>3, <1>7 DEF ReceiveError
<1>8. CASE ReceiveNoHeader(r)
  BY <1>2, <1>8 DEF ReceiveNoHeader
<1> QED
  BY <1>2, <1>5, <1>6, <1>7, <1>8

LEMMA ServerAnswerTypeOK ==
    ASSUME TypeOK, ServerAnswer
    PROVE  TypeOK'
<1>1. PICK id \in sent :
         /\ RecordHit(TRUE)
         /\ sent' = sent \ {id}
         /\ LET counts == [it \in Items |-> Count(log', it, now)]
                codes  == IF \E it \in Items : counts[it] > it.limit
                          THEN {"violation"} ELSE Outcomes
            IN  \E code \in codes :
                   replies' = replies \cup
                       {[id |-> id, code |-> code, date |-> now, hits |-> counts]}
         /\ UNCHANGED <<now, managerVars, ghostVars>>
  BY DEF ServerAnswer
<1>2. log' \in Seq(Hit)
  BY <1>1, RecordHitEffect
<1> DEFINE counts == [it \in Items |-> Count(log', it, now)]
<1>3. counts \in [Items -> Nat]
  BY <1>2, CountType DEF TypeOK
<1>4. PICK code \in Outcomes \cup {"violation"} :
         replies' = replies \cup
             {[id |-> id, code |-> code, date |-> now, hits |-> counts]}
  BY <1>1
<1>5. [id |-> id, code |-> code, date |-> now, hits |-> counts] \in Reply
  <2> HIDE DEF counts
  <2> QED
    BY <1>3 DEF TypeOK, Reply
<1>6. replies' \subseteq Reply
  BY <1>4, <1>5 DEF TypeOK
<1> QED
  BY <1>1, <1>2, <1>6 DEF TypeOK, managerVars, ghostVars

LEMMA NextTypeOK == TypeOK /\ [Next]_vars => TypeOK'
<1> SUFFICES ASSUME TypeOK, [Next]_vars
             PROVE  TypeOK'
  OBVIOUS
<1>1. CASE Tick
  BY <1>1 DEF TypeOK, Tick, managerVars, networkVars, ghostVars
<1>2. CASE FirstUpdate
  BY <1>2, CountType DEF TypeOK, FirstUpdate, networkVars, ghostVars
<1>3. CASE QueueRequest
  <2>1. queue \o NewRequests(1) \in Seq(Nat \ {0})
    BY LongerQueueType
  <2>2. active' \in Nat /\ orphan' \in BOOLEAN /\ queue' \in Seq(Nat \ {0})
        /\ timer' \in Nat \cup {Off}
    <3>1. CASE active # 0
      BY <1>3, <2>1, <3>1 DEF TypeOK, QueueRequest
    <3>2. CASE active = 0
      <4>1. ActivateRequest(queue \o NewRequests(1), hits, history)
        BY <1>3, <3>2 DEF QueueRequest
      <4> QED
        BY <2>1, <4>1, ActivateRequestEffect DEF TypeOK
    <3> QED
      BY <3>1, <3>2
  <2> QED
    BY <1>3, <2>2 DEF TypeOK, QueueRequest, networkVars
<1>4. CASE SendRequest
  BY <1>4 DEF TypeOK, SendRequest
<1>5. CASE ReceiveReply
  BY <1>5, ReceiveReplyTypeOK
<1>6. CASE OtherHit
  <2>1. log' \in Seq(Hit)
    BY <1>6, RecordHitEffect DEF OtherHit
  <2> QED
    BY <1>6, <2>1 DEF TypeOK, OtherHit, managerVars, ghostVars
<1>7. CASE ServerAnswer
  BY <1>7, ServerAnswerTypeOK
<1>8. CASE NetworkFailure
  <2>1. PICK id \in sent :
           /\ sent' = sent \ {id}
           /\ replies' = replies \cup
                  {[id |-> id, code |-> "noheader", date |-> now, hits |-> hits]}
           /\ UNCHANGED <<now, managerVars, log, ghostVars>>
    BY <1>8 DEF NetworkFailure
  <2>2. [id |-> id, code |-> "noheader", date |-> now, hits |-> hits] \in Reply
    BY DEF TypeOK, Reply
  <2> QED
    BY <2>1, <2>2 DEF TypeOK, managerVars, ghostVars
<1>9. CASE UNCHANGED vars
  BY <1>9 DEF TypeOK, vars, managerVars, networkVars, ghostVars
<1> QED
  BY <1>1, <1>2, <1>3, <1>4, <1>5, <1>6, <1>7, <1>8, <1>9 DEF Next

(***************************************************************************)
(* Every variable keeps its type: the clock, the queue, the timer and the  *)
(* dates in the history stay what the operators of the policy expect.      *)
(***************************************************************************)
THEOREM TypeCorrect == Spec => []TypeOK
<1>1. QED
  BY InitTypeOK, NextTypeOK, PTL DEF Spec

-----------------------------------------------------------------------------
(* One request in flight. *)

LEMMA NextOneInFlight == TypeOK /\ OneInFlight /\ [Next]_vars => OneInFlight'
<1> SUFFICES ASSUME TypeOK, OneInFlight, [Next]_vars
             PROVE  OneInFlight'
  OBVIOUS
<1> USE DEF OneInFlight
<1>1. CASE Tick
  BY <1>1 DEF Tick, managerVars, networkVars
<1>2. CASE FirstUpdate
  BY <1>2 DEF FirstUpdate, networkVars
<1>3. CASE QueueRequest
  <2>1. CASE active # 0
    BY <1>3, <2>1 DEF QueueRequest, networkVars
  <2>2. CASE active = 0
    <3>1. ActivateRequest(queue \o NewRequests(1), hits, history)
      BY <1>3, <2>2 DEF QueueRequest
    <3>2. queue \o NewRequests(1) \in Seq(Nat \ {0})
      BY LongerQueueType
    <3>3. timer' # Off => active' # 0
      BY <3>1, <3>2, ActivateRequestEffect DEF TypeOK
    <3>4. sent = {} /\ replies = {}
      BY <2>2 DEF TypeOK, Reply
    <3> QED
      BY <1>3, <3>3, <3>4 DEF QueueRequest, networkVars
  <2> QED
    BY <2>1, <2>2
<1>4. CASE SendRequest
  BY <1>4 DEF SendRequest
<1>5. CASE ReceiveReply
  <2>1. PICK r \in replies :
           /\ replies' = replies \ {r} /\ active # 0
           /\ ReceiveSuccess(r) \/ ReceiveViolation(r) \/ ReceiveError(r) \/ ReceiveNoHeader(r)
           /\ UNCHANGED sent
    BY <1>5 DEF ReceiveReply
  <2>2. replies' = {} /\ sent' = {} /\ timer = Off
    BY <2>1
  <2>3. CASE ReceiveSuccess(r)
    <3>1. PICK q \in Seq(Nat \ {0}) : ActivateRequest(q, r.hits, PushFront(r.date, history))
      <4>1. \A n \in 0..1 : queue \o NewRequests(n) \in Seq(Nat \ {0})
        BY LongerQueueType
      <4>2. queue \in Seq(Nat \ {0})
        BY DEF TypeOK
      <4> QED
        BY <2>3, <4>1, <4>2 DEF ReceiveSuccess
    <3>2. r.hits \in [Items -> Nat] /\ PushFront(r.date, history) \in Seq(Nat)
      BY ReplyFields
    <3>3. timer' # Off => active' # 0
      BY <3>1, <3>2, ActivateRequestEffect DEF TypeOK
    <3> QED
      BY <2>2, <3>3
  <2>4. CASE ReceiveViolation(r)
    BY <2>1, <2>2, <2>4 DEF ReceiveViolation
  <2>5. CASE ReceiveError(r)
    BY <2>2, <2>5 DEF ReceiveError
  <2>6. CASE ReceiveNoHeader(r)
    BY <2>2, <2>6 DEF ReceiveNoHeader
  <2> QED
    BY <2>1, <2>3, <2>4, <2>5, <2>6
<1>6. CASE OtherHit
  BY <1>6 DEF OtherHit, managerVars
<1>7. CASE ServerAnswer
  <2>1. PICK id, answer :
           /\ id \in sent /\ sent' = sent \ {id}
           /\ answer.id = id /\ replies' = replies \cup {answer}
           /\ UNCHANGED managerVars
    BY <1>7 DEF ServerAnswer
  <2> QED
    BY <2>1 DEF managerVars
<1>8. CASE NetworkFailure
  BY <1>8 DEF NetworkFailure, managerVars
<1>9. CASE UNCHANGED vars
  BY <1>9 DEF vars, managerVars, networkVars
<1> QED
  BY <1>1, <1>2, <1>3, <1>4, <1>5, <1>6, <1>7, <1>8, <1>9 DEF Next

(***************************************************************************)
(* The timer, the request on the wire and the reply on its way back never  *)
(* coexist, whoever else uses the policy and however requests fail.        *)
(***************************************************************************)
THEOREM OneInFlightHolds == Spec => []OneInFlight
<1>1. Init => OneInFlight
  BY DEF Init, OneInFlight
<1> QED
  BY <1>1, NextOneInFlight, TypeCorrect, PTL DEF Spec

-----------------------------------------------------------------------------
(* The penalty. *)

\* An armed timer waits for the end of the penalty; what is on its way, and a manager
\* without a request, have waited.
PenaltyWaited ==
    /\ timer # Off => timer >= notBefore
    /\ active = 0 \/ sent # {} \/ replies # {} => now >= notBefore

\* A timer that ActivateRequest arms once the penalty is over.
LEMMA ActivatedAfterPenalty ==
    ASSUME TypeOK, now >= notBefore, NEW q \in Seq(Nat \ {0}),
           NEW policy \in [Items -> Nat], NEW past \in Seq(Nat),
           ActivateRequest(q, policy, past)
    PROVE  timer' # Off => timer' >= notBefore
<1>1. now \in Nat /\ notBefore \in Nat
  BY DEF TypeOK
<1>2. SendTimes(policy, past) \subseteq Nat /\ now \in SendTimes(policy, past)
  BY <1>1, SendTimesType DEF SendTimes
<1>3. TimingBucket \in Nat /\ NormalBuffer \in Nat
  BY PolicyAssumption DEF TimesAssumption
<1>4. SUFFICES ASSUME timer' # Off PROVE timer' >= notBefore
  OBVIOUS
<1>5. PICK s \in SendTimes(policy, past) :
        /\ \A t \in SendTimes(policy, past) : t <= s
        /\ timer' = s + IF AtLimit(policy) THEN TimingBucket ELSE NormalBuffer
  BY <1>1, <1>4, ActivateRequestEffect
<1>6. s \in Nat /\ now <= s
  BY <1>2, <1>5
<1> QED
  BY <1>1, <1>3, <1>5, <1>6

LEMMA NextPenaltyWaited ==
    TypeOK /\ OneInFlight /\ PenaltyWaited /\ [Next]_vars => PenaltyWaited'
<1> SUFFICES ASSUME TypeOK, OneInFlight, PenaltyWaited, [Next]_vars
             PROVE  PenaltyWaited'
  OBVIOUS
<1>1. now \in Nat /\ notBefore \in Nat /\ timer \in Nat \cup {Off} /\ active \in Nat
  BY DEF TypeOK
<1> USE DEF PenaltyWaited
<1>2. CASE Tick
  BY <1>1, <1>2 DEF Tick, managerVars, networkVars, ghostVars
<1>3. CASE FirstUpdate
  BY <1>3 DEF FirstUpdate, networkVars, ghostVars
<1>4. CASE QueueRequest
  <2>1. now' = now /\ notBefore' = notBefore /\ sent' = sent /\ replies' = replies
    BY <1>4 DEF QueueRequest, networkVars
  <2>2. CASE active # 0
    BY <1>4, <2>1, <2>2 DEF QueueRequest
  <2>3. CASE active = 0
    <3>1. ActivateRequest(queue \o NewRequests(1), hits, history)
      BY <1>4, <2>3 DEF QueueRequest
    <3>2. queue \o NewRequests(1) \in Seq(Nat \ {0})
      BY LongerQueueType
    <3>3. now >= notBefore
      BY <2>3
    <3>4. hits \in [Items -> Nat] /\ history \in Seq(Nat)
      BY DEF TypeOK
    <3>5. timer' # Off => timer' >= notBefore
      BY <3>1, <3>2, <3>3, <3>4, ActivatedAfterPenalty
    <3> QED
      BY <2>1, <3>3, <3>5
  <2> QED
    BY <2>2, <2>3
<1>5. CASE SendRequest
  BY <1>1, <1>5 DEF SendRequest
<1>6. CASE ReceiveReply
  <2>1. PICK r \in replies :
           /\ replies' = replies \ {r} /\ active # 0
           /\ ReceiveSuccess(r) \/ ReceiveViolation(r) \/ ReceiveError(r) \/ ReceiveNoHeader(r)
           /\ UNCHANGED <<now, sent>>
    BY <1>6 DEF ReceiveReply
  <2>2. replies' = {} /\ sent' = {} /\ timer = Off /\ now >= notBefore
    BY <2>1 DEF OneInFlight
  <2>3. CASE ReceiveSuccess(r)
    <3>1. PICK q \in Seq(Nat \ {0}) : ActivateRequest(q, r.hits, PushFront(r.date, history))
      <4>1. \A n \in 0..1 : queue \o NewRequests(n) \in Seq(Nat \ {0})
        BY LongerQueueType
      <4>2. queue \in Seq(Nat \ {0})
        BY DEF TypeOK
      <4> QED
        BY <2>3, <4>1, <4>2 DEF ReceiveSuccess
    <3>2. r.hits \in [Items -> Nat] /\ PushFront(r.date, history) \in Seq(Nat)
      BY ReplyFields
    <3>3. timer' # Off => timer' >= notBefore
      BY <2>2, <3>1, <3>2, ActivatedAfterPenalty
    <3>4. notBefore' = notBefore
      BY <2>3 DEF ReceiveSuccess
    <3> QED
      BY <2>1, <2>2, <3>3, <3>4
  <2>4. CASE ReceiveViolation(r)
    <3>1. timer' = notBefore' /\ timer' \in Nat
      BY <1>1, <2>4, PolicyAssumption DEF ReceiveViolation, TimesAssumption
    <3> QED
      BY <2>1, <2>2, <2>4, <3>1 DEF ReceiveViolation
  <2>5. CASE ReceiveError(r) \/ ReceiveNoHeader(r)
    BY <2>1, <2>2, <2>5 DEF ReceiveError, ReceiveNoHeader
  <2> QED
    BY <2>1, <2>3, <2>4, <2>5
<1>7. CASE OtherHit
  BY <1>7 DEF OtherHit, managerVars, ghostVars
<1>8. CASE ServerAnswer \/ NetworkFailure
  <2>1. sent # {} /\ UNCHANGED <<now, managerVars, ghostVars>>
    BY <1>8 DEF ServerAnswer, NetworkFailure
  <2> QED
    BY <2>1 DEF managerVars, ghostVars
<1>9. CASE UNCHANGED vars
  BY <1>9 DEF vars, managerVars, networkVars, ghostVars
<1> QED
  BY <1>2, <1>3, <1>4, <1>5, <1>6, <1>7, <1>8, <1>9 DEF Next

\* Only SendRequest puts a request on the wire, when the timer fires.
LEMMA SendsAfterPenalty ==
    TypeOK /\ PenaltyWaited /\ [Next]_vars => [NewSend => now >= notBefore]_vars
<1> SUFFICES ASSUME TypeOK, PenaltyWaited, [Next]_vars, NewSend
             PROVE  now >= notBefore
  OBVIOUS
<1>1. ~(sent' \subseteq sent)
  BY DEF NewSend
<1>2. SendRequest
  BY <1>1 DEF Next, Tick, FirstUpdate, QueueRequest, ReceiveReply, OtherHit, ServerAnswer,
              NetworkFailure, networkVars, vars
<1>3. timer # Off /\ timer <= now
  BY <1>2 DEF SendRequest
<1>4. now \in Nat /\ notBefore \in Nat /\ timer \in Nat \cup {Off}
  BY DEF TypeOK
<1> QED
  BY <1>3, <1>4 DEF PenaltyWaited

(***************************************************************************)
(* The penalty of a 429 reply is waited out, whatever is submitted and     *)
(* whatever other replies bring: the activation timer is set in no other   *)
(* place before the request has gone out again.                            *)
(***************************************************************************)
THEOREM PenaltyRespectedHolds == Spec => PenaltyRespected
<1> DEFINE A == NewSend => now >= notBefore
<1>1. Init => PenaltyWaited
  BY DEF Init, PenaltyWaited
<1>2. TypeOK /\ PenaltyWaited /\ [Next]_vars => [A]_vars
  BY SendsAfterPenalty
<1>3. [][A]_vars => PenaltyRespected
  BY DEF PenaltyRespected
<1> HIDE DEF A
<1> QED
  BY <1>1, <1>2, <1>3, NextPenaltyWaited, TypeCorrect, OneInFlightHolds, PTL DEF Spec

-----------------------------------------------------------------------------
(***************************************************************************)
(* A sole client is never one request over the limit.  The facts that      *)
(* carry the argument: room in a window does not go away with time; the    *)
(* date pushed on the history is that of the newest hit; and when an item  *)
(* is at its limit, its period counted from the history entry a full limit *)
(* back, plus the bucket, ends after the server has forgotten that hit.    *)
(***************************************************************************)

LEMMA LogTypes ==
    ASSUME TypeOK
    PROVE  /\ Len(log) \in Nat /\ now \in Nat
           /\ \A k \in 1..Len(log) : log[k].at \in Nat /\ log[k].rec \in Nat
           /\ \A it \in Items : it.limit \in Nat \ {0} /\ it.period \in Nat
<1>1. log \in Seq(Hit) /\ now \in Nat
  BY DEF TypeOK
<1>2. \A k \in 1..Len(log) : log[k] \in Hit
  BY <1>1
<1> QED
  BY <1>1, <1>2, PolicyAssumption DEF Hit, ItemsAssumption

LEMMA RoomLater ==
    ASSUME TypeOK, NEW it \in Items, NEW t \in Nat, NEW u \in Nat, t <= u, Room(it, t)
    PROVE  Room(it, u)
<1>1. CASE Len(log) < it.limit
  BY <1>1, LogTypes DEF Room
<1>2. CASE Len(log) >= it.limit
  <2>1. Len(log) + 1 - it.limit \in 1..Len(log)
    BY <1>2, LogTypes
  <2>2. log[Len(log) + 1 - it.limit].rec + it.period <= t
    BY <1>2 DEF Room
  <2> QED
    BY <2>1, <2>2, LogTypes, SMTT(30) DEF Room
<1> QED
  BY <1>1, <1>2, LogTypes

\* What the reply to the newest hit adds to the history.
LEMMA RecallsPushed ==
    ASSUME TypeOK, NEW date \in Nat, Len(log) > 0, date = log[Len(log)].at,
           Recalls(history, Len(log) - 1)
    PROVE  Recalls(PushFront(date, history), Len(log))
<1> DEFINE past == PushFront(date, history)
<1>1. history \in Seq(Nat) /\ Len(history) \in Nat
  BY DEF TypeOK
<1>2. /\ past \in Seq(Nat) /\ Len(past) \in Nat /\ Len(past) <= Len(history) + 1
      /\ \A k \in 1..Len(past) : past[k] = IF k = 1 THEN date ELSE history[k - 1]
  BY <1>1, PushFrontType
<1> HIDE DEF past
<1> SUFFICES ASSUME NEW k \in 1..Len(past)
             PROVE  k <= Len(log) /\ past[k] = log[Len(log) + 1 - k].at
  BY DEF Recalls, past
<1>3. CASE k = 1
  BY <1>2, <1>3, LogTypes
<1>4. CASE k # 1
  <2>1. k - 1 \in 1..Len(history)
    BY <1>1, <1>2, <1>4
  <2>2. k - 1 <= Len(log) - 1 /\ history[k - 1] = log[(Len(log) - 1) + 1 - (k - 1)].at
    BY <2>1 DEF Recalls
  <2>3. (Len(log) - 1) + 1 - (k - 1) = Len(log) + 1 - k
    BY LogTypes
  <2> QED
    BY <1>2, <1>4, <2>2, <2>3, LogTypes
<1> QED
  BY <1>3, <1>4

\* A moment within one bucket of an earlier one is forgotten one bucket later.
LEMMA SumWithinBucket ==
    ASSUME NEW oldest \in Nat, NEW recent \in Nat, NEW sentAt \in Nat, NEW period \in Nat,
           NEW slot \in Nat, NEW bucket \in Nat, NEW serverBucket \in Nat,
           serverBucket <= bucket, oldest <= recent, recent <= sentAt + serverBucket,
           sentAt + period <= slot
    PROVE  oldest + period <= slot + bucket
OBVIOUS

\* Wherever ActivateRequest sets the timer, there is room when it fires.
LEMMA ActivateRoom ==
    ASSUME TypeOK, LogOK, ServerBucket <= TimingBucket,
           NEW policy \in [Items -> Nat], NEW past \in Seq(Nat),
           Recalls(past, Len(log)),
           \A it \in Items : policy[it] < it.limit => Room(it, now),
           NEW s \in SendTimes(policy, past),
           \A t \in SendTimes(policy, past) : t <= s,
           NEW it \in Items
    PROVE  Room(it, s + IF AtLimit(policy) THEN TimingBucket ELSE NormalBuffer)
<1> DEFINE T == s + IF AtLimit(policy) THEN TimingBucket ELSE NormalBuffer
<1>1. /\ s \in Nat /\ TimingBucket \in Nat /\ NormalBuffer \in Nat /\ ServerBucket \in Nat
      /\ T \in Nat /\ s <= T /\ now \in Nat /\ policy[it] \in Nat
      /\ it.limit \in Nat \ {0} /\ it.period \in Nat
  <2>1. now \in Nat /\ it.limit \in Nat \ {0} /\ it.period \in Nat
    BY LogTypes
  <2>2. s \in Nat
    BY <2>1, SendTimesType
  <2>3. TimingBucket \in Nat /\ NormalBuffer \in Nat /\ ServerBucket \in Nat
    BY PolicyAssumption DEF TimesAssumption
  <2> QED
    BY <2>1, <2>2, <2>3
<1>2. now <= s /\ ItemNextSafeSend(it, policy, past) <= s
  BY DEF SendTimes
<1>3. CASE policy[it] < it.limit
  <2>1. Room(it, now)
    BY <1>3
  <2>2. now <= T
    BY <1>1, <1>2
  <2> HIDE DEF T
  <2> QED
    BY <1>1, <2>1, <2>2, RoomLater DEF T
<1>4. CASE policy[it] >= it.limit
  <2>1. AtLimit(policy) /\ T = s + TimingBucket
    BY <1>4 DEF AtLimit
  <2> DEFINE n        == IF it.limit > Len(past) THEN Len(past) ELSE it.limit
             earliest == IF n < 1 THEN now ELSE past[n]
             back     == Len(log) + 1 - it.limit
  <2>2. earliest + it.period <= s
    BY <1>1, <1>2, <1>4 DEF ItemNextSafeSend
  <2>3. n \in Nat /\ n <= it.limit /\ Len(past) \in Nat /\ n <= Len(past)
    BY <1>1
  <2> SUFFICES ASSUME Len(log) >= it.limit
               PROVE  log[back].rec + it.period <= T
    BY DEF Room
  <2>4. back \in 1..Len(log) /\ log[back].rec \in Nat
    BY <1>1, LogTypes
  <2>5. CASE n < 1
    <3>1. log[back].rec <= now + ServerBucket
      <4>1. log[back].at <= now /\ log[back].rec <= log[back].at + ServerBucket
        BY <2>4 DEF LogOK
      <4>2. log[back].at \in Nat
        BY <2>4, LogTypes
      <4> HIDE DEF back
      <4> QED
        BY <4>1, <4>2, <2>4, <1>1, SMTT(30)
    <3>2. now + it.period <= s
      BY <2>2, <2>5
    <3> HIDE DEF back, n, earliest, T
    <3> QED
      BY <2>1, <2>4, <3>1, <3>2, <1>1
  <2>6. CASE n >= 1
    <3>1. n \in 1..Len(past) /\ earliest = past[n]
      BY <2>3, <2>6
    <3> HIDE DEF n, earliest
    <3>2. n <= Len(log) /\ past[n] = log[Len(log) + 1 - n].at
      BY <3>1 DEF Recalls
    <3>3. Len(log) + 1 - n \in 1..Len(log) /\ back <= Len(log) + 1 - n
      BY <2>3, <2>6, <3>2, <1>1, LogTypes
    <3>4. /\ log[back].rec <= log[Len(log) + 1 - n].rec
          /\ log[Len(log) + 1 - n].rec <= log[Len(log) + 1 - n].at + ServerBucket
      BY <2>4, <3>3 DEF LogOK
    <3>5. log[Len(log) + 1 - n].rec \in Nat /\ log[Len(log) + 1 - n].at \in Nat
      BY <3>3, LogTypes
    <3>6. log[Len(log) + 1 - n].at + it.period <= s
      BY <2>2, <3>1, <3>2
    <3> DEFINE newer == log[Len(log) + 1 - n]
    <3>7. newer.rec \in Nat /\ newer.at \in Nat /\ newer.at + it.period <= s
          /\ log[back].rec <= newer.rec /\ newer.rec <= newer.at + ServerBucket
      BY <3>4, <3>5, <3>6
    <3> HIDE DEF back, newer
    <3>8. /\ log[back].rec \in Nat /\ newer.rec \in Nat /\ newer.at \in Nat
          /\ it.period \in Nat /\ s \in Nat /\ TimingBucket \in Nat /\ ServerBucket \in Nat
      BY <2>4, <3>7, <1>1
    <3>9. log[back].rec + it.period <= s + TimingBucket
      BY <3>7, <3>8, SumWithinBucket
    <3> QED
      BY <2>1, <3>9
  <2> QED
    BY <2>3, <2>5, <2>6
<1> QED
  BY <1>1, <1>3, <1>4

LEMMA ActivatedWithRoom ==
    ASSUME TypeOK, LogOK, ServerBucket <= TimingBucket,
           NEW policy \in [Items -> Nat], NEW past \in Seq(Nat),
           Recalls(past, Len(log)),
           \A it \in Items : policy[it] < it.limit => Room(it, now),
           NEW q \in Seq(Nat \ {0}), ActivateRequest(q, policy, past)
    PROVE  timer' # Off => active' # 0 /\ \A it \in Items : Room(it, timer')
<1> SUFFICES ASSUME timer' # Off
             PROVE  active' # 0 /\ \A it \in Items : Room(it, timer')
  OBVIOUS
<1>1. now \in Nat
  BY DEF TypeOK
<1>2. active' # 0 /\ \E s \in SendTimes(policy, past) :
         /\ \A t \in SendTimes(policy, past) : t <= s
         /\ timer' = s + IF AtLimit(policy) THEN TimingBucket ELSE NormalBuffer
  BY <1>1, ActivateRequestEffect
<1>3. PICK s \in SendTimes(policy, past) :
         /\ \A t \in SendTimes(policy, past) : t <= s
         /\ timer' = s + IF AtLimit(policy) THEN TimingBucket ELSE NormalBuffer
  BY <1>2
<1>4. ASSUME NEW it \in Items
      PROVE  Room(it, timer')
  <2>1. Room(it, s + IF AtLimit(policy) THEN TimingBucket ELSE NormalBuffer)
    BY <1>3, ActivateRoom
  <2> QED
    BY <1>3, <2>1
<1> QED
  BY <1>2, <1>4

\* Steps of the manager that leave the record, the clock and the wire as they are.
LEMMA QueueRequestCompliance ==
    ASSUME SoleClientInv, ServerBucket <= TimingBucket, QueueRequest
    PROVE  (LogOK /\ BeforePolicy /\ HistoryOK /\ RoomOK /\ Compliance)'
<1>1. /\ hasPolicy /\ hasPolicy' = hasPolicy /\ hits' = hits /\ history' = history
      /\ log' = log /\ sent' = sent /\ replies' = replies /\ now' = now
  BY DEF QueueRequest, networkVars
<1>2. LogOK' /\ BeforePolicy' /\ Compliance'
  BY <1>1 DEF SoleClientInv, LogOK, BeforePolicy, Compliance
<1>3. CASE active # 0
  <2>1. active' = active /\ timer' = timer
    BY <1>3 DEF QueueRequest
  <2> QED
    BY <1>1, <1>2, <1>3, <2>1 DEF SoleClientInv, HistoryOK, RoomOK, Recalls, Room
<1>4. CASE active = 0
  <2>1. sent = {} /\ replies = {} /\ now \in Nat /\ history \in Seq(Nat) /\ hits \in [Items -> Nat]
    BY <1>4 DEF SoleClientInv, OneInFlight, TypeOK, Reply
  <2>2. Recalls(history, Len(log)) /\ Recalls(history, Len(log))'
    BY <1>1, <1>4 DEF SoleClientInv, HistoryOK, Recalls
  <2>3. \A it \in Items : hits[it] < it.limit => Room(it, now)
    BY <1>1, <1>4 DEF SoleClientInv, RoomOK
  <2>4. queue \o NewRequests(1) \in Seq(Nat \ {0})
    BY LongerQueueType DEF SoleClientInv
  <2>5. ActivateRequest(queue \o NewRequests(1), hits, history)
    BY <1>4 DEF QueueRequest
  <2>6. timer' # Off => active' # 0 /\ \A it \in Items : Room(it, timer')
    BY <2>1, <2>2, <2>3, <2>4, <2>5, ActivatedWithRoom DEF SoleClientInv
  <2>7. HistoryOK'
    BY <1>1, <2>1, <2>2 DEF HistoryOK
  <2>8. RoomOK'
    BY <1>1, <2>1, <2>3, <2>6 DEF RoomOK, Room
  <2> QED
    BY <1>2, <2>7, <2>8
<1> QED
  BY <1>3, <1>4

LEMMA ReceiveReplyCompliance ==
    ASSUME SoleClientInv, ServerBucket <= TimingBucket, ReceiveReply
    PROVE  (LogOK /\ BeforePolicy /\ HistoryOK /\ RoomOK /\ Compliance)'
<1>1. PICK r \in replies :
         /\ replies' = replies \ {r} /\ hasPolicy /\ active # 0
         /\ ReceiveSuccess(r) \/ ReceiveViolation(r) \/ ReceiveError(r) \/ ReceiveNoHeader(r)
         /\ UNCHANGED <<now, hasPolicy, sent, log>>
  BY DEF ReceiveReply
<1>2. replies' = {} /\ sent' = {} /\ timer = Off
  BY <1>1 DEF SoleClientInv, OneInFlight
<1>3. LogOK' /\ BeforePolicy' /\ Compliance'
  BY <1>1 DEF SoleClientInv, LogOK, BeforePolicy, Compliance
<1>4. CASE ReceiveSuccess(r)
  <2> DEFINE past == PushFront(r.date, history)
  <2>1. /\ r.hits \in [Items -> Nat] /\ r.date \in Nat /\ now \in Nat
        /\ past \in Seq(Nat) /\ queue \in Seq(Nat \ {0})
    BY ReplyFields DEF SoleClientInv, TypeOK
  <2>2. /\ r.code = "ok" /\ hits' = r.hits /\ history' = past
    BY <1>4 DEF ReceiveSuccess
  <2>3. PICK q \in Seq(Nat \ {0}) : ActivateRequest(q, r.hits, past)
    <3>1. \A n \in 0..1 : queue \o NewRequests(n) \in Seq(Nat \ {0})
      BY LongerQueueType DEF SoleClientInv
    <3> QED
      BY <1>4, <2>1, <3>1 DEF ReceiveSuccess
  <2>4. Recalls(past, Len(log))
    BY <2>1, <2>2, RecallsPushed DEF SoleClientInv, HistoryOK
  <2>5. \A it \in Items : r.hits[it] < it.limit => Room(it, now)
    BY <2>2 DEF SoleClientInv, RoomOK
  <2> HIDE DEF past
  <2>6. timer' # Off => active' # 0 /\ \A it \in Items : Room(it, timer')
    BY <2>1, <2>3, <2>4, <2>5, ActivatedWithRoom DEF SoleClientInv
  <2>7. HistoryOK'
    BY <1>1, <1>2, <2>2, <2>4 DEF HistoryOK, Recalls
  <2>8. RoomOK'
    BY <1>1, <1>2, <2>2, <2>5, <2>6 DEF RoomOK, Room
  <2> QED
    BY <1>3, <2>7, <2>8
<1>5. CASE ReceiveViolation(r)
  BY <1>5 DEF ReceiveViolation, SoleClientInv, HistoryOK
<1>6. CASE ReceiveError(r)
  BY <1>1, <1>2, <1>3, <1>6 DEF ReceiveError, HistoryOK, RoomOK
<1>7. CASE ReceiveNoHeader(r)
  BY <1>1, <1>2, <1>3, <1>7 DEF ReceiveNoHeader, HistoryOK, RoomOK
<1> QED
  BY <1>1, <1>4, <1>5, <1>6, <1>7

\* The record keeps its order when the server appends a hit.
LEMMA RecordHitOrder ==
    ASSUME TypeOK, LogOK, NEW own \in BOOLEAN, RecordHit(own), now' = now
    PROVE  /\ LogOK' /\ log' \in Seq(Hit) /\ Len(log') = Len(log) + 1
           /\ \A k \in 1..Len(log) : log'[k] = log[k]
           /\ log'[Len(log) + 1].at = now /\ log'[Len(log) + 1].own = own
<1>1. PICK hit \in Hit :
         /\ log' = Append(log, hit) /\ log' \in Seq(Hit)
         /\ hit.at = now /\ hit.own = own
         /\ now <= hit.rec /\ hit.rec <= now + ServerBucket
         /\ log # <<>> => log[Len(log)].rec <= hit.rec
  BY RecordHitEffect
<1>2. /\ Len(log') = Len(log) + 1 /\ log'[Len(log) + 1] = hit
      /\ \A k \in 1..Len(log) : log'[k] = log[k]
  BY <1>1, AppendProperties DEF TypeOK
<1>3. ASSUME NEW k \in 1..Len(log')
      PROVE  /\ log'[k].at <= now
             /\ log'[k].at <= log'[k].rec /\ log'[k].rec <= log'[k].at + ServerBucket
  <2>1. CASE k \in 1..Len(log)
    BY <1>2, <2>1 DEF LogOK
  <2>2. CASE k = Len(log) + 1
    BY <1>1, <1>2, <2>2, LogTypes
  <2> QED
    BY <1>2, <2>1, <2>2, LogTypes
<1>4. ASSUME NEW j \in 1..Len(log'), NEW k \in 1..Len(log'), j <= k
      PROVE  log'[j].rec <= log'[k].rec
  <2>1. CASE k \in 1..Len(log)
    <3>1. j \in 1..Len(log)
      BY <1>2, <1>4, <2>1, LogTypes
    <3> QED
      BY <1>2, <1>4, <2>1, <3>1 DEF LogOK
  <2>2. CASE k = Len(log) + 1 /\ j \in 1..Len(log)
    <3>1. log # <<>> /\ Len(log) \in 1..Len(log) /\ j <= Len(log)
      BY <2>2, LogTypes DEF TypeOK
    <3>2. log[j].rec <= log[Len(log)].rec /\ log[Len(log)].rec <= hit.rec
      BY <1>1, <2>2, <3>1 DEF LogOK
    <3>3. log[j].rec \in Nat /\ log[Len(log)].rec \in Nat /\ hit.rec \in Nat
      BY <2>2, <3>1, LogTypes DEF Hit
    <3> QED
      BY <1>2, <2>2, <3>2, <3>3
  <2>3. CASE k = Len(log) + 1 /\ j = Len(log) + 1
    <3>1. hit.rec \in Nat
      BY DEF Hit
    <3> QED
      BY <1>2, <2>3, <3>1
  <2> QED
    BY <1>2, <2>1, <2>2, <2>3, LogTypes
<1>5. LogOK'
  BY <1>3, <1>4 DEF LogOK
<1> QED
  BY <1>1, <1>2, <1>5

LEMMA ServerAnswerCompliance ==
    ASSUME SoleClientInv, ServerAnswer
    PROVE  (LogOK /\ BeforePolicy /\ HistoryOK /\ RoomOK /\ Compliance)'
<1> DEFINE counts == [it \in Items |-> Count(log', it, now)]
<1>1. PICK id \in sent :
         /\ RecordHit(TRUE)
         /\ sent' = sent \ {id}
         /\ LET codes == IF \E it \in Items : counts[it] > it.limit
                         THEN {"violation"} ELSE Outcomes
            IN  \E code \in codes :
                   replies' = replies \cup
                       {[id |-> id, code |-> code, date |-> now, hits |-> counts]}
         /\ UNCHANGED <<now, managerVars, ghostVars>>
  BY DEF ServerAnswer
<1>2. sent' = {} /\ replies = {} /\ active # 0 /\ timer = Off
  BY <1>1 DEF SoleClientInv, OneInFlight, TypeOK
<1>3. /\ now' = now /\ hasPolicy' = hasPolicy /\ hits' = hits /\ history' = history
      /\ active' = active /\ queue' = queue /\ timer' = timer
  BY <1>1 DEF managerVars
<1>4. /\ LogOK' /\ log' \in Seq(Hit) /\ Len(log') = Len(log) + 1
      /\ \A k \in 1..Len(log) : log'[k] = log[k]
      /\ log'[Len(log) + 1].at = now /\ log'[Len(log) + 1].own = TRUE
  BY <1>1, RecordHitOrder DEF SoleClientInv
<1>5. ASSUME NEW it \in Items, Len(log) >= it.limit
      PROVE  /\ Len(log) + 1 - it.limit \in 1..Len(log)
             /\ log'[Len(log) + 1 - it.limit].rec + it.period <= now
  <2>1. Len(log) + 1 - it.limit \in 1..Len(log)
    BY <1>5, LogTypes DEF SoleClientInv
  <2>2. log[Len(log) + 1 - it.limit].rec + it.period <= now
    BY <1>1, <1>5 DEF SoleClientInv, RoomOK, Room
  <2> QED
    BY <1>4, <2>1, <2>2
<1>6. \A j, k \in 1..Len(log') : j <= k => log'[j].rec <= log'[k].rec
  BY <1>4 DEF LogOK
<1>7. ASSUME NEW it \in Items
      PROVE  Count(log', it, now) <= it.limit
  <2>1. now \in Nat /\ Len(log) \in Nat /\ it.limit \in Nat
    BY LogTypes DEF SoleClientInv
  <2>2. Len(log') > it.limit => log'[Len(log') - it.limit].rec + it.period <= now
    BY <1>4, <1>5, <2>1
  <2> QED
    BY <1>4, <1>6, <2>1, <2>2, CountWithinLimit
<1>8. \A it \in Items : ~(counts[it] > it.limit)
  <2>1. \A it \in Items : Count(log', it, now) \in Nat /\ it.limit \in Nat
    BY <1>4, CountType, LogTypes DEF SoleClientInv
  <2> QED
    BY <1>7, <2>1
<1>9. PICK code \in Outcomes :
         replies' = {[id |-> id, code |-> code, date |-> now, hits |-> counts]}
  BY <1>1, <1>2, <1>8
<1>10. code # "violation"
  BY PolicyAssumption DEF TimesAssumption
<1>11. BeforePolicy'
  BY <1>1, <1>3 DEF SoleClientInv, BeforePolicy
<1>12. HistoryOK'
  <2>1. Recalls(history, Len(log))
    BY <1>1 DEF SoleClientInv, HistoryOK
  <2>2. Len(log) \in Nat /\ Len(history) \in Nat
    BY DEF SoleClientInv, TypeOK
  <2>3. \A k \in 1..Len(history) : k <= Len(log) /\ history[k] = log'[Len(log) + 1 - k].at
    <3> SUFFICES ASSUME NEW k \in 1..Len(history)
                 PROVE  k <= Len(log) /\ history[k] = log'[Len(log) + 1 - k].at
      OBVIOUS
    <3>1. k <= Len(log) /\ history[k] = log[Len(log) + 1 - k].at
      BY <2>1 DEF Recalls
    <3>2. Len(log) + 1 - k \in 1..Len(log)
      BY <2>2, <3>1
    <3> QED
      BY <1>4, <3>1, <3>2
  <2>4. Recalls(history, Len(log) - 1)'
    <3>1. Len(log') - 1 = Len(log) /\ (Len(log') - 1) + 1 = Len(log) + 1
      BY <1>4, <2>2
    <3>2. \A k \in 1..Len(history') :
             k <= Len(log') - 1 /\ history'[k] = log'[(Len(log') - 1) + 1 - k].at
      BY <1>3, <2>3, <3>1
    <3> QED
      BY <3>2 DEF Recalls
  <2>5. Len(log') > 0 /\ log'[Len(log')].at = now
    BY <1>4, <2>2
  <2>6. /\ active' # 0 /\ timer' = Off /\ sent' = {}
        /\ \A r \in replies' : r.code = code /\ r.date = now
    BY <1>2, <1>3, <1>9
  <2> QED
    BY <1>10, <2>4, <2>5, <2>6 DEF HistoryOK
<1>13. RoomOK'
  <2>1. ASSUME NEW it \in Items, Count(log', it, now) < it.limit
        PROVE  Len(log') >= it.limit =>
                  log'[Len(log') + 1 - it.limit].rec + it.period <= now
    <3>1. now \in Nat
      BY LogTypes DEF SoleClientInv
    <3> QED
      BY <1>4, <1>6, <2>1, <3>1, CountBelowLimit
  <2>2. \A it \in Items : \A r \in replies' : r.hits[it] = Count(log', it, now)
    BY <1>9
  <2> QED
    BY <1>2, <1>3, <2>1, <2>2 DEF RoomOK, Room
<1>14. Compliance'
  <2> SUFFICES ASSUME NEW k \in 1..Len(log'), log'[k].own,
                      NEW it \in Items, k > it.limit
               PROVE  log'[k - it.limit].rec + it.period <= log'[k].at
    BY <1>4 DEF Compliance
  <2>1. it.limit \in Nat \ {0} /\ Len(log) \in Nat
    BY LogTypes DEF SoleClientInv
  <2>2. CASE k = Len(log) + 1
    <3>1. Len(log) >= it.limit /\ k - it.limit = Len(log) + 1 - it.limit
      BY <2>1, <2>2
    <3> QED
      BY <1>4, <1>5, <2>2, <3>1
  <2>3. CASE k \in 1..Len(log)
    <3>1. k - it.limit \in 1..Len(log) /\ k \in DOMAIN log
      BY <2>1, <2>3 DEF SoleClientInv, TypeOK
    <3>2. log[k].own /\ log'[k] = log[k] /\ log'[k - it.limit] = log[k - it.limit]
      BY <1>4, <2>3, <3>1
    <3> QED
      BY <3>1, <3>2 DEF SoleClientInv, Compliance
  <2> QED
    BY <1>4, <2>1, <2>2, <2>3
<1> QED
  BY <1>4, <1>11, <1>12, <1>13, <1>14

LEMMA NextSoleClientInv ==
    ASSUME SoleClient, ServerBucket <= TimingBucket,
           SoleClientInv, [Next]_vars
    PROVE  SoleClientInv'
<1>1. TypeOK' /\ OneInFlight'
  BY NextTypeOK, NextOneInFlight DEF SoleClientInv
<1> SUFFICES (LogOK /\ BeforePolicy /\ HistoryOK /\ RoomOK /\ Compliance)'
  BY <1>1 DEF SoleClientInv
<1>2. CASE Tick
  <2>1. now' = now + 1 /\ now \in Nat /\ UNCHANGED <<managerVars, networkVars>>
    BY <1>2 DEF Tick, SoleClientInv, TypeOK
  <2>2. LogOK'
    BY <2>1, LogTypes DEF SoleClientInv, LogOK, networkVars
  <2>3. BeforePolicy' /\ HistoryOK' /\ Compliance'
    BY <2>1 DEF SoleClientInv, BeforePolicy, HistoryOK, Recalls, Compliance, managerVars, networkVars
  <2>4. \A it \in Items : Room(it, now) => Room(it, now)'
    <3>1. \A it \in Items : Room(it, now) => Room(it, now + 1)
      BY <2>1, RoomLater DEF SoleClientInv
    <3> QED
      BY <2>1, <3>1 DEF Room, networkVars
  <2>5. RoomOK'
    BY <2>1, <2>4 DEF SoleClientInv, RoomOK, Room, managerVars, networkVars
  <2> QED
    BY <2>2, <2>3, <2>5
<1>3. CASE FirstUpdate
  <2>1. /\ history = <<>> /\ active = 0 /\ timer = Off /\ sent = {} /\ replies = {}
        /\ hasPolicy' = TRUE /\ hits' = [it \in Items |-> Count(log, it, now)]
        /\ UNCHANGED <<now, history, active, timer, networkVars>>
    BY <1>3 DEF FirstUpdate, SoleClientInv, BeforePolicy
  <2>2. LogOK' /\ BeforePolicy' /\ Compliance'
    BY <2>1 DEF SoleClientInv, LogOK, BeforePolicy, Compliance, networkVars
  <2>3. HistoryOK'
    BY <2>1 DEF HistoryOK, Recalls, networkVars
  <2>4. \A it \in Items : Count(log, it, now) < it.limit => Room(it, now)
    BY CountBelowLimit DEF Room, SoleClientInv, TypeOK, LogOK
  <2>5. RoomOK'
    BY <2>1, <2>4 DEF RoomOK, Room, networkVars
  <2> QED
    BY <2>2, <2>3, <2>5
<1>4. CASE QueueRequest
  BY <1>4, QueueRequestCompliance
<1>5. CASE SendRequest
  <2>1. /\ timer \in Nat /\ timer <= now /\ now \in Nat /\ active # 0
        /\ timer' = Off /\ sent' = sent \cup {active} /\ hasPolicy
        /\ UNCHANGED <<now, hasPolicy, hits, history, active, queue, replies, log>>
    BY <1>5 DEF SendRequest, SoleClientInv, TypeOK, OneInFlight, BeforePolicy
  <2>2. LogOK' /\ BeforePolicy' /\ Compliance'
    BY <2>1 DEF SoleClientInv, LogOK, BeforePolicy, Compliance
  <2>3. HistoryOK' /\ replies = {}
    BY <1>5, <2>1 DEF SendRequest, SoleClientInv, OneInFlight, HistoryOK, Recalls
  <2>4. \A it \in Items : Room(it, now)
    BY <1>5, <2>1, RoomLater DEF SendRequest, SoleClientInv, RoomOK
  <2>5. RoomOK'
    BY <2>1, <2>3, <2>4 DEF RoomOK, Room
  <2> QED
    BY <2>2, <2>3, <2>5
<1>6. CASE ReceiveReply
  BY <1>6, ReceiveReplyCompliance
<1>7. CASE OtherHit
  <2>1. /\ ~hasPolicy /\ RecordHit(FALSE)
        /\ UNCHANGED <<now, managerVars, sent, replies>>
    BY <1>7 DEF OtherHit
  <2>2. /\ LogOK' /\ Len(log') = Len(log) + 1 /\ log' \in Seq(Hit)
        /\ \A k \in 1..Len(log) : log'[k] = log[k]
        /\ log'[Len(log) + 1].own = FALSE
    BY <2>1, RecordHitOrder DEF SoleClientInv
  <2>3. /\ history = <<>> /\ active = 0 /\ queue = <<>>
        /\ timer = Off /\ sent = {} /\ replies = {}
    BY <2>1 DEF SoleClientInv, BeforePolicy
  <2>4. BeforePolicy' /\ HistoryOK' /\ RoomOK'
    BY <2>1, <2>3 DEF BeforePolicy, HistoryOK, Recalls, RoomOK, managerVars
  <2>5. Compliance'
    <3> SUFFICES ASSUME NEW k \in 1..Len(log'), log'[k].own,
                        NEW it \in Items, k > it.limit
                 PROVE  log'[k - it.limit].rec + it.period <= log'[k].at
      BY <2>2 DEF Compliance
    <3>1. it.limit \in Nat \ {0} /\ Len(log) \in Nat
      BY LogTypes DEF SoleClientInv
    <3>2. k \in 1..Len(log)
      BY <2>2, <3>1
    <3>3. k - it.limit \in 1..Len(log) /\ k \in DOMAIN log
      BY <3>1, <3>2 DEF SoleClientInv, TypeOK
    <3>4. log[k].own /\ log'[k] = log[k] /\ log'[k - it.limit] = log[k - it.limit]
      BY <2>2, <3>2, <3>3
    <3> QED
      BY <3>3, <3>4 DEF SoleClientInv, Compliance
  <2> QED
    BY <2>2, <2>4, <2>5
<1>8. CASE ServerAnswer
  BY <1>8, ServerAnswerCompliance
<1>9. CASE NetworkFailure
  <2>1. PICK id \in sent :
           /\ sent' = sent \ {id}
           /\ replies' = replies \cup
                  {[id |-> id, code |-> "noheader", date |-> now, hits |-> hits]}
           /\ UNCHANGED <<now, managerVars, log, ghostVars>>
    BY <1>9 DEF NetworkFailure
  <2>2. replies = {} /\ sent' = {} /\ active # 0 /\ timer = Off
    BY <2>1 DEF SoleClientInv, OneInFlight, TypeOK
  <2>3. LogOK' /\ BeforePolicy' /\ Compliance'
    BY <2>1, <2>2 DEF SoleClientInv, LogOK, BeforePolicy, Compliance, managerVars
  <2>4. \A r \in replies' : r.code = "noheader"
    BY <2>1, <2>2
  <2>5. HistoryOK' /\ RoomOK'
    BY <2>1, <2>2, <2>4 DEF HistoryOK, RoomOK, managerVars
  <2> QED
    BY <2>3, <2>5
<1>10. CASE UNCHANGED vars
  BY <1>10 DEF SoleClientInv, LogOK, BeforePolicy, HistoryOK, RoomOK, Compliance,
               Recalls, Room, vars, managerVars, networkVars
<1> QED
  BY <1>2, <1>3, <1>4, <1>5, <1>6, <1>7, <1>8, <1>9, <1>10 DEF Next

LEMMA InitSoleClientInv == Init => SoleClientInv
<1> SUFFICES ASSUME Init
             PROVE  SoleClientInv
  OBVIOUS
<1>1. TypeOK
  BY InitTypeOK
<1>2. OneInFlight /\ LogOK /\ BeforePolicy
  BY DEF Init, OneInFlight, LogOK, BeforePolicy
<1>3. HistoryOK /\ RoomOK /\ Compliance
  BY DEF Init, HistoryOK, Recalls, RoomOK, Compliance
<1> QED
  BY <1>1, <1>2, <1>3 DEF SoleClientInv

(***************************************************************************)
(* The inductive invariant behind Compliance.                              *)
(***************************************************************************)
THEOREM SoleClientInvHolds ==
    ASSUME SoleClient, ServerBucket <= TimingBucket
    PROVE  Spec => []SoleClientInv
<1>1. SoleClientInv /\ [Next]_vars => SoleClientInv'
  BY NextSoleClientInv
<1> QED
  BY <1>1, InitSoleClientInv, PTL DEF Spec

(***************************************************************************)
(* For every policy and every timing bucket no smaller than the server's,  *)
(* a sole client never has a request counted over a limit.                 *)
(***************************************************************************)
THEOREM ComplianceHolds ==
    ASSUME SoleClient, ServerBucket <= TimingBucket
    PROVE  Spec => []Compliance
<1>1. SoleClientInv => Compliance
  BY DEF SoleClientInv
<1> QED
  BY <1>1, SoleClientInvHolds, PTL

-----------------------------------------------------------------------------
(***************************************************************************)
(* RequestQueue serves its line first come, first served.  Nothing is used *)
(* here of what Line is made of.                                           *)
(***************************************************************************)

QueueTypeOK == Line \in Seq(Nat) /\ submitted \in Nat /\ delivered \in Seq(Nat)

\* What stands in line, and what was delivered before it.
Everyone == delivered \o Line

QueueInv == QueueTypeOK /\ Queue!ServedInTurn

\* A concatenation, element by element.
LEMMA Joined ==
    ASSUME NEW s \in Seq(Nat), NEW t \in Seq(Nat)
    PROVE  /\ s \o t \in Seq(Nat)
           /\ Len(s \o t) = Len(s) + Len(t)
           /\ \A i \in 1..Len(s) : (s \o t)[i] = s[i]
           /\ \A i \in 1..Len(t) : (s \o t)[Len(s) + i] = t[i]
           /\ \A i \in 1..Len(s \o t) :
                 (s \o t)[i] = IF i <= Len(s) THEN s[i] ELSE t[i - Len(s)]
BY ConcatProperties

LEMMA OneMore ==
    ASSUME NEW s \in Seq(Nat), NEW t \in Seq(Nat), Len(t) = 1
    PROVE  /\ Len(s \o t) = Len(s) + 1 /\ Len(s) \in Nat
           /\ \A i \in 1..Len(s) : (s \o t)[i] = s[i]
           /\ (s \o t)[Len(s) + 1] = t[1]
<1>1. Len(s \o t) = Len(s) + Len(t)
  BY Joined, Zenon
<1>2. /\ \A i \in 1..Len(s) : (s \o t)[i] = s[i]
      /\ \A i \in 1..Len(t) : (s \o t)[Len(s) + i] = t[i]
  BY Joined, Zenon
<1>3. Len(s) \in Nat /\ 1 \in 1..Len(t)
  BY LenProperties
<1> QED
  BY <1>1, <1>2, <1>3

LEMMA Associative ==
    ASSUME NEW s \in Seq(Nat), NEW t \in Seq(Nat), NEW u \in Seq(Nat)
    PROVE  (s \o t) \o u = s \o (t \o u)
BY ConcatAssociative, SMTT(30)

\* The requests a caller makes at once, none or one.
LEMMA NewcomersProperties ==
    ASSUME submitted \in Nat, NEW n \in 0..1
    PROVE  /\ Queue!Newcomers(n) \in Seq(Nat) /\ Len(Queue!Newcomers(n)) = n
           /\ \A i \in 1..n : Queue!Newcomers(n)[i] = submitted + 1
<1>1. Queue!Newcomers(n) \in [1..n -> Nat]
  BY DEF Queue!Newcomers
<1>2. Queue!Newcomers(n) \in Seq(Nat)
  BY <1>1, SeqDef
<1>3. Len(Queue!Newcomers(n)) = n
  BY <1>1, <1>2
<1> QED
  BY <1>2, <1>3 DEF Queue!Newcomers

\* Requests numbered beyond all others may be put at the end.
LEMMA LongerInOrder ==
    ASSUME submitted \in Nat, NEW n \in 0..1, NEW s \in Seq(Nat), Queue!InOrder(s),
           \A i \in DOMAIN s : s[i] <= submitted
    PROVE  /\ Queue!InOrder(s \o Queue!Newcomers(n))
           /\ \A i \in DOMAIN (s \o Queue!Newcomers(n)) :
                 (s \o Queue!Newcomers(n))[i] <= submitted + n
<1> DEFINE t == s \o Queue!Newcomers(n)
<1>1. /\ t \in Seq(Nat) /\ Len(t) = Len(s) + n /\ Len(s) \in Nat
      /\ \A i \in 1..Len(t) : t[i] = IF i <= Len(s) THEN s[i] ELSE submitted + 1
  <2>1. /\ Queue!Newcomers(n) \in Seq(Nat) /\ Len(Queue!Newcomers(n)) = n
        /\ \A i \in 1..n : Queue!Newcomers(n)[i] = submitted + 1
    BY NewcomersProperties
  <2>2. /\ t \in Seq(Nat) /\ Len(t) = Len(s) + n /\ Len(s) \in Nat /\ n \in Nat
        /\ \A i \in 1..Len(t) : t[i] = IF i <= Len(s) THEN s[i] ELSE Queue!Newcomers(n)[i - Len(s)]
    BY <2>1, Joined
  <2> HIDE DEF t
  <2>3. ASSUME NEW i \in 1..Len(t), ~(i <= Len(s))
        PROVE  t[i] = submitted + 1
    <3>1. i - Len(s) \in 1..n
      BY <2>2, <2>3
    <3> QED
      BY <2>1, <2>2, <2>3, <3>1
  <2> QED
    BY <2>2, <2>3
<1>2. DOMAIN t = 1..Len(t) /\ DOMAIN s = 1..Len(s)
  BY <1>1
<1>3. \A i \in 1..Len(s) : s[i] \in Nat
  OBVIOUS
<1> HIDE DEF t
<1>4. \A i \in 1..Len(t) : t[i] <= submitted + n
  BY <1>1, <1>2, <1>3, SMTT(30)
<1>5. Queue!InOrder(t)
  <2> SUFFICES ASSUME NEW i \in 1..Len(t), NEW j \in 1..Len(t), i < j
               PROVE  t[i] < t[j]
    BY <1>2 DEF Queue!InOrder
  <2>1. i <= Len(s)
    BY <1>1
  <2>2. CASE j <= Len(s)
    <3>1. i \in DOMAIN s /\ j \in DOMAIN s
      BY <1>1, <1>2, <2>1, <2>2
    <3>2. s[i] < s[j]
      BY <3>1 DEF Queue!InOrder
    <3> QED
      BY <1>1, <2>1, <2>2, <3>2
  <2>3. CASE j > Len(s)
    <3>1. i \in DOMAIN s /\ t[i] = s[i] /\ t[j] = submitted + 1
      BY <1>1, <1>2, <2>1, <2>3
    <3>2. s[i] <= submitted /\ s[i] \in Nat
      BY <1>2, <1>3, <3>1
    <3> QED
      BY <3>1, <3>2
  <2> QED
    BY <1>1, <2>2, <2>3
<1> QED
  BY <1>2, <1>4, <1>5 DEF t

\* What is in order stays so when the head of the line, at place k, leaves.
LEMMA ShorterInOrder ==
    ASSUME NEW s \in Seq(Nat), NEW t \in Seq(Nat), t # <<>>, Queue!InOrder(s \o t), NEW m \in Nat,
           \A i \in DOMAIN (s \o t) : (s \o t)[i] <= m
    PROVE  /\ Queue!InOrder(s \o Tail(t))
           /\ \A i \in DOMAIN (s \o Tail(t)) : (s \o Tail(t))[i] <= m
<1> DEFINE full == s \o t
           rest == s \o Tail(t)
<1>1. /\ Tail(t) \in Seq(Nat) /\ Len(Tail(t)) = Len(t) - 1 /\ Len(s) \in Nat /\ Len(t) \in Nat
      /\ \A i \in 1..Len(Tail(t)) : Tail(t)[i] = t[i + 1]
      /\ Len(t) > 0
  BY HeadTailProperties, EmptySeq
<1>2. /\ Len(full) = Len(s) + Len(t) /\ full \in Seq(Nat)
      /\ \A i \in 1..Len(full) : full[i] = IF i <= Len(s) THEN s[i] ELSE t[i - Len(s)]
  BY Joined
<1>3. /\ Len(rest) = Len(s) + Len(t) - 1 /\ rest \in Seq(Nat)
      /\ \A i \in 1..Len(rest) : rest[i] = IF i <= Len(s) THEN s[i] ELSE Tail(t)[i - Len(s)]
  BY <1>1, Joined
<1>4. DOMAIN full = 1..Len(full) /\ DOMAIN rest = 1..Len(rest)
  BY <1>2, <1>3
<1> DEFINE from(i) == IF i <= Len(s) THEN i ELSE i + 1
<1>5. \A i \in 1..Len(rest) : from(i) \in 1..Len(full)
  BY <1>1, <1>2, <1>3
<1> HIDE DEF full, rest
<1>6. ASSUME NEW i \in 1..Len(rest)
      PROVE  rest[i] = full[from(i)]
  <2>1. CASE i <= Len(s)
    BY <1>2, <1>3, <1>5, <2>1
  <2>2. CASE ~(i <= Len(s))
    <3>1. i - Len(s) \in 1..Len(Tail(t)) /\ (i + 1) - Len(s) = (i - Len(s)) + 1 /\ ~(i + 1 <= Len(s))
      BY <1>1, <1>3, <2>2
    <3>2. rest[i] = Tail(t)[i - Len(s)] /\ full[i + 1] = t[(i + 1) - Len(s)]
      BY <1>2, <1>3, <1>5, <2>2, <3>1
    <3>3. Tail(t)[i - Len(s)] = t[(i - Len(s)) + 1]
      BY <1>1, <3>1
    <3> QED
      BY <2>2, <3>1, <3>2, <3>3
  <2> QED
    BY <2>1, <2>2
<1> HIDE DEF from
<1>7. Queue!InOrder(full) /\ \A i \in 1..Len(full) : full[i] <= m
  BY <1>4 DEF full
<1>8. Queue!InOrder(rest)
  <2> SUFFICES ASSUME NEW i \in 1..Len(rest), NEW j \in 1..Len(rest), i < j
               PROVE  rest[i] < rest[j]
    BY <1>4 DEF Queue!InOrder
  <2>1. from(i) \in 1..Len(full) /\ from(j) \in 1..Len(full)
    BY <1>5
  <2>2. from(i) < from(j)
    <3>1. i \in Int /\ j \in Int
      OBVIOUS
    <3> QED
      BY <1>1, <3>1 DEF from
  <2>3. full[from(i)] < full[from(j)]
    BY <1>4, <1>7, <2>1, <2>2 DEF Queue!InOrder
  <2> QED
    BY <1>6, <2>3
<1>9. \A i \in 1..Len(rest) : rest[i] <= m
  BY <1>6, <1>7, <1>5
<1> QED
  BY <1>4, <1>8, <1>9 DEF rest

LEMMA InitQueueInv == Queue!QueueInit => QueueInv
<1> SUFFICES ASSUME Queue!QueueInit
             PROVE  QueueInv
  OBVIOUS
<1>1. <<>> \in Seq(Nat) /\ <<>> \o <<>> = <<>> /\ DOMAIN <<>> = {}
  BY EmptySeq, ConcatEmptySeq
<1>2. 1..submitted = {}
  BY DEF Queue!QueueInit
<1> QED
  BY <1>1, <1>2 DEF Queue!QueueInit, QueueInv, QueueTypeOK, Queue!ServedInTurn, Queue!InOrder

LEMMA JoinQueueInv ==
    ASSUME QueueInv, Queue!Join
    PROVE  QueueInv'
<1>1. Line \in Seq(Nat) /\ submitted \in Nat /\ delivered \in Seq(Nat)
  BY DEF QueueInv, QueueTypeOK
<1>2. /\ Queue!Newcomers(1) \in Seq(Nat) /\ Len(Queue!Newcomers(1)) = 1
      /\ Queue!Newcomers(1)[1] = submitted + 1
  BY <1>1, NewcomersProperties
<1>3. delivered \o (Line \o Queue!Newcomers(1)) = (delivered \o Line) \o Queue!Newcomers(1)
  BY <1>1, <1>2, Associative
<1>4. delivered \o Line \in Seq(Nat) /\ Line \o Queue!Newcomers(1) \in Seq(Nat)
  BY <1>1, <1>2, Joined
<1>5. /\ Queue!InOrder((delivered \o Line)')
      /\ \A i \in DOMAIN (delivered \o Line)' : (delivered \o Line)'[i] <= submitted'
  <2>1. /\ Queue!InOrder(delivered \o Line)
        /\ \A i \in DOMAIN (delivered \o Line) : (delivered \o Line)[i] <= submitted
    BY DEF QueueInv, Queue!ServedInTurn
  <2>2. /\ (delivered \o Line)' = (delivered \o Line) \o Queue!Newcomers(1)
        /\ submitted' = submitted + 1
    BY <1>3 DEF Queue!Join
  <2>3. 1 \in 0..1
    OBVIOUS
  <2>4. /\ Queue!InOrder((delivered \o Line) \o Queue!Newcomers(1))
        /\ \A i \in DOMAIN ((delivered \o Line) \o Queue!Newcomers(1)) :
              ((delivered \o Line) \o Queue!Newcomers(1))[i] <= submitted + 1
    BY <1>1, <1>4, <2>1, <2>3, LongerInOrder
  <2> QED
    BY <2>2, <2>4
<1>6. \A id \in 1..submitted' : id \in finished' \/ \E i \in DOMAIN Line' : Line'[i] = id
  <2> SUFFICES ASSUME NEW id \in 1..(submitted + 1)
               PROVE  id \in finished \/ \E i \in DOMAIN (Line \o Queue!Newcomers(1)) :
                                              (Line \o Queue!Newcomers(1))[i] = id
    BY DEF Queue!Join
  <2>1. /\ DOMAIN (Line \o Queue!Newcomers(1)) = 1..(Len(Line) + 1) /\ Len(Line) \in Nat
        /\ \A i \in 1..Len(Line) : (Line \o Queue!Newcomers(1))[i] = Line[i]
        /\ (Line \o Queue!Newcomers(1))[Len(Line) + 1] = submitted + 1
        /\ DOMAIN Line = 1..Len(Line)
    <3>1. /\ Len(Line \o Queue!Newcomers(1)) = Len(Line) + 1 /\ Len(Line) \in Nat
          /\ \A i \in 1..Len(Line) : (Line \o Queue!Newcomers(1))[i] = Line[i]
          /\ (Line \o Queue!Newcomers(1))[Len(Line) + 1] = Queue!Newcomers(1)[1]
      BY <1>1, <1>2, OneMore
    <3> QED
      BY <1>1, <1>2, <1>4, <3>1
  <2>2. CASE id = submitted + 1
    BY <2>1, <2>2
  <2>3. CASE id \in 1..submitted
    BY <2>1, <2>3 DEF QueueInv, Queue!ServedInTurn
  <2> QED
    BY <1>1, <2>2, <2>3
<1>7. QueueTypeOK'
  BY <1>1, <1>4 DEF QueueTypeOK, Queue!Join
<1> QED
  BY <1>5, <1>6, <1>7 DEF QueueInv, Queue!ServedInTurn

\* Every request made so far is answered or in line, once the head is answered.
LEMMA ServedOrWaiting ==
    ASSUME QueueInv, NEW n \in 0..1, Line # <<>>
    PROVE  \A id \in 1..(submitted + n) :
              \/ id \in finished \cup {Head(Line)}
              \/ \E i \in DOMAIN (Tail(Line) \o Queue!Newcomers(n)) :
                    (Tail(Line) \o Queue!Newcomers(n))[i] = id
<1>1. Line \in Seq(Nat) /\ submitted \in Nat /\ n \in Nat
  BY DEF QueueInv, QueueTypeOK
<1>2. /\ Queue!Newcomers(n) \in Seq(Nat) /\ Len(Queue!Newcomers(n)) = n
      /\ \A i \in 1..n : Queue!Newcomers(n)[i] = submitted + 1
  BY <1>1, NewcomersProperties
<1>3. /\ Tail(Line) \in Seq(Nat) /\ Len(Tail(Line)) = Len(Line) - 1 /\ Len(Line) \in Nat
      /\ \A i \in 1..Len(Tail(Line)) : Tail(Line)[i] = Line[i + 1]
      /\ Head(Line) = Line[1] /\ DOMAIN Line = 1..Len(Line) /\ Len(Line) > 0
  BY <1>1, HeadTailProperties, EmptySeq
<1> DEFINE rest == Tail(Line) \o Queue!Newcomers(n)
<1>4. /\ DOMAIN rest = 1..(Len(Line) - 1 + n)
      /\ \A i \in 1..(Len(Line) - 1) : rest[i] = Line[i + 1]
      /\ \A i \in 1..n : rest[Len(Line) - 1 + i] = submitted + 1
  BY <1>2, <1>3, Joined
<1> HIDE DEF rest
<1> SUFFICES ASSUME NEW id \in 1..(submitted + n)
             PROVE  id \in finished \cup {Head(Line)} \/ \E i \in DOMAIN rest : rest[i] = id
  BY DEF rest
<1>5. CASE id \in 1..submitted
  <2>1. CASE id \in finished
    BY <2>1
  <2>2. ASSUME NEW i \in 1..Len(Line), Line[i] = id
        PROVE  id = Head(Line) \/ \E k \in DOMAIN rest : rest[k] = id
    <3>1. CASE i = 1
      BY <1>3, <2>2, <3>1
    <3>2. CASE i > 1
      <4>1. i - 1 \in 1..(Len(Line) - 1) /\ (i - 1) + 1 = i
        BY <1>3, <3>2
      <4>2. rest[i - 1] = id
        BY <1>4, <2>2, <4>1
      <4>3. i - 1 \in DOMAIN rest
        BY <1>1, <1>3, <1>4, <4>1
      <4> QED
        BY <4>2, <4>3
    <3> QED
      BY <3>1, <3>2
  <2> QED
    BY <1>3, <1>5, <2>1, <2>2 DEF QueueInv, Queue!ServedInTurn
<1>6. CASE id = submitted + 1 /\ n = 1
  BY <1>1, <1>3, <1>4, <1>6
<1> QED
  BY <1>1, <1>5, <1>6

LEMMA ServeQueueInv ==
    ASSUME QueueInv, Queue!Serve
    PROVE  QueueInv'
<1>1. Line \in Seq(Nat) /\ submitted \in Nat /\ delivered \in Seq(Nat) /\ Line # <<>>
  BY DEF QueueInv, QueueTypeOK, Queue!Serve
<1>2. Head(Line) \in Nat /\ Tail(Line) \in Seq(Nat) /\ Line = <<Head(Line)>> \o Tail(Line)
  BY <1>1, HeadTailProperties
<1>3. CASE Line' = Tail(Line) /\ UNCHANGED <<delivered, submitted>>
  <2>1. /\ Queue!InOrder(delivered \o Tail(Line))
        /\ \A i \in DOMAIN (delivered \o Tail(Line)) : (delivered \o Tail(Line))[i] <= submitted
    BY <1>1, ShorterInOrder DEF QueueInv, Queue!ServedInTurn
  <2>2. /\ Queue!Newcomers(0) = <<>> /\ Tail(Line) \o Queue!Newcomers(0) = Tail(Line)
        /\ submitted + 0 = submitted
    <3>1. Queue!Newcomers(0) = <<>>
      BY <1>1, NewcomersProperties, EmptySeq
    <3>2. Tail(Line) \o <<>> = Tail(Line)
      BY <1>2, ConcatEmptySeq
    <3> QED
      BY <1>1, <3>1, <3>2
  <2>3. \A id \in 1..submitted : \/ id \in finished \cup {Head(Line)}
                                 \/ \E i \in DOMAIN Tail(Line) : Tail(Line)[i] = id
    BY <1>1, <2>2, ServedOrWaiting
  <2> QED
    BY <1>1, <1>2, <1>3, <2>1, <2>3 DEF QueueInv, QueueTypeOK, Queue!ServedInTurn, Queue!Serve
<1>4. ASSUME NEW n \in 0..1, delivered' = Append(delivered, Head(Line)),
             Line' = Tail(Line) \o Queue!Newcomers(n), submitted' = submitted + n
      PROVE  QueueInv'
  <2>1. Queue!Newcomers(n) \in Seq(Nat)
    BY <1>1, NewcomersProperties
  <2>2. /\ delivered' \in Seq(Nat) /\ delivered' = delivered \o <<Head(Line)>>
        /\ <<Head(Line)>> \in Seq(Nat)
    BY <1>1, <1>2, <1>4, AppendProperties, AppendIsConcat
  <2>3. (delivered \o Line)' = (delivered \o Line) \o Queue!Newcomers(n)
    <3>1. (delivered \o Line)' = (delivered \o <<Head(Line)>>) \o (Tail(Line) \o Queue!Newcomers(n))
      BY <1>4, <2>2
    <3>2. @ = ((delivered \o <<Head(Line)>>) \o Tail(Line)) \o Queue!Newcomers(n)
      <4>1. delivered \o <<Head(Line)>> \in Seq(Nat)
        BY <2>2
      <4> QED
        BY <1>2, <2>1, <4>1, Associative
    <3>3. (delivered \o <<Head(Line)>>) \o Tail(Line) = delivered \o Line
      BY <1>1, <1>2, <2>2, Associative, SMTT(30)
    <3> QED
      BY <3>1, <3>2, <3>3
  <2>4. delivered \o Line \in Seq(Nat)
    BY <1>1, Joined
  <2>5. /\ Queue!InOrder((delivered \o Line)')
        /\ \A i \in DOMAIN (delivered \o Line)' : (delivered \o Line)'[i] <= submitted'
    BY <1>1, <1>4, <2>3, <2>4, LongerInOrder DEF QueueInv, Queue!ServedInTurn
  <2>6. Line' \in Seq(Nat) /\ submitted' \in Nat
    BY <1>1, <1>2, <1>4, <2>1, Joined
  <2>7. \A id \in 1..submitted' : id \in finished' \/ \E i \in DOMAIN Line' : Line'[i] = id
    BY <1>1, <1>4, ServedOrWaiting DEF Queue!Serve
  <2> QED
    BY <2>2, <2>5, <2>6, <2>7 DEF QueueInv, QueueTypeOK, Queue!ServedInTurn
<1> QED
  BY <1>3, <1>4 DEF Queue!Serve

LEMMA NextQueueInv == QueueInv /\ [Queue!QueueNext]_(Queue!queueVars) => QueueInv'
<1> SUFFICES ASSUME QueueInv, [Queue!QueueNext]_(Queue!queueVars)
             PROVE  QueueInv'
  OBVIOUS
<1>1. CASE UNCHANGED Queue!queueVars
  BY <1>1 DEF QueueInv, QueueTypeOK, Queue!ServedInTurn, Queue!InOrder, Queue!queueVars
<1> QED
  BY <1>1, JoinQueueInv, ServeQueueInv DEF Queue!QueueNext

(***************************************************************************)
(* Whatever is made of it, a line that is served in this way is served     *)
(* first come, first served.                                               *)
(***************************************************************************)
THEOREM ServedInTurnHolds == Queue!QueueSpec => []Queue!ServedInTurn
<1>1. QueueInv => Queue!ServedInTurn
  BY DEF QueueInv
<1> QED
  BY InitQueueInv, NextQueueInv, <1>1, PTL DEF Queue!QueueSpec

-----------------------------------------------------------------------------
(***************************************************************************)
(* The manager implements RequestQueue, and so it serves its callers first *)
(* come, first served.  OneInFlight is needed: it says that the reply that *)
(* comes in answers the request at the head of the line.                   *)
(***************************************************************************)

LineInv == TypeOK /\ OneInFlight /\ NobodyWaitsInVain

\* ActivateRequest leaves all of its queue in line, and nobody behind a free manager.
LEMMA ActivateLine ==
    ASSUME NEW q \in Seq(Nat \ {0}), NEW policy, NEW past, ActivateRequest(q, policy, past)
    PROVE  Line' = q /\ NobodyWaitsInVain'
<1>1. CASE q = <<>>
  <2>1. <<>> \in Seq(Nat) /\ <<>> \o <<>> = <<>>
    BY EmptySeq, ConcatEmptySeq
  <2>2. active' = 0 /\ queue' = <<>>
    BY <1>1 DEF ActivateRequest
  <2> QED
    BY <1>1, <2>1, <2>2 DEF Line, NobodyWaitsInVain
<1>2. CASE q # <<>>
  <2>1. active' = Head(q) /\ queue' = Tail(q) /\ Head(q) \in Nat \ {0}
    BY <1>2, HeadTailProperties DEF ActivateRequest
  <2>2. <<Head(q)>> \o Tail(q) = q
    BY <1>2
  <2> QED
    BY <2>1, <2>2 DEF Line, NobodyWaitsInVain
<1> QED
  BY <1>1, <1>2

\* A step that leaves the line, its numbers and the answers alone is a stutter.
LEMMA LineUnchanged ==
    ASSUME UNCHANGED <<active, queue, submitted, finished, delivered>>
    PROVE  UNCHANGED Queue!queueVars
BY DEF Queue!queueVars, Line

LEMMA LineTypes ==
    ASSUME TypeOK
    PROVE  /\ Line \in Seq(Nat) /\ queue \in Seq(Nat \ {0}) /\ submitted \in Nat
           /\ \A n \in 0..1 : /\ NewRequests(n) \in Seq(Nat \ {0})
                              /\ Queue!Newcomers(n) = NewRequests(n)
                              /\ queue \o NewRequests(n) \in Seq(Nat \ {0})
<1>1. queue \in Seq(Nat \ {0}) /\ submitted \in Nat /\ active \in Nat
  BY DEF TypeOK
<1>2. queue \in Seq(Nat) /\ <<active>> \in Seq(Nat) /\ <<>> \in Seq(Nat)
  BY <1>1
<1>3. Line \in Seq(Nat)
  BY <1>2, ConcatProperties DEF Line
<1>4. ASSUME NEW n \in 0..1
      PROVE  /\ NewRequests(n) \in Seq(Nat \ {0})
             /\ Queue!Newcomers(n) = NewRequests(n)
             /\ queue \o NewRequests(n) \in Seq(Nat \ {0})
  BY <1>1, NewRequestsType, LongerQueueType DEF NewRequests, Queue!Newcomers
<1> QED
  BY <1>1, <1>3, <1>4

LEMMA QueueRequestJoins ==
    ASSUME LineInv, QueueRequest
    PROVE  Queue!Join /\ NobodyWaitsInVain'
<1>1. /\ queue \in Seq(Nat \ {0}) /\ active \in Nat
      /\ NewRequests(1) \in Seq(Nat \ {0}) /\ Queue!Newcomers(1) = NewRequests(1)
      /\ queue \o NewRequests(1) \in Seq(Nat \ {0})
  BY LineTypes DEF LineInv, TypeOK
<1>2. submitted' = submitted + 1 /\ finished' = finished /\ delivered' = delivered
  BY DEF QueueRequest
<1>3. Line' = Line \o NewRequests(1) /\ NobodyWaitsInVain'
  <2>1. CASE active # 0
    <3>1. active' = active /\ queue' = queue \o NewRequests(1)
      BY <2>1 DEF QueueRequest
    <3>2. Line = <<active>> \o queue /\ Line' = <<active>> \o (queue \o NewRequests(1))
      BY <2>1, <3>1 DEF Line
    <3>3. <<active>> \o (queue \o NewRequests(1)) = (<<active>> \o queue) \o NewRequests(1)
      <4>1. <<active>> \in Seq(Nat) /\ queue \in Seq(Nat) /\ NewRequests(1) \in Seq(Nat)
        BY <1>1
      <4> QED
        BY <4>1, Associative
    <3> QED
      BY <2>1, <3>1, <3>2, <3>3 DEF NobodyWaitsInVain
  <2>2. CASE active = 0
    <3>1. queue = <<>>
      BY <2>2 DEF LineInv, NobodyWaitsInVain
    <3>2. ActivateRequest(queue \o NewRequests(1), hits, history)
      BY <2>2 DEF QueueRequest
    <3>3. Line' = queue \o NewRequests(1) /\ NobodyWaitsInVain'
      BY <1>1, <3>2, ActivateLine
    <3>4. Line = queue
      BY <1>1, <2>2, ConcatEmptySeq DEF Line
    <3> QED
      BY <3>3, <3>4
  <2> QED
    BY <2>1, <2>2
<1> QED
  BY <1>1, <1>2, <1>3 DEF Queue!Join

LEMMA ReceiveReplyServes ==
    ASSUME LineInv, ReceiveReply
    PROVE  [Queue!Serve]_(Queue!queueVars) /\ NobodyWaitsInVain'
<1>1. PICK r \in replies :
         /\ active # 0
         /\ ReceiveSuccess(r) \/ ReceiveViolation(r) \/ ReceiveError(r) \/ ReceiveNoHeader(r)
  BY DEF ReceiveReply
<1>2. CASE ReceiveViolation(r) \/ ReceiveError(r) \/ ReceiveNoHeader(r)
  <2>1. UNCHANGED <<active, queue, submitted, finished, delivered>>
    BY <1>2 DEF ReceiveViolation, ReceiveError, ReceiveNoHeader
  <2> QED
    BY <2>1, LineUnchanged DEF LineInv, NobodyWaitsInVain
<1>3. CASE ReceiveSuccess(r)
  <2>1. r.id = active
    BY DEF LineInv, OneInFlight
  <2>2. /\ Line = <<active>> \o queue /\ queue \in Seq(Nat \ {0}) /\ active \in Nat
        /\ Line # <<>> /\ Head(Line) = active /\ Tail(Line) = queue
    <3>1. queue \in Seq(Nat \ {0}) /\ active \in Nat /\ Line = <<active>> \o queue
      BY <1>1 DEF LineInv, TypeOK, Line
    <3> QED
      BY <3>1
  <2>3. finished' = finished \cup {Head(Line)}
    BY <1>3, <2>1, <2>2 DEF ReceiveSuccess
  <2>4. CASE orphan
    <3>1. /\ ActivateRequest(queue, r.hits, PushFront(r.date, history))
          /\ UNCHANGED <<delivered, submitted>>
      BY <1>3, <2>4 DEF ReceiveSuccess
    <3>2. Line' = queue /\ NobodyWaitsInVain'
      BY <2>2, <3>1, ActivateLine
    <3> QED
      BY <2>2, <2>3, <3>1, <3>2 DEF Queue!Serve
  <2>5. CASE ~orphan
    <3>1. PICK n \in 0..1 :
             /\ submitted' = submitted + n
             /\ ActivateRequest(queue \o NewRequests(n), r.hits, PushFront(r.date, history))
      BY <1>3, <2>5 DEF ReceiveSuccess
    <3>2. delivered' = Append(delivered, Head(Line))
      BY <1>3, <2>2, <2>5 DEF ReceiveSuccess
    <3>3. /\ queue \o NewRequests(n) \in Seq(Nat \ {0})
          /\ Queue!Newcomers(n) = NewRequests(n)
      BY LineTypes DEF LineInv
    <3>4. Line' = Tail(Line) \o Queue!Newcomers(n) /\ NobodyWaitsInVain'
      BY <2>2, <3>1, <3>3, ActivateLine
    <3> QED
      BY <2>2, <2>3, <3>1, <3>2, <3>4 DEF Queue!Serve
  <2> QED
    BY <2>4, <2>5
<1> QED
  BY <1>1, <1>2, <1>3

\* Every step of the manager is one of the queue, or none.
LEMMA NextImplementsQueue ==
    LineInv /\ [Next]_vars => [Queue!QueueNext]_(Queue!queueVars) /\ NobodyWaitsInVain'
<1> SUFFICES ASSUME LineInv, [Next]_vars
             PROVE  [Queue!QueueNext]_(Queue!queueVars) /\ NobodyWaitsInVain'
  OBVIOUS
<1>1. CASE QueueRequest
  BY <1>1, QueueRequestJoins DEF Queue!QueueNext
<1>2. CASE ReceiveReply
  BY <1>2, ReceiveReplyServes DEF Queue!QueueNext
<1>3. CASE UNCHANGED <<active, queue, submitted, finished, delivered>>
  BY <1>3, LineUnchanged DEF LineInv, NobodyWaitsInVain
<1>4. CASE Tick \/ OtherHit \/ ServerAnswer \/ NetworkFailure \/ UNCHANGED vars
  BY <1>3, <1>4 DEF Tick, OtherHit, ServerAnswer, NetworkFailure, vars, managerVars, ghostVars
<1>5. CASE FirstUpdate \/ SendRequest
  BY <1>3, <1>5 DEF FirstUpdate, SendRequest, ghostVars
<1> QED
  BY <1>1, <1>2, <1>4, <1>5 DEF Next

LEMMA InitImplementsQueue == Init => Queue!QueueInit /\ NobodyWaitsInVain
<1>1. <<>> \o <<>> = <<>>
  BY EmptySeq, ConcatEmptySeq
<1> QED
  BY <1>1 DEF Init, Queue!QueueInit, Line, NobodyWaitsInVain

LEMMA LineInvHolds == Spec => []LineInv
<1>1. TypeOK /\ OneInFlight /\ NobodyWaitsInVain /\ [Next]_vars => NobodyWaitsInVain'
  BY NextImplementsQueue DEF LineInv
<1>2. Init => NobodyWaitsInVain
  BY InitImplementsQueue
<1>3. LineInv <=> TypeOK /\ OneInFlight /\ NobodyWaitsInVain
  BY DEF LineInv
<1> QED
  BY <1>1, <1>2, <1>3, TypeCorrect, OneInFlightHolds, PTL DEF Spec

(***************************************************************************)
(* RateLimitManager implements RequestQueue: it is one line of requests,   *)
(* answered strictly in turn, whatever else happens.                       *)
(***************************************************************************)
THEOREM Implementation == Spec => ImplementsQueue
<1>1. Init => Queue!QueueInit
  BY InitImplementsQueue
<1>2. LineInv /\ [Next]_vars => [Queue!QueueNext]_(Queue!queueVars)
  BY NextImplementsQueue
<1> QED
  BY <1>1, <1>2, LineInvHolds, PTL DEF Spec, ImplementsQueue, Queue!QueueSpec

(***************************************************************************)
(* First come, first served, from what is proved of RequestQueue.          *)
(***************************************************************************)
THEOREM FirstComeFirstServedHolds == Spec => []FirstComeFirstServed
<1>1. Queue!QueueSpec => []Queue!ServedInTurn
  BY ServedInTurnHolds
<1>2. LineInv => NobodyWaitsInVain
  BY DEF LineInv
<1> QED
  BY <1>1, <1>2, Implementation, LineInvHolds, PTL DEF ImplementsQueue, FirstComeFirstServed

-----------------------------------------------------------------------------
(***************************************************************************)
(* The limiter.                                                            *)
(***************************************************************************)

\* The requests in a sequence of them; none is there twice.
Ids(s) == {s[k] : k \in DOMAIN s}
Distinct(s) == \A j, k \in DOMAIN s : s[j] = s[k] => j = k

LoopIds == [k \in DOMAIN loops |-> loops[k].id]

\* Every request has its place: with a loop, in the queue, active, or answered.
Places ==
    /\ Distinct(LoopIds) /\ Distinct(queue)
    /\ Ids(LoopIds) \cap Ids(queue) = {}
    /\ Ids(LoopIds) \cup Ids(queue) \subseteq (1..submitted) \ (finished \cup {active})
    /\ active \in 0..submitted /\ finished \subseteq 1..submitted
    /\ 1..submitted \subseteq Ids(LoopIds) \cup Ids(queue) \cup finished \cup {active}

\* While ReceiveReply is suspended in a slot of complete(), the request it has completed
\* stays active and nothing else of the manager's is under way.
Suspended ==
    /\ \A k \in DOMAIN loops : loops[k].inSlot =>
            /\ active # 0 /\ active \in finished
            /\ timer = Off /\ sent = {} /\ replies = {}
    /\ \A j, k \in DOMAIN loops : loops[j].inSlot /\ loops[k].inSlot => j = k

LimiterIInv == LimiterTypeOK /\ OneInFlight /\ Suspended /\ Places

-----------------------------------------------------------------------------
(* Lemmas about sequences without repetitions. *)

LEMMA AppendIds ==
    ASSUME NEW S, NEW s \in Seq(S), NEW e \in S
    PROVE  /\ Ids(Append(s, e)) = Ids(s) \cup {e}
           /\ Distinct(s) /\ e \notin Ids(s) => Distinct(Append(s, e))
<1> DEFINE t == Append(s, e)
<1>1. /\ DOMAIN s = 1..Len(s) /\ Len(s) \in Nat /\ DOMAIN t = 1..(Len(s) + 1)
      /\ t[Len(s) + 1] = e /\ \A k \in 1..Len(s) : t[k] = s[k]
  BY AppendProperties
<1>2. DOMAIN t = DOMAIN s \cup {Len(s) + 1} /\ Len(s) + 1 \notin DOMAIN s
  BY <1>1
<1> HIDE DEF t
<1>3. Ids(t) = Ids(s) \cup {e}
  BY <1>1, <1>2 DEF Ids
<1>4. Distinct(s) /\ e \notin Ids(s) => Distinct(t)
  BY <1>1, <1>2 DEF Ids, Distinct
<1> QED
  BY <1>3, <1>4 DEF t

LEMMA HeadTailIds ==
    ASSUME NEW S, NEW s \in Seq(S), s # <<>>, Distinct(s)
    PROVE  /\ Ids(s) = {Head(s)} \cup Ids(Tail(s))
           /\ Head(s) \notin Ids(Tail(s)) /\ Distinct(Tail(s))
<1> DEFINE t == Tail(s)
<1>1. /\ DOMAIN s = 1..Len(s) /\ Len(s) \in Nat \ {0} /\ Head(s) = s[1]
      /\ DOMAIN t = 1..(Len(s) - 1) /\ \A k \in 1..(Len(s) - 1) : t[k] = s[k + 1]
  BY HeadTailProperties
<1> HIDE DEF t
<1>2. Ids(s) \subseteq {Head(s)} \cup Ids(t)
  <2> SUFFICES ASSUME NEW k \in DOMAIN s, k # 1 PROVE s[k] \in Ids(t)
    BY <1>1 DEF Ids
  <2>1. k - 1 \in DOMAIN t /\ t[k - 1] = s[k]
    BY <1>1
  <2> QED
    BY <2>1 DEF Ids
<1>3. {Head(s)} \cup Ids(t) \subseteq Ids(s)
  <2>1. \A k \in DOMAIN t : k + 1 \in DOMAIN s /\ t[k] = s[k + 1]
    BY <1>1
  <2>2. 1 \in DOMAIN s
    BY <1>1
  <2> QED
    BY <1>1, <2>1, <2>2 DEF Ids
<1>4. Head(s) \notin Ids(t)
  <2> SUFFICES ASSUME NEW k \in DOMAIN t, t[k] = Head(s) PROVE FALSE
    BY DEF Ids
  <2>1. 1 \in DOMAIN s /\ k + 1 \in DOMAIN s /\ s[k + 1] = s[1] /\ k + 1 # 1
    BY <1>1
  <2> QED
    BY <2>1 DEF Distinct
<1>5. Distinct(t)
  <2> SUFFICES ASSUME NEW j \in DOMAIN t, NEW k \in DOMAIN t, t[j] = t[k] PROVE j = k
    BY DEF Distinct
  <2>1. j + 1 \in DOMAIN s /\ k + 1 \in DOMAIN s /\ s[j + 1] = s[k + 1]
    BY <1>1
  <2>2. j + 1 = k + 1
    BY <2>1 DEF Distinct
  <2> QED
    BY <1>1, <2>2
<1> QED
  BY <1>2, <1>3, <1>4, <1>5 DEF t

\* Without its last element.
LEMMA FrontIds ==
    ASSUME NEW S, NEW s \in Seq(S), s # <<>>, Distinct(s),
           NEW t, DOMAIN t = 1..(Len(s) - 1), \A k \in 1..(Len(s) - 1) : t[k] = s[k]
    PROVE  /\ Ids(s) = Ids(t) \cup {s[Len(s)]}
           /\ s[Len(s)] \notin Ids(t) /\ Distinct(t)
<1>1. DOMAIN s = 1..Len(s) /\ Len(s) \in Nat \ {0}
  BY EmptySeq
<1>2. DOMAIN s = DOMAIN t \cup {Len(s)} /\ Len(s) \notin DOMAIN t
  BY <1>1
<1>3. \A k \in DOMAIN t : t[k] = s[k]
  OBVIOUS
<1>4. Ids(s) = Ids(t) \cup {s[Len(s)]}
  BY <1>2, <1>3 DEF Ids
<1>5. s[Len(s)] \notin Ids(t)
  BY <1>2, <1>3 DEF Ids, Distinct
<1>6. Distinct(t)
  BY <1>2, <1>3 DEF Distinct
<1> QED
  BY <1>4, <1>5, <1>6

\* How often something is in a sequence without repetitions.
LEMMA CountInDistinct ==
    ASSUME NEW s, Distinct(s), NEW id
    PROVE  Cardinality({k \in DOMAIN s : s[k] = id}) = IF id \in Ids(s) THEN 1 ELSE 0
<1>1. CASE id \in Ids(s)
  <2>1. PICK k \in DOMAIN s : s[k] = id
    BY <1>1 DEF Ids
  <2>2. {j \in DOMAIN s : s[j] = id} = {k}
    BY <2>1 DEF Distinct
  <2> QED
    BY <1>1, <2>2, FS_Singleton
<1>2. CASE id \notin Ids(s)
  <2>1. {j \in DOMAIN s : s[j] = id} = {}
    BY <1>2 DEF Ids
  <2> QED
    BY <1>2, <2>1, FS_EmptySet
<1> QED
  BY <1>1, <1>2

\* ActivateRequest takes the first of the queue, and loses none.
LEMMA ActivateIds ==
    ASSUME NEW q \in Seq(Nat \ {0}), Distinct(q), NEW policy, NEW past,
           ActivateRequest(q, policy, past)
    PROVE  /\ Distinct(queue') /\ Ids(queue') \subseteq Ids(q)
           /\ Ids(q) \subseteq Ids(queue') \cup {active'}
           /\ active' \in Ids(q) \cup {0} /\ active' \notin Ids(queue')
<1>1. CASE q = <<>>
  <2>1. active' = 0 /\ queue' = <<>>
    BY <1>1 DEF ActivateRequest
  <2>2. DOMAIN q = {}
    BY <1>1
  <2>3. queue' = q
    BY <1>1, <2>1
  <2> QED
    BY <2>1, <2>2, <2>3 DEF Ids, Distinct
<1>2. CASE q # <<>>
  <2>1. active' = Head(q) /\ queue' = Tail(q)
    BY <1>2 DEF ActivateRequest
  <2> QED
    BY <1>2, <2>1, HeadTailIds
<1> QED
  BY <1>1, <1>2

\* The requests that join the queue.
LEMMA NewIds ==
    ASSUME TypeOK, Distinct(queue), Ids(queue) \subseteq 1..submitted, NEW n \in 0..1
    PROVE  /\ Distinct(queue \o NewRequests(n))
           /\ Ids(queue \o NewRequests(n)) =
                Ids(queue) \cup (IF n = 0 THEN {} ELSE {submitted + 1})
<1>1. queue \in Seq(Nat \ {0}) /\ submitted \in Nat
  BY DEF TypeOK
<1>2. CASE n = 0
  <2>1. NewRequests(n) = <<>>
    BY <1>2 DEF NewRequests
  <2>2. queue \o NewRequests(n) = queue
    BY <1>1, <2>1, ConcatEmptySeq
  <2> QED
    BY <1>2, <2>2
<1>3. CASE n = 1
  <2>1. NewRequests(n) = <<submitted + 1>>
    BY <1>1, <1>3 DEF NewRequests
  <2>2. queue \o NewRequests(n) = Append(queue, submitted + 1)
    BY <1>1, <2>1
  <2>3. submitted + 1 \in Nat \ {0} /\ submitted + 1 \notin Ids(queue)
    BY <1>1
  <2>4. /\ Ids(Append(queue, submitted + 1)) = Ids(queue) \cup {submitted + 1}
        /\ Distinct(Append(queue, submitted + 1))
    BY <1>1, <2>3, AppendIds
  <2>5. (IF n = 0 THEN {} ELSE {submitted + 1}) = {submitted + 1}
    BY <1>3
  <2> QED
    BY <2>2, <2>4, <2>5, Zenon
<1> QED
  BY <1>2, <1>3

-----------------------------------------------------------------------------
(* The steps of the manager, with the nested loops standing by. *)

Frames == [endpoint : Endpoints, id : Nat, inSlot : BOOLEAN, done : BOOLEAN,
           hits : [Items -> Nat]]

LEMMA LoopFacts ==
    ASSUME LimiterTypeOK
    PROVE  /\ TypeOK /\ loops \in Seq(Frames) /\ LoopIds \in Seq(Nat)
           /\ Len(loops) \in Nat /\ DOMAIN loops = 1..Len(loops)
           /\ DOMAIN LoopIds = DOMAIN loops /\ Len(LoopIds) = Len(loops)
           /\ \A k \in DOMAIN loops : loops[k] \in Frames /\ LoopIds[k] = loops[k].id
<1>1. TypeOK /\ loops \in Seq(Frames)
  BY DEF LimiterTypeOK, Frames
<1>2. /\ Len(loops) \in Nat /\ DOMAIN loops = 1..Len(loops)
      /\ \A k \in DOMAIN loops : loops[k] \in Frames
  BY <1>1
<1>3. LoopIds \in [1..Len(loops) -> Nat]
  BY <1>2 DEF LoopIds, Frames
<1>4. LoopIds \in Seq(Nat) /\ Len(LoopIds) = Len(loops)
  <2>1. LoopIds \in Seq(Nat)
    BY <1>2, <1>3, SeqDef
  <2>2. DOMAIN LoopIds = 1..Len(loops)
    BY <1>3
  <2> QED
    BY <1>2, <2>1, <2>2, LenProperties
<1> QED
  BY <1>1, <1>2, <1>4 DEF LoopIds

LEMMA LimiterTypesKept ==
    ASSUME LimiterTypeOK, TypeOK', UNCHANGED limiterVars
    PROVE  LimiterTypeOK'
BY DEF LimiterTypeOK, limiterVars

LEMMA PlacesKept ==
    ASSUME Places, UNCHANGED <<active, queue, submitted, finished>>, LoopIds' = LoopIds
    PROVE  Places'
BY DEF Places, Ids, Distinct

LEMMA SuspendedKept ==
    ASSUME Suspended, UNCHANGED <<active, finished, timer, sent, replies, loops>>
    PROVE  Suspended'
BY DEF Suspended

\* Nothing fires or arrives while ReceiveReply is suspended.
LEMMA QuietWhileSuspended ==
    ASSUME Suspended, active = 0 \/ active \notin finished \/ timer # Off
                      \/ sent # {} \/ replies # {}
    PROVE  \A k \in DOMAIN loops : ~loops[k].inSlot
BY DEF Suspended

LEMMA ServiceStep ==
    ASSUME LimiterIInv, UNCHANGED limiterVars,
           Tick \/ SendRequest \/ ServerAnswer \/ OtherHit \/ NetworkFailure
    PROVE  LimiterIInv'
<1>1. TypeOK' /\ OneInFlight'
  BY NextTypeOK, NextOneInFlight DEF LimiterIInv, LimiterTypeOK, Next
<1>2. LimiterTypeOK'
  BY <1>1, LimiterTypesKept DEF LimiterIInv
<1>3. UNCHANGED <<active, queue, submitted, finished>>
  BY DEF Tick, SendRequest, ServerAnswer, OtherHit, NetworkFailure, managerVars, ghostVars
<1>4. loops' = loops
  BY DEF limiterVars
<1>5. Places'
  BY <1>3, <1>4, PlacesKept DEF LimiterIInv, LoopIds
<1>6. Suspended'
  <2>1. CASE Tick \/ OtherHit
    BY <1>3, <1>4, <2>1, SuspendedKept DEF Tick, OtherHit, managerVars, networkVars, LimiterIInv
  <2>2. CASE SendRequest \/ ServerAnswer \/ NetworkFailure
    <3>1. timer # Off \/ sent # {}
      BY <2>2 DEF SendRequest, ServerAnswer, NetworkFailure
    <3>2. \A k \in DOMAIN loops : ~loops[k].inSlot
      BY <3>1, QuietWhileSuspended DEF LimiterIInv
    <3> QED
      BY <1>4, <3>2 DEF Suspended
  <2> QED
    BY <2>1, <2>2
<1> QED
  BY <1>1, <1>2, <1>5, <1>6 DEF LimiterIInv

\* A request that joins the queue is where nobody was.
LEMMA SubmitStep ==
    ASSUME LimiterIInv, SubmitKnown
    PROVE  LimiterIInv'
<1>1. QueueRequest /\ UNCHANGED limiterVars
  BY DEF SubmitKnown
<1>2. TypeOK' /\ OneInFlight'
  BY <1>1, NextTypeOK, NextOneInFlight DEF LimiterIInv, LimiterTypeOK, Next
<1>3. LimiterTypeOK'
  BY <1>1, <1>2, LimiterTypesKept DEF LimiterIInv
<1>4. /\ loops' = loops /\ LoopIds' = LoopIds /\ submitted' = submitted + 1
      /\ finished' = finished /\ sent' = sent /\ replies' = replies
  BY <1>1 DEF limiterVars, QueueRequest, networkVars, LoopIds
<1>5. TypeOK /\ submitted \in Nat /\ Places /\ Suspended
  BY DEF LimiterIInv, LimiterTypeOK, TypeOK
<1> DEFINE q == queue \o NewRequests(1)
<1>6. q \in Seq(Nat \ {0}) /\ Distinct(q) /\ Ids(q) = Ids(queue) \cup {submitted + 1}
  <2>1. Distinct(queue) /\ Ids(queue) \subseteq 1..submitted
    BY <1>5 DEF Places
  <2>2. q \in Seq(Nat \ {0})
    BY <1>5, LongerQueueType
  <2> QED
    BY <1>5, <2>1, <2>2, NewIds
<1> HIDE DEF q
<1>7. CASE active # 0
  <2>1. queue' = q /\ active' = active /\ timer' = timer
    BY <1>1, <1>7 DEF QueueRequest, q
  <2>2. Places'
    <3>1. Distinct(LoopIds') /\ Distinct(queue')
      BY <1>4, <1>5, <1>6, <2>1 DEF Places, Distinct
    <3>2. Ids(LoopIds)' = Ids(LoopIds) /\ Ids(queue)' = Ids(queue) \cup {submitted + 1}
      BY <1>4, <1>6, <2>1 DEF Ids
    <3> QED
      BY <1>4, <1>5, <2>1, <3>1, <3>2 DEF Places, Distinct
  <2>3. Suspended'
    BY <1>4, <1>5, <2>1, SuspendedKept
  <2> QED
    BY <1>2, <1>3, <2>2, <2>3 DEF LimiterIInv
<1>8. CASE active = 0
  <2>1. ActivateRequest(q, hits, history)
    BY <1>1, <1>8 DEF QueueRequest, q
  <2>2. /\ Distinct(queue') /\ Ids(queue') \subseteq Ids(q)
        /\ Ids(q) \subseteq Ids(queue') \cup {active'}
        /\ active' \in Ids(q) \cup {0} /\ active' \notin Ids(queue')
    BY <1>6, <2>1, ActivateIds
  <2>3. Places'
    <3>1. Distinct(LoopIds') /\ Distinct(queue)'
      BY <1>4, <1>5, <2>2 DEF Places, Distinct
    <3>2. Ids(LoopIds)' = Ids(LoopIds) /\ Ids(queue)' = Ids(queue')
      BY <1>4 DEF Ids
    <3> QED
      BY <1>4, <1>5, <1>6, <1>8, <2>2, <3>1, <3>2 DEF Places, Distinct
  <2>4. Suspended'
    BY <1>4, <1>5, <1>8, QuietWhileSuspended DEF Suspended
  <2> QED
    BY <1>2, <1>3, <2>3, <2>4 DEF LimiterIInv
<1> QED
  BY <1>7, <1>8

\* Only the request that was answered goes.
LEMMA ReceiveStep ==
    ASSUME LimiterIInv, ReceiveReply, UNCHANGED limiterVars
    PROVE  LimiterIInv'
<1>1. TypeOK' /\ OneInFlight'
  BY NextTypeOK, NextOneInFlight DEF LimiterIInv, LimiterTypeOK, Next
<1>2. LimiterTypeOK'
  BY <1>1, LimiterTypesKept DEF LimiterIInv
<1>3. loops' = loops /\ LoopIds' = LoopIds
  BY DEF limiterVars, LoopIds
<1>4. TypeOK /\ submitted \in Nat /\ Places /\ Suspended /\ OneInFlight
  BY DEF LimiterIInv, LimiterTypeOK, TypeOK
<1>5. Suspended'
  <2>1. replies # {}
    BY DEF ReceiveReply
  <2> QED
    BY <1>3, <1>4, <2>1, QuietWhileSuspended DEF Suspended
<1>6. PICK r \in replies :
        /\ active # 0
        /\ ReceiveSuccess(r) \/ ReceiveViolation(r) \/ ReceiveError(r) \/ ReceiveNoHeader(r)
  BY DEF ReceiveReply
<1>7. CASE ReceiveViolation(r) \/ ReceiveError(r) \/ ReceiveNoHeader(r)
  <2>1. UNCHANGED <<active, queue, submitted, finished>>
    BY <1>7 DEF ReceiveViolation, ReceiveError, ReceiveNoHeader
  <2> QED
    BY <1>1, <1>2, <1>3, <1>4, <1>5, <2>1, PlacesKept DEF LimiterIInv
<1>8. CASE ReceiveSuccess(r)
  <2>1. finished' = finished \cup {active}
    BY <1>4, <1>8 DEF ReceiveSuccess, OneInFlight
  <2>2. PICK n \in 0..1 :
          /\ submitted' = submitted + n
          /\ ActivateRequest(queue \o NewRequests(n), r.hits, PushFront(r.date, history))
    <3>1. CASE orphan
      <4>1. NewRequests(0) = <<>> /\ queue \in Seq(Nat \ {0})
        BY <1>4 DEF NewRequests, TypeOK
      <4>2. queue \o NewRequests(0) = queue
        BY <4>1, ConcatEmptySeq
      <4>3. submitted' = submitted + 0
        BY <1>4, <1>8, <3>1 DEF ReceiveSuccess
      <4>4. ActivateRequest(queue \o NewRequests(0), r.hits, PushFront(r.date, history))
        BY <1>8, <3>1, <4>2 DEF ReceiveSuccess
      <4> QED
        BY <4>3, <4>4
    <3>2. CASE ~orphan
      BY <1>8, <3>2 DEF ReceiveSuccess
    <3> QED
      BY <3>1, <3>2
  <2> DEFINE q == queue \o NewRequests(n)
  <2>3. q \in Seq(Nat \ {0}) /\ Distinct(q)
        /\ Ids(q) = Ids(queue) \cup (IF n = 0 THEN {} ELSE {submitted + 1})
    <3>1. Distinct(queue) /\ Ids(queue) \subseteq 1..submitted
      BY <1>4 DEF Places
    <3>2. q \in Seq(Nat \ {0})
      BY <1>4, LongerQueueType
    <3> QED
      BY <1>4, <3>1, <3>2, NewIds
  <2> HIDE DEF q
  <2>4. ActivateRequest(q, r.hits, PushFront(r.date, history))
    BY <2>2 DEF q
  <2>5. /\ Distinct(queue') /\ Ids(queue') \subseteq Ids(q)
        /\ Ids(q) \subseteq Ids(queue') \cup {active'}
        /\ active' \in Ids(q) \cup {0} /\ active' \notin Ids(queue')
    BY <2>3, <2>4, ActivateIds
  <2>6. Places'
    <3>1. Distinct(LoopIds') /\ Distinct(queue)'
      BY <1>3, <1>4, <2>5 DEF Places, Distinct
    <3>2. Ids(LoopIds)' = Ids(LoopIds) /\ Ids(queue)' = Ids(queue')
      BY <1>3 DEF Ids
    <3> DEFINE new == IF n = 0 THEN {} ELSE {submitted + 1}
    <3>3. /\ 1..submitted' = (1..submitted) \cup new /\ 0..submitted' = (0..submitted) \cup new
          /\ new \cap (0..submitted) = {} /\ active \in 1..submitted /\ 0 \notin new
          /\ 0 \in 0..submitted
      BY <1>4, <1>6, <2>2 DEF Places
    <3>4. Ids(q) = Ids(queue) \cup new
      BY <2>3
    <3>5. 1..submitted \subseteq 0..submitted /\ 0 \notin 1..submitted
      BY <1>4
    <3> HIDE DEF new
    <3>6. /\ Ids(LoopIds) \cap Ids(queue) = {}
          /\ Ids(LoopIds) \cup Ids(queue) \subseteq (1..submitted) \ (finished \cup {active})
          /\ active \in 0..submitted /\ finished \subseteq 1..submitted
          /\ 1..submitted \subseteq Ids(LoopIds) \cup Ids(queue) \cup finished \cup {active}
      BY <1>4 DEF Places
    <3>7. Ids(LoopIds) \cap Ids(queue') = {}
      BY <2>5, <3>3, <3>4, <3>5, <3>6
    <3>8. Ids(LoopIds) \cup Ids(queue') \subseteq (1..submitted') \ (finished' \cup {active'})
      BY <2>1, <2>5, <3>3, <3>4, <3>5, <3>6
    <3>9. active' \in 0..submitted' /\ finished' \subseteq 1..submitted'
      BY <2>1, <2>5, <3>3, <3>4, <3>5, <3>6
    <3>10. 1..submitted' \subseteq Ids(LoopIds) \cup Ids(queue') \cup finished' \cup {active'}
      BY <2>1, <2>5, <3>3, <3>4, <3>6
    <3> QED
      BY <3>1, <3>2, <3>7, <3>8, <3>9, <3>10 DEF Places, Distinct
  <2> QED
    BY <1>1, <1>2, <1>5, <2>6 DEF LimiterIInv
<1> QED
  BY <1>6, <1>7, <1>8

-----------------------------------------------------------------------------
(* The steps of the limiter. *)

Heads == [id : Nat, answered : BOOLEAN, hits : [Items -> Nat]]

LEMMA EnterLoopFacts ==
    ASSUME LimiterTypeOK, NEW e \in Endpoints, NEW inSlot \in BOOLEAN, EnterLoop(e, inSlot)
    PROVE  /\ loops' = Append(loops, Frame(e, inSlot)) /\ Frame(e, inSlot) \in Frames
           /\ loops' \in Seq(Frames) /\ heads' \subseteq Heads /\ known' = known
           /\ submitted' = submitted + 1
           /\ LoopIds' = Append(LoopIds, submitted + 1)
<1>1. /\ loops' = Append(loops, Frame(e, inSlot)) /\ known' = known
      /\ submitted' = submitted + 1
      /\ heads' = heads \cup {[id |-> submitted + 1, answered |-> FALSE, hits |-> hits]}
  BY DEF EnterLoop
<1>2. submitted + 1 \in Nat /\ hits \in [Items -> Nat]
  BY DEF LimiterTypeOK, TypeOK
<1>3. Frame(e, inSlot) \in Frames /\ Frame(e, inSlot).id = submitted + 1
  BY <1>2 DEF Frame, Frames
<1>4. loops' \in Seq(Frames)
  BY <1>1, <1>3, LoopFacts, AppendProperties
<1>5. heads' \subseteq Heads
  <2>1. heads \subseteq Heads
    BY DEF LimiterTypeOK, Heads
  <2>2. [id |-> submitted + 1, answered |-> FALSE, hits |-> hits] \in Heads
    BY <1>2 DEF Heads
  <2> QED
    BY <1>1, <2>1, <2>2
<1>6. LoopIds' = Append(LoopIds, submitted + 1)
  <2> DEFINE f == Frame(e, inSlot)
             n == Len(loops)
  <2>1. /\ n \in Nat /\ DOMAIN loops = 1..n /\ DOMAIN LoopIds = 1..n
        /\ LoopIds \in Seq(Nat) /\ Len(LoopIds) = n
        /\ \A k \in 1..n : LoopIds[k] = loops[k].id
    BY LoopFacts
  <2>2. /\ DOMAIN loops' = 1..(n + 1) /\ loops'[n + 1] = f
        /\ \A k \in 1..n : loops'[k] = loops[k]
    BY <1>1, <1>3, <2>1, LoopFacts, AppendProperties
  <2>3. /\ DOMAIN Append(LoopIds, submitted + 1) = 1..(n + 1)
        /\ Append(LoopIds, submitted + 1)[n + 1] = submitted + 1
        /\ \A k \in 1..n : Append(LoopIds, submitted + 1)[k] = LoopIds[k]
        /\ Append(LoopIds, submitted + 1) =
             [k \in 1..(n + 1) |-> Append(LoopIds, submitted + 1)[k]]
    BY <1>2, <2>1, AppendProperties
  <2>4. f.id = submitted + 1
    BY <1>3
  <2> HIDE DEF f, n
  <2>5. \A k \in 1..(n + 1) : loops'[k].id = Append(LoopIds, submitted + 1)[k]
    <3> SUFFICES ASSUME NEW k \in 1..(n + 1)
                 PROVE  loops'[k].id = Append(LoopIds, submitted + 1)[k]
      OBVIOUS
    <3>1. k = n + 1 \/ k \in 1..n
      BY <2>1
    <3>2. CASE k = n + 1
      BY <2>2, <2>3, <2>4, <3>2
    <3>3. CASE k \in 1..n
      BY <2>1, <2>2, <2>3, <3>3
    <3> QED
      BY <3>1, <3>2, <3>3
  <2>6. LoopIds' = [k \in 1..(n + 1) |-> loops'[k].id]
    BY <2>2 DEF LoopIds
  <2> QED
    BY <2>3, <2>5, <2>6
<1> QED
  BY <1>1, <1>3, <1>4, <1>5, <1>6

\* The request that waits for its HEAD reply has a number nobody has.
LEMMA EnterLoopPlaces ==
    ASSUME LimiterTypeOK, Places, queue' = queue, active' = active,
           submitted' = submitted + 1, LoopIds' = Append(LoopIds, submitted + 1),
           finished' = finished \/ (active # 0 /\ finished' = finished \cup {active})
    PROVE  Places'
<1>1. submitted \in Nat /\ LoopIds \in Seq(Nat) /\ submitted + 1 \in Nat
  BY LoopFacts DEF TypeOK
<1>2. submitted + 1 \notin Ids(LoopIds)
  BY <1>1 DEF Places
<1>3. Distinct(LoopIds') /\ Ids(LoopIds') = Ids(LoopIds) \cup {submitted + 1}
  BY <1>1, <1>2, AppendIds DEF Places
<1>4. Distinct(LoopIds)' /\ Distinct(queue)'
  BY <1>3 DEF Places, Distinct
<1>5. Ids(LoopIds)' = Ids(LoopIds) \cup {submitted + 1} /\ Ids(queue)' = Ids(queue)
  BY <1>3 DEF Ids
<1>6. /\ 1..submitted' = (1..submitted) \cup {submitted + 1}
      /\ 0..submitted' = (0..submitted) \cup {submitted + 1}
      /\ submitted + 1 \notin 0..submitted /\ 1..submitted \subseteq 0..submitted
      /\ active # 0 /\ active \in 0..submitted => active \in 1..submitted
  BY <1>1
<1>7. /\ Ids(LoopIds) \cap Ids(queue) = {}
      /\ Ids(LoopIds) \cup Ids(queue) \subseteq (1..submitted) \ (finished \cup {active})
      /\ active \in 0..submitted /\ finished \subseteq 1..submitted
      /\ 1..submitted \subseteq Ids(LoopIds) \cup Ids(queue) \cup finished \cup {active}
  BY DEF Places
<1>8. Ids(LoopIds)' \cap Ids(queue)' = {}
  BY <1>5, <1>6, <1>7
<1>9. Ids(LoopIds)' \cup Ids(queue)' \subseteq (1..submitted') \ (finished' \cup {active'})
  BY <1>5, <1>6, <1>7
<1>10. active' \in 0..submitted' /\ finished' \subseteq 1..submitted'
  BY <1>6, <1>7
<1>11. 1..submitted' \subseteq Ids(LoopIds)' \cup Ids(queue)' \cup finished' \cup {active'}
  BY <1>5, <1>6, <1>7
<1> QED
  BY <1>4, <1>8, <1>9, <1>10, <1>11 DEF Places

LEMMA SubmitUnknownStep ==
    ASSUME LimiterIInv, SubmitUnknown
    PROVE  LimiterIInv'
<1>1. LimiterTypeOK /\ OneInFlight /\ Suspended /\ Places
  BY DEF LimiterIInv
<1>2. PICK e \in Endpoints :
        EnterLoop(e, FALSE)
        /\ UNCHANGED <<now, managerVars, networkVars, finished, delivered, notBefore>>
  BY DEF SubmitUnknown
<1>3. UNCHANGED <<now, hasPolicy, hits, history, active, orphan, queue, timer, sent, replies,
                  log, finished, delivered, notBefore>>
  BY <1>2 DEF managerVars, networkVars
<1>4. /\ loops' = Append(loops, Frame(e, FALSE)) /\ Frame(e, FALSE) \in Frames
      /\ loops' \in Seq(Frames) /\ heads' \subseteq Heads /\ known' = known
      /\ submitted' = submitted + 1 /\ LoopIds' = Append(LoopIds, submitted + 1)
  BY <1>1, <1>2, EnterLoopFacts
<1>5. TypeOK'
  BY <1>1, <1>3, <1>4 DEF LimiterTypeOK, TypeOK
<1>6. LimiterTypeOK'
  BY <1>1, <1>4, <1>5 DEF LimiterTypeOK, Frames, Heads
<1>7. OneInFlight'
  BY <1>1, <1>3 DEF OneInFlight
<1>8. Places'
  BY <1>1, <1>3, <1>4, EnterLoopPlaces
<1>9. Suspended'
  <2>1. /\ Len(loops) \in Nat /\ DOMAIN loops = 1..Len(loops)
        /\ DOMAIN loops' = 1..(Len(loops) + 1)
        /\ \A k \in 1..Len(loops) : loops'[k] = loops[k]
    BY <1>1, <1>4, LoopFacts, AppendProperties
  <2>2. ~loops'[Len(loops) + 1].inSlot
    <3> DEFINE f == Frame(e, FALSE)
    <3>1. ~f.inSlot
      BY DEF Frame
    <3>2. loops \in Seq(Frames) /\ f \in Frames /\ loops' = Append(loops, f)
      BY <1>1, <1>4, LoopFacts
    <3> HIDE DEF f
    <3>3. loops'[Len(loops) + 1] = f
      BY <3>2, AppendProperties
    <3> QED
      BY <3>1, <3>3
  <2>3. ASSUME NEW k \in DOMAIN loops', loops'[k].inSlot
        PROVE  k \in DOMAIN loops /\ loops[k].inSlot
    <3>1. k = Len(loops) + 1 \/ k \in 1..Len(loops)
      BY <2>1
    <3> QED
      BY <2>1, <2>2, <2>3, <3>1
  <2> QED
    BY <1>1, <1>3, <2>3 DEF Suspended
<1> QED
  BY <1>6, <1>7, <1>8, <1>9 DEF LimiterIInv

LEMMA ReceiveAndEnterStep ==
    ASSUME LimiterIInv, ReceiveAndEnterLoop
    PROVE  LimiterIInv'
<1>1. LimiterTypeOK /\ TypeOK /\ OneInFlight /\ Suspended /\ Places
  BY DEF LimiterIInv, LimiterTypeOK
<1>2. PICK r \in replies, e \in Endpoints :
        /\ replies' = replies \ {r}
        /\ r.code = "ok" /\ active # 0 /\ ~orphan
        /\ hits' = r.hits /\ history' = PushFront(r.date, history)
        /\ finished' = finished \cup {r.id}
        /\ delivered' = Append(delivered, active)
        /\ EnterLoop(e, TRUE)
        /\ UNCHANGED <<now, hasPolicy, active, orphan, queue, timer, sent, log, notBefore>>
  BY DEF ReceiveAndEnterLoop
<1>3. /\ r.id = active /\ replies' = {} /\ sent' = {} /\ timer' = Off
      /\ finished' = finished \cup {active}
  BY <1>1, <1>2 DEF OneInFlight
<1>4. /\ loops' = Append(loops, Frame(e, TRUE)) /\ Frame(e, TRUE) \in Frames
      /\ loops' \in Seq(Frames) /\ heads' \subseteq Heads /\ known' = known
      /\ submitted' = submitted + 1 /\ LoopIds' = Append(LoopIds, submitted + 1)
  BY <1>1, <1>2, EnterLoopFacts
<1>5. TypeOK'
  <2>1. r.hits \in [Items -> Nat] /\ PushFront(r.date, history) \in Seq(Nat)
        /\ r.id \in Nat \ {0}
    BY <1>1, ReplyFields
  <2>2. Append(delivered, active) \in Seq(Nat)
    BY <1>1, AppendProperties DEF TypeOK
  <2>3. orphan' \in BOOLEAN /\ hasPolicy' \in BOOLEAN
    BY <1>1, <1>2 DEF TypeOK
  <2> QED
    BY <1>1, <1>2, <1>3, <1>4, <2>1, <2>2, <2>3 DEF TypeOK
<1>6. LimiterTypeOK'
  BY <1>1, <1>4, <1>5 DEF LimiterTypeOK, Frames, Heads
<1>7. OneInFlight'
  BY <1>3 DEF OneInFlight
<1>8. Places'
  BY <1>1, <1>2, <1>3, <1>4, EnterLoopPlaces
<1>9. Suspended'
  <2>1. /\ Len(loops) \in Nat /\ DOMAIN loops = 1..Len(loops)
        /\ DOMAIN loops' = 1..(Len(loops) + 1)
        /\ \A k \in 1..Len(loops) : loops'[k] = loops[k]
    BY <1>1, <1>4, LoopFacts, AppendProperties
  <2>2. \A k \in DOMAIN loops : ~loops[k].inSlot
    BY <1>1, <1>2, QuietWhileSuspended
  <2>3. \A k \in DOMAIN loops' : loops'[k].inSlot => k = Len(loops) + 1
    BY <2>1, <2>2
  <2>4. active' # 0 /\ active' \in finished'
    BY <1>2, <1>3
  <2> QED
    BY <1>3, <2>3, <2>4 DEF Suspended
<1> QED
  BY <1>6, <1>7, <1>8, <1>9 DEF LimiterIInv

LEMMA HeadAnswerStep ==
    ASSUME LimiterIInv, HeadAnswer
    PROVE  LimiterIInv'
<1>1. LimiterTypeOK /\ TypeOK /\ OneInFlight /\ Suspended /\ Places
  BY DEF LimiterIInv, LimiterTypeOK
<1>2. PICK h \in heads :
        /\ ~h.answered
        /\ IF HeadCounts THEN RecordHit(FALSE) ELSE UNCHANGED log
        /\ heads' = (heads \ {h}) \cup
               {[h EXCEPT !.answered = TRUE,
                          !.hits = [it \in Items |-> Count(log', it, now)]]}
        /\ UNCHANGED <<now, managerVars, sent, replies, ghostVars, known, loops>>
  BY DEF HeadAnswer
<1>3. log' \in Seq(Hit)
  <2>1. CASE HeadCounts
    BY <1>1, <1>2, <2>1, RecordHitEffect
  <2>2. CASE ~HeadCounts
    BY <1>1, <1>2, <2>2 DEF TypeOK
  <2> QED
    BY <2>1, <2>2
<1> DEFINE counts == [it \in Items |-> Count(log', it, now)]
<1>4. counts \in [Items -> Nat]
  BY <1>1, <1>3, CountType DEF TypeOK
<1>5. heads' \subseteq Heads
  <2> HIDE DEF counts
  <2>1. heads' = (heads \ {h}) \cup {[h EXCEPT !.answered = TRUE, !.hits = counts]}
    BY <1>2 DEF counts
  <2>2. h \in Heads /\ heads \subseteq Heads
    BY <1>1 DEF LimiterTypeOK, Heads
  <2>3. [h EXCEPT !.answered = TRUE, !.hits = counts] \in Heads
    BY <1>4, <2>2 DEF Heads
  <2> QED
    BY <2>1, <2>2, <2>3
<1>6. UNCHANGED <<now, hasPolicy, hits, history, active, orphan, queue, timer, sent, replies,
                  submitted, finished, delivered, notBefore, known, loops>>
  BY <1>2 DEF managerVars, ghostVars
<1>7. TypeOK'
  BY <1>1, <1>3, <1>6 DEF TypeOK
<1>8. LimiterTypeOK'
  BY <1>1, <1>5, <1>6, <1>7 DEF LimiterTypeOK, Heads
<1>9. OneInFlight'
  BY <1>1, <1>6 DEF OneInFlight
<1>10. Places'
  BY <1>1, <1>6, PlacesKept DEF LoopIds
<1>11. Suspended'
  BY <1>1, <1>6, SuspendedKept
<1> QED
  BY <1>8, <1>9, <1>10, <1>11 DEF LimiterIInv

LEMMA HeadFinishedStep ==
    ASSUME LimiterIInv, HeadFinished
    PROVE  LimiterIInv'
<1>1. LimiterTypeOK /\ TypeOK /\ OneInFlight /\ Suspended /\ Places
  BY DEF LimiterIInv, LimiterTypeOK
<1>2. PICK h \in heads :
        /\ heads' = heads \ {h}
        /\ loops' = [k \in DOMAIN loops |->
               IF loops[k].id = h.id THEN [loops[k] EXCEPT !.done = TRUE, !.hits = h.hits]
                                     ELSE loops[k]]
        /\ UNCHANGED <<vars, known>>
  BY DEF HeadFinished
<1>3. UNCHANGED <<now, hasPolicy, hits, history, active, orphan, queue, timer, sent, replies,
                  log, submitted, finished, delivered, notBefore, known>>
  BY <1>2 DEF vars, managerVars, networkVars, ghostVars
<1>4. /\ DOMAIN loops' = DOMAIN loops /\ loops' \in Seq(Frames)
      /\ \A k \in DOMAIN loops : /\ loops'[k].id = loops[k].id
                                  /\ loops'[k].inSlot = loops[k].inSlot
  <2>1. h.hits \in [Items -> Nat]
    BY <1>1 DEF LimiterTypeOK
  <2>2. Len(loops) \in Nat /\ DOMAIN loops = 1..Len(loops)
        /\ \A k \in DOMAIN loops : loops[k] \in Frames
    BY <1>1, LoopFacts
  <2>3. ASSUME NEW k \in DOMAIN loops
        PROVE  /\ loops'[k] \in Frames
               /\ loops'[k].id = loops[k].id /\ loops'[k].inSlot = loops[k].inSlot
    BY <1>2, <2>1, <2>2 DEF Frames
  <2>4. DOMAIN loops' = DOMAIN loops /\ loops' = [k \in DOMAIN loops |-> loops'[k]]
    BY <1>2
  <2>5. loops' \in [1..Len(loops) -> Frames]
    BY <2>2, <2>3, <2>4
  <2>6. loops' \in Seq(Frames)
    BY <2>2, <2>5, SeqDef
  <2> QED
    BY <2>3, <2>4, <2>6
<1>5. heads' \subseteq Heads
  BY <1>1, <1>2 DEF LimiterTypeOK, Heads
<1>6. TypeOK'
  BY <1>1, <1>3 DEF TypeOK
<1>7. LimiterTypeOK'
  BY <1>1, <1>3, <1>4, <1>5, <1>6 DEF LimiterTypeOK, Heads, Frames
<1>8. OneInFlight'
  BY <1>1, <1>3 DEF OneInFlight
<1>9. Places'
  <2>1. LoopIds' = LoopIds
    BY <1>4 DEF LoopIds
  <2> QED
    BY <1>1, <1>3, <2>1, PlacesKept
<1>10. Suspended'
  BY <1>1, <1>3, <1>4 DEF Suspended
<1> QED
  BY <1>7, <1>8, <1>9, <1>10 DEF LimiterIInv

\* Its loop gone, a request is queued; it, or the first of the queue, becomes active only
\* in place of none or of a request that is answered.
LEMMA LoopReturnStep ==
    ASSUME LimiterIInv, LoopReturn
    PROVE  LimiterIInv'
<1>1. LimiterTypeOK /\ TypeOK /\ OneInFlight /\ Suspended /\ Places
  BY DEF LimiterIInv, LimiterTypeOK
<1> DEFINE top == loops[Len(loops)]
           q == Append(queue, top.id)
<1>2. /\ loops # <<>>
      /\ loops' = SubSeq(loops, 1, Len(loops) - 1)
      /\ known' = known \cup {top.endpoint}
      /\ hasPolicy' = TRUE /\ hits' = top.hits
      /\ IF active # 0 /\ ~top.inSlot
         THEN queue' = q /\ UNCHANGED <<active, orphan, timer>>
         ELSE ActivateRequest(q, top.hits, history)
      /\ UNCHANGED <<now, history, networkVars, ghostVars, heads>>
  BY DEF LoopReturn
<1>3. UNCHANGED <<now, history, sent, replies, log, submitted, finished, delivered, notBefore,
                  heads>>
  BY <1>2 DEF networkVars, ghostVars
<1>4. /\ Len(loops) \in Nat \ {0} /\ DOMAIN loops = 1..Len(loops)
      /\ loops \in Seq(Frames) /\ top \in Frames
      /\ LoopIds \in Seq(Nat) /\ Len(LoopIds) = Len(loops) /\ LoopIds # <<>>
      /\ LoopIds[Len(loops)] = top.id
  <2>1. /\ loops \in Seq(Frames) /\ LoopIds \in Seq(Nat) /\ Len(loops) \in Nat
        /\ DOMAIN loops = 1..Len(loops) /\ Len(LoopIds) = Len(loops)
        /\ \A k \in DOMAIN loops : loops[k] \in Frames /\ LoopIds[k] = loops[k].id
    BY <1>1, LoopFacts
  <2>2. Len(loops) # 0
    BY <1>2, <2>1, EmptySeq
  <2>3. LoopIds # <<>>
    BY <2>1, <2>2
  <2>4. Len(loops) \in DOMAIN loops
    BY <2>1, <2>2
  <2> QED
    BY <2>1, <2>2, <2>3, <2>4
<1>5. /\ loops' \in Seq(Frames) /\ DOMAIN loops' = 1..(Len(loops) - 1)
      /\ \A k \in 1..(Len(loops) - 1) : k \in DOMAIN loops /\ loops'[k] = loops[k]
  <2> DEFINE n == Len(loops) - 1
  <2>1. n \in Int /\ 1 \in Int /\ \A i \in 1..n : i \in DOMAIN loops /\ loops[i] \in Frames
    BY <1>4
  <2>2. n \in Nat /\ n <= Len(loops)
    BY <1>4
  <2>3. loops' = SubSeq(loops, 1, n)
    BY <1>2
  <2> HIDE DEF n
  <2>4. loops' \in Seq(Frames) /\ Len(loops') = n /\ DOMAIN loops' = 1..n
        /\ \A k \in 1..n : loops'[k] = loops[k]
    BY <1>4, <2>1, <2>2, <2>3, SubSeqProperties
  <2> QED
    BY <2>1, <2>4 DEF n
<1>6. top.id \in 1..submitted /\ top.id # active /\ top.id \notin finished
      /\ top.id \notin Ids(queue)
  <2>1. top.id \in Ids(LoopIds)
    BY <1>1, <1>4, LoopFacts DEF Ids
  <2> QED
    BY <1>1, <2>1 DEF Places
<1>7. /\ Distinct(LoopIds') /\ top.id \notin Ids(LoopIds')
      /\ Ids(LoopIds) = Ids(LoopIds') \cup {top.id}
  <2>1. DOMAIN LoopIds' = 1..(Len(loops) - 1)
        /\ \A k \in 1..(Len(loops) - 1) : LoopIds'[k] = LoopIds[k]
    BY <1>5 DEF LoopIds
  <2>2. Distinct(LoopIds)
    BY <1>1 DEF Places
  <2> HIDE DEF top
  <2> QED
    BY <1>4, <2>1, <2>2, FrontIds
<1>8. /\ q \in Seq(Nat \ {0}) /\ Distinct(q) /\ Ids(q) = Ids(queue) \cup {top.id}
  <2>1. queue \in Seq(Nat \ {0}) /\ Distinct(queue) /\ top.id \in Nat \ {0}
    BY <1>1, <1>6 DEF TypeOK, Places
  <2> HIDE DEF top
  <2> QED
    BY <1>6, <2>1, AppendIds, AppendProperties
<1> HIDE DEF top, q
<1>9. top.endpoint \in Endpoints /\ top.hits \in [Items -> Nat] /\ top.inSlot \in BOOLEAN
  BY <1>4 DEF Frames
<1>10. CASE active # 0 /\ ~top.inSlot
  <2>1. queue' = q /\ active' = active /\ orphan' = orphan /\ timer' = timer
    BY <1>2, <1>10
  <2>2. TypeOK'
    BY <1>1, <1>2, <1>3, <1>8, <1>9, <2>1 DEF TypeOK
  <2>3. LimiterTypeOK'
    BY <1>1, <1>2, <1>3, <1>5, <1>9, <2>2 DEF LimiterTypeOK, Frames
  <2>4. OneInFlight'
    BY <1>1, <1>3, <2>1 DEF OneInFlight
  <2>5. Places'
    <3>1. Ids(LoopIds)' = Ids(LoopIds') /\ Ids(queue)' = Ids(queue')
          /\ (Distinct(LoopIds)' <=> Distinct(LoopIds')) /\ (Distinct(queue)' <=> Distinct(queue'))
      BY DEF Ids, Distinct
    <3>2. Ids(queue') = Ids(queue) \cup {top.id} /\ Distinct(queue')
      BY <1>8, <2>1
    <3> QED
      BY <1>1, <1>3, <1>6, <1>7, <2>1, <3>1, <3>2 DEF Places
  <2>6. Suspended'
    BY <1>1, <1>3, <1>5, <2>1 DEF Suspended
  <2> QED
    BY <2>3, <2>4, <2>5, <2>6 DEF LimiterIInv
<1>11. CASE active = 0 \/ top.inSlot
  <2>1. ActivateRequest(q, top.hits, history)
    BY <1>2, <1>11
  <2>2. /\ Distinct(queue') /\ Ids(queue') \subseteq Ids(q)
        /\ Ids(q) \subseteq Ids(queue') \cup {active'}
        /\ active' \in Ids(q) \cup {0} /\ active' \notin Ids(queue')
    BY <1>8, <2>1, ActivateIds
  <2>3. /\ active' \in Nat /\ timer' \in Nat \cup {Off}
        /\ orphan' \in BOOLEAN /\ queue' \in Seq(Nat \ {0})
        /\ timer' # Off => active' # 0
    BY <1>1, <1>8, <1>9, <2>1, ActivateRequestEffect DEF TypeOK
  <2>4. sent = {} /\ replies = {} /\ (active = 0 \/ active \in finished)
    <3>1. CASE active = 0
      BY <1>1, <3>1 DEF OneInFlight, TypeOK, Reply
    <3>2. CASE top.inSlot
      BY <1>1, <1>4, <3>2 DEF Suspended, top
    <3> QED
      BY <1>11, <3>1, <3>2
  <2>5. \A k \in DOMAIN loops' : ~loops'[k].inSlot
    <3> SUFFICES ASSUME NEW k \in 1..(Len(loops) - 1), loops[k].inSlot PROVE FALSE
      BY <1>5
    <3>1. k \in DOMAIN loops /\ Len(loops) \in DOMAIN loops /\ k # Len(loops)
      <4>1. \A n \in Nat \ {0} : \A j \in 1..(n - 1) : j \in 1..n /\ n \in 1..n /\ j # n
        OBVIOUS
      <4> QED
        BY <1>4, <4>1, Zenon
    <3>2. active # 0
      BY <1>1, <3>1 DEF Suspended
    <3>3. loops[Len(loops)].inSlot
      BY <1>11, <3>2 DEF top
    <3> QED
      BY <1>1, <3>1, <3>3 DEF Suspended
  <2>6. TypeOK'
    BY <1>1, <1>2, <1>3, <1>9, <2>3 DEF TypeOK
  <2>7. LimiterTypeOK'
    BY <1>1, <1>2, <1>3, <1>5, <1>9, <2>6 DEF LimiterTypeOK, Frames
  <2>8. OneInFlight'
    BY <1>3, <2>3, <2>4 DEF OneInFlight
  <2>9. Places'
    <3>1. Ids(LoopIds)' = Ids(LoopIds') /\ Ids(queue)' = Ids(queue')
          /\ (Distinct(LoopIds)' <=> Distinct(LoopIds')) /\ (Distinct(queue)' <=> Distinct(queue'))
      BY DEF Ids, Distinct
    <3>2. 0 \notin 1..submitted /\ 0 \in 0..submitted /\ 1..submitted \subseteq 0..submitted
      BY <1>1 DEF TypeOK
    <3>3. /\ Ids(LoopIds) \cap Ids(queue) = {}
          /\ Ids(LoopIds) \cup Ids(queue) \subseteq (1..submitted) \ (finished \cup {active})
          /\ finished \subseteq 1..submitted
          /\ 1..submitted \subseteq Ids(LoopIds) \cup Ids(queue) \cup finished \cup {active}
      BY <1>1 DEF Places
    <3>4. Ids(LoopIds') \cap Ids(queue') = {}
      BY <1>6, <1>7, <1>8, <2>2, <3>3
    <3>5. Ids(LoopIds') \cup Ids(queue') \subseteq (1..submitted) \ (finished \cup {active'})
      BY <1>6, <1>7, <1>8, <2>2, <3>2, <3>3
    <3>6. active' \in 0..submitted
      BY <1>6, <1>8, <2>2, <3>2, <3>3
    <3>7. 1..submitted \subseteq Ids(LoopIds') \cup Ids(queue') \cup finished \cup {active'}
      BY <1>7, <1>8, <2>2, <2>4, <3>2, <3>3
    <3> QED
      BY <1>3, <1>7, <2>2, <3>1, <3>3, <3>4, <3>5, <3>6, <3>7 DEF Places
  <2>10. Suspended'
    BY <2>5 DEF Suspended
  <2> QED
    BY <2>7, <2>8, <2>9, <2>10 DEF LimiterIInv
<1> QED
  BY <1>9, <1>10, <1>11

-----------------------------------------------------------------------------
LEMMA LimiterInitHolds == LimiterInit => LimiterIInv
<1> SUFFICES ASSUME LimiterInit PROVE LimiterIInv
  OBVIOUS
<1>1. TypeOK /\ OneInFlight
  BY InitTypeOK DEF LimiterInit, Init, OneInFlight
<1>2. loops = <<>> /\ queue = <<>> /\ DOMAIN loops = {} /\ DOMAIN queue = {}
      /\ heads = {} /\ known = {} /\ active = 0 /\ submitted = 0 /\ finished = {}
  BY DEF LimiterInit, Init
<1>3. LimiterTypeOK
  <2>1. loops \in Seq(Frames)
    BY <1>2, EmptySeq
  <2> QED
    BY <1>1, <1>2, <2>1 DEF LimiterTypeOK, Frames
<1>4. Suspended
  BY <1>2 DEF Suspended
<1>5. Places
  <2>1. DOMAIN LoopIds = {}
    BY <1>2 DEF LoopIds
  <2>2. Ids(LoopIds) = {} /\ Ids(queue) = {} /\ Distinct(LoopIds) /\ Distinct(queue)
    BY <1>2, <2>1 DEF Ids, Distinct
  <2> QED
    BY <1>2, <2>2 DEF Places
<1> QED
  BY <1>1, <1>3, <1>4, <1>5 DEF LimiterIInv

LEMMA LimiterStutter ==
    ASSUME LimiterIInv, UNCHANGED allVars
    PROVE  LimiterIInv'
<1>1. UNCHANGED vars /\ UNCHANGED limiterVars
  BY DEF allVars
<1>2. TypeOK' /\ OneInFlight'
  BY <1>1, NextTypeOK, NextOneInFlight DEF LimiterIInv, LimiterTypeOK
<1>3. LimiterTypeOK'
  BY <1>1, <1>2, LimiterTypesKept DEF LimiterIInv
<1>4. UNCHANGED <<active, queue, submitted, finished, timer, sent, replies, loops>>
  BY <1>1 DEF vars, limiterVars, managerVars, networkVars, ghostVars
<1>5. Places'
  BY <1>4, PlacesKept DEF LimiterIInv, LoopIds
<1>6. Suspended'
  BY <1>4, SuspendedKept DEF LimiterIInv
<1> QED
  BY <1>2, <1>3, <1>5, <1>6 DEF LimiterIInv

LEMMA LimiterIInvIsInductive == LimiterIInv /\ [LimiterNext]_allVars => LimiterIInv'
BY SubmitUnknownStep, SubmitStep, ReceiveAndEnterStep, HeadAnswerStep, HeadFinishedStep,
   LoopReturnStep, ServiceStep, ReceiveStep, LimiterStutter DEF LimiterNext

LEMMA LimiterIInvHolds == LimiterSpec => []LimiterIInv
<1>1. LimiterInit => LimiterIInv
  BY LimiterInitHolds
<1>2. LimiterIInv /\ [LimiterNext]_allVars => LimiterIInv'
  BY LimiterIInvIsInductive
<1> QED
  BY <1>1, <1>2, PTL DEF LimiterSpec

\* With a place for every request and none in two, each is pending once or answered.
LEMMA PlacesCount ==
    ASSUME TypeOK, LoopIds \in Seq(Nat), DOMAIN LoopIds = DOMAIN loops, Places
    PROVE  ExactlyOnePlace
<1> SUFFICES ASSUME NEW id \in 1..submitted
             PROVE  Pending(id) = IF id \in finished THEN 0 ELSE 1
  BY DEF ExactlyOnePlace
<1>1. {k \in DOMAIN loops : loops[k].id = id} = {k \in DOMAIN LoopIds : LoopIds[k] = id}
  BY DEF LoopIds
<1>2. Cardinality({k \in DOMAIN loops : loops[k].id = id}) = IF id \in Ids(LoopIds) THEN 1 ELSE 0
  BY <1>1, CountInDistinct DEF Places
<1>3. Cardinality({k \in DOMAIN queue : queue[k] = id}) = IF id \in Ids(queue) THEN 1 ELSE 0
  BY CountInDistinct DEF Places
<1>4. /\ ~(id \in Ids(LoopIds) /\ id \in Ids(queue))
      /\ id \in Ids(LoopIds) \/ id \in Ids(queue) => id \notin finished /\ id # active
      /\ id \in Ids(LoopIds) \/ id \in Ids(queue) \/ id \in finished \/ id = active
  BY DEF Places
<1> QED
  BY <1>2, <1>3, <1>4 DEF Pending

(***************************************************************************)
(* However many nested loops of SetupEndpoint run inside each other and    *)
(* inside ReceiveReply, each request is waiting in exactly one place until *)
(* it is answered: ProcessHeadResponse, QueueRequest and ActivateRequest   *)
(* lose none and repeat none.                                              *)
(***************************************************************************)
THEOREM LimiterInvHolds == LimiterSpec => []LimiterInv
<1>1. LimiterIInv => LimiterInv
  BY LoopFacts, PlacesCount DEF LimiterIInv, LimiterInv
<1> QED
  BY <1>1, LimiterIInvHolds, PTL

(***************************************************************************)
(* Nor do the nested loops make two requests of the policy overlap, though *)
(* they call the manager while it is in the middle of ReceiveReply.        *)
(***************************************************************************)
THEOREM LimiterOneInFlight == LimiterSpec => []OneInFlight
<1>1. LimiterIInv => OneInFlight
  BY DEF LimiterIInv
<1> QED
  BY <1>1, LimiterIInvHolds, PTL
=============================================================================
