---------------------------- MODULE RequestQueue ----------------------------
(***************************************************************************)
(* What a RateLimitManager is to its callers: one line of requests, which  *)
(* are answered one at a time and strictly in turn.  When the request is   *)
(* answered its caller is called back, and may make another request before *)
(* that call returns; the caller of a request that had to be sent again is *)
(* not called.  Nothing is said of policies, timers, replies or errors.    *)
(* RateLimitManager implements this specification.                         *)
(***************************************************************************)
EXTENDS Integers, Sequences

VARIABLES
    line,        \* the requests not answered yet, the next one first
    submitted,   \* how many requests have been made; they are numbered in turn
    finished,    \* the requests that have been answered
    delivered    \* the requests whose caller was called back, in order

queueVars == <<line, submitted, finished, delivered>>

QueueInit == line = <<>> /\ submitted = 0 /\ finished = {} /\ delivered = <<>>

\* A request, and none; the next one of a caller that is called back.
Newcomers(n) == [k \in 1..n |-> submitted + k]

Join ==
    /\ line' = line \o Newcomers(1) /\ submitted' = submitted + 1
    /\ UNCHANGED <<finished, delivered>>

Serve ==
    /\ line # <<>>
    /\ finished' = finished \cup {Head(line)}
    /\ \/ /\ delivered' = Append(delivered, Head(line))
          /\ \E n \in 0..1 :
                line' = Tail(line) \o Newcomers(n) /\ submitted' = submitted + n
       \/ /\ line' = Tail(line)
          /\ UNCHANGED <<delivered, submitted>>

QueueNext == Join \/ Serve

QueueSpec == QueueInit /\ [][QueueNext]_queueVars

-----------------------------------------------------------------------------
(***************************************************************************)
(* First come, first served: what was delivered and what stands in line    *)
(* is in the order of submission, none twice, and a request leaves the     *)
(* line only once it has been answered.                                    *)
(***************************************************************************)
InOrder(seq) == \A i, j \in DOMAIN seq : i < j => seq[i] < seq[j]

ServedInTurn ==
    /\ InOrder(delivered \o line)
    /\ \A i \in DOMAIN (delivered \o line) : (delivered \o line)[i] <= submitted
    /\ \A id \in 1..submitted : id \in finished \/ \E i \in DOMAIN line : line[i] = id
=============================================================================
