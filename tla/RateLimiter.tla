---------------------------- MODULE RateLimiter ----------------------------
(***************************************************************************)
(* The sliding-window limiter.  rateLimit reads the clock, then records a  *)
(* hit under the caller's identifier and counts.  In the memory store the  *)
(* two are one synchronous step (Delay = 0).  The Upstash store sends a    *)
(* pipeline of commands, which lands later, out of order, or not at all.   *)
(* Of a pipeline that ran only the HTTP status is looked at: a command of  *)
(* it may have failed, and what it should have answered counts as zero.    *)
(***************************************************************************)
EXTENDS Integers, FiniteSets

CONSTANTS
  Requests,     \* the requests ever made, each asks once
  Identifiers,  \* key fingerprints, login addresses
  Limit,        \* limit
  Window,       \* windowMs
  Delay,        \* longest time a pipeline is under way
  MaxTime       \* bound on the clock

ASSUME LimiterAssumption ==
  /\ IsFiniteSet(Requests)
  /\ Limit \in Nat \ {0} /\ Window \in Nat \ {0} /\ Delay \in Nat /\ MaxTime \in Nat

VARIABLES
  now,       \* Date.now()
  asked,     \* requests that have asked
  flying,    \* hits under way
  store,     \* hits recorded, of every identifier
  expires,   \* PEXPIRE of the identifier's key
  admitted,  \* history: hits answered ok
  broken     \* history: of those, the ones a command of whose pipeline failed

limiterVars == <<now, asked, flying, store, expires, admitted, broken>>

\* The random member of the sorted set is the request.
Hits == [by : Requests, id : Identifiers, stamp : 0 .. MaxTime]

LimiterInit ==
  /\ now = 0 /\ asked = {} /\ flying = {} /\ store = {}
  /\ admitted = {} /\ broken = {}
  /\ expires = [i \in Identifiers |-> 0]

\* A pipeline does not take longer than Delay.
Tick ==
  /\ now < MaxTime
  /\ \A h \in flying : now < h.stamp + Delay
  /\ now' = now + 1
  /\ UNCHANGED <<asked, flying, store, expires, admitted, broken>>

\* rateLimit reads the clock.
Ask(r, id) ==
  /\ r \notin asked
  /\ asked' = asked \cup {r}
  /\ flying' = flying \cup {[by |-> r, id |-> id, stamp |-> now]}
  /\ UNCHANGED <<now, store, expires, admitted, broken>>

\* ZREMRANGEBYSCORE, ZADD, ZCARD, PEXPIRE.
Commands == {"trim", "add", "count", "expire"}

\* What is left of the identifier's hits when hit h is recorded and the
\* commands of f fail.
Kept(h, f) ==
  {g \in store : /\ g.id = h.id /\ expires[h.id] > now
                 /\ "trim" \in f \/ g.stamp > h.stamp - Window}

Others(h) == {g \in store : g.id # h.id}
Recorded(h, f) == IF "add" \in f THEN Kept(h, f) ELSE Kept(h, f) \cup {h}

\* A key made anew has no expiry until it is given one.
Never == MaxTime + Window
Expiry(h, f) == IF "expire" \notin f THEN now + Window
                ELSE IF Kept(h, f) = {} THEN Never ELSE expires[h.id]

IsOkLoose(h, f) == "count" \in f \/ Cardinality(Kept(h, f)) <= Limit
IsOk(h, f) == "count" \in f \/ Cardinality(Recorded(h, f)) <= Limit

Record(h, f) ==
  /\ h \in flying
  /\ flying' = flying \ {h}
  /\ store' = Others(h) \cup Recorded(h, f)
  /\ expires' = [expires EXCEPT ![h.id] = Expiry(h, f)]
  /\ UNCHANGED <<now, asked>>

\* Nothing is lost of a hit whose old fellows were not removed.
Harmless == {"trim"}

Admit(h) ==
  \E f \in SUBSET Commands :
    /\ Record(h, f) /\ IsOk(h, f)
    /\ admitted' = admitted \cup {h}
    /\ broken' = IF f \subseteq Harmless THEN broken ELSE broken \cup {h}

\* A refused hit is recorded as well.
Refuse(h) ==
  \E f \in SUBSET Commands :
    Record(h, f) /\ ~IsOk(h, f) /\ UNCHANGED <<admitted, broken>>

\* The pipeline fails: its answer is lost, or it never ran.
FailStore(h) ==
  /\ UNCHANGED <<admitted, broken>>
  /\ \/ \E f \in SUBSET Commands : Record(h, f)
     \/ /\ h \in flying
        /\ flying' = flying \ {h}
        /\ UNCHANGED <<now, asked, store, expires>>

LimiterNext ==
  \/ Tick
  \/ \E r \in Requests, id \in Identifiers : Ask(r, id)
  \/ \E h \in flying : Admit(h) \/ Refuse(h) \/ FailStore(h)

LimiterSpec == LimiterInit /\ [][LimiterNext]_limiterVars

-----------------------------------------------------------------------------

LimiterTypeOK ==
  /\ now \in 0 .. MaxTime
  /\ asked \subseteq Requests
  /\ flying \subseteq Hits /\ store \subseteq Hits
  /\ admitted \subseteq Hits /\ broken \subseteq admitted
  /\ expires \in [Identifiers -> 0 .. MaxTime + Window]

\* The span in which late answers cannot have dropped a hit yet.
Span == Window - Delay

\* Hits of an identifier admitted in the span that ends at t.
AdmittedIn(id, t) == {h \in admitted : h.id = id /\ t - Span < h.stamp /\ h.stamp <= t}

(***************************************************************************)
(* However the pipelines of concurrent requests overtake one another, no   *)
(* identifier is admitted more than Limit times within a window, less the  *)
(* time a pipeline may take: a hit stamped earlier that lands later does   *)
(* not find the hits a later stamp has removed.  A pipeline one of whose   *)
(* commands failed may let its own request in on top of these, but never   *)
(* another's (redis-rate-limit.ts, hit).                                   *)
(***************************************************************************)
NeverOverLimit ==
  \A id \in Identifiers, t \in 0 .. MaxTime :
    Cardinality(AdmittedIn(id, t)) <= Limit + Cardinality(AdmittedIn(id, t) \cap broken)

=============================================================================
