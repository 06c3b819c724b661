--------------------------- MODULE RequestLoop_proofs ---------------------------
(***************************************************************************)
(* What holds of the requests of a process for any number of requests,     *)
(* accounts, faults and edits: the betas of a request, who rests, where an  *)
(* uploaded file belongs, the trackers, and the attempts of a request.      *)
(***************************************************************************)
EXTENDS RequestLoop, AccountFile_proofs

\* A request has these fields, whatever is in them.
Fields == {"step", "account", "attempt", "max", "skip", "without", "retries",
           "result", "tried", "disturbed"}
Shaped(q) == q = [f \in Fields |-> q[f]]

Requested(reqs) ==
    /\ reqs = [r \in Request |-> reqs[r]]
    /\ \A r \in Request : Shaped(reqs[r])

\* The states that a request is put in.
LEMMA NewRequests ==
    /\ Shaped(NotStarted) /\ NotStarted.step = "idle" /\ NotStarted.without = 0
    /\ \A q, result : /\ Shaped(End(q, result)) /\ End(q, result).step = "ended"
                      /\ End(q, result).without = 0
BY DEF NotStarted, End, Shaped, Fields

LEMMA TryingIs ==
    ASSUME NEW q, Shaped(q), NEW a, NEW m
    PROVE  /\ Shaped(Trying(q, a, m))
           /\ Trying(q, a, m).step \in {"sent", "refreshing"}
           /\ Trying(q, a, m).without = excluded
           /\ Trying(q, a, m).account = a
BY DEF Trying, Shaped, Fields

\* A new attempt, or the end, of request r leaves the others alone.
LEMMA AttemptIs ==
    ASSUME NEW r \in Request, NEW reqs, Requested(reqs), NEW q, Shaped(q), NEW m,
           Attempt(r, reqs, q, m)
    PROVE  /\ Requested(req')
           /\ \A s \in Request \ {r} : req'[s] = reqs[s]
           /\ req'[r].step \in {"sent", "refreshing", "ended"}
           /\ req'[r].without \in {0, excluded}
<1>1. ASSUME NEW new, Shaped(new), req' = [reqs EXCEPT ![r] = new]
      PROVE  /\ Requested(req')
             /\ \A s \in Request \ {r} : req'[s] = reqs[s]
             /\ req'[r] = new
  BY <1>1 DEF Requested
<1>2. ASSUME NEW result, req' = [reqs EXCEPT ![r] = End(q, result)]
      PROVE  /\ Requested(req')
             /\ \A s \in Request \ {r} : req'[s] = reqs[s]
             /\ req'[r].step = "ended" /\ req'[r].without = 0
  BY <1>1, <1>2, NewRequests
<1>3. ASSUME NEW a, NEW chosen, req' = [reqs EXCEPT ![r] = Trying(q, a, chosen)]
      PROVE  /\ Requested(req')
             /\ \A s \in Request \ {r} : req'[s] = reqs[s]
             /\ req'[r].step \in {"sent", "refreshing"} /\ req'[r].without = excluded
  <2>1. PICK new : new = Trying(q, a, chosen)
    OBVIOUS
  <2>2. Shaped(new) /\ new.step \in {"sent", "refreshing"} /\ new.without = excluded
    BY <2>1, TryingIs
  <2> QED
    BY <1>1, <1>3, <2>1, <2>2
<1>4. CASE \E result : req' = [reqs EXCEPT ![r] = End(q, result)]
  BY <1>2, <1>4
<1>5. CASE \E a, chosen : req' = [reqs EXCEPT ![r] = Trying(q, a, chosen)]
  BY <1>3, <1>5
<1> QED
  BY <1>4, <1>5 DEF Attempt

\* A sync does not change what other requests do.
LEMMA DisturbIs ==
    ASSUME NEW m, Requested(req)
    PROVE  /\ Requested(Disturb(m))
           /\ \A s \in Request : /\ Disturb(m)[s].step = req[s].step
                                 /\ Disturb(m)[s].without = req[s].without
<1>1. ASSUME NEW s \in Request
      PROVE  /\ Shaped(Disturb(m)[s])
             /\ Disturb(m)[s].step = req[s].step
             /\ Disturb(m)[s].without = req[s].without
  <2>1. \E d : Disturb(m)[s] = [req[s] EXCEPT !.disturbed = d]
    BY DEF Disturb
  <2>2. Shaped(req[s])
    BY DEF Requested
  <2> QED
    BY <2>1, <2>2 DEF Shaped, Fields
<1>2. Disturb(m) = [s \in Request |-> Disturb(m)[s]]
  BY DEF Disturb
<1> QED
  BY <1>1, <1>2 DEF Requested

------------------------------------------------------------------------------
(* The betas of a request                                                  *)

\* When its headers were built, no more betas were excluded than are now.
Excluded(reqs, n) ==
    /\ Requested(reqs)
    /\ n \in Nat
    /\ \A r \in Request : reqs[r].without \in 0..n

MoreExcluded(reqs, next) ==
    \A r \in Request :
        next[r].step = "longRetry" =>
            \/ reqs[r].step = "longRetry"
            \/ reqs[r].step = "sent" /\ reqs[r].without < next[r].without

\* Request r changes: it is not put into the retry of a long-context error.
LEMMA OneRequest ==
    ASSUME NEW r \in Request, Excluded(req, excluded), Requested(req'),
           UNCHANGED excluded,
           \A s \in Request \ {r} : /\ req'[s].step = req[s].step
                                    /\ req'[s].without = req[s].without,
           req'[r].step # "longRetry" \/ req[r].step = "longRetry",
           req'[r].without \in {0, excluded, req[r].without}
    PROVE  Excluded(req', excluded') /\ MoreExcluded(req, req')
<1>1. ASSUME NEW s \in Request
      PROVE  req'[s].without \in 0..excluded
  <2>1. req[s].without \in 0..excluded /\ excluded \in Nat
    BY DEF Excluded
  <2>2. CASE s = r
    BY <2>1, <2>2
  <2>3. CASE s # r
    BY <2>1, <2>3
  <2> QED
    BY <2>2, <2>3
<1>2. MoreExcluded(req, req')
  BY DEF MoreExcluded
<1> QED
  BY <1>1, <1>2 DEF Excluded

\* The same for a request that becomes new.
LEMMA BecomesNew ==
    ASSUME NEW r \in Request, Excluded(req, excluded), UNCHANGED excluded,
           NEW new, Shaped(new), req' = [req EXCEPT ![r] = new],
           new.step # "longRetry" \/ req[r].step = "longRetry",
           new.without \in {0, excluded, req[r].without}
    PROVE  Excluded(req', excluded') /\ MoreExcluded(req, req')
<1>1. /\ Requested(req')
      /\ \A s \in Request \ {r} : req'[s] = req[s]
      /\ req'[r] = new
  BY DEF Excluded, Requested
<1> QED
  BY <1>1, OneRequest

\* The same for a request that goes on to its next attempt.
LEMMA NextAttempt ==
    ASSUME NEW r \in Request, Excluded(req, excluded), UNCHANGED excluded,
           NEW q, Shaped(q), NEW m, Attempt(r, req, q, m)
    PROVE  Excluded(req', excluded') /\ MoreExcluded(req, req')
BY AttemptIs, OneRequest DEF Excluded

\* Init and every step keep the betas in order, and no step breaks the rule.
LEMMA ExcludedAtFirst == Init => Excluded(req, excluded)
BY NewRequests DEF Init, Excluded, Requested

LEMMA ExcludedInBegin ==
    ASSUME Excluded(req, excluded), NEW r \in Request, NEW withFile \in BOOLEAN,
           Begin(r, withFile)
    PROVE  Excluded(req', excluded') /\ MoreExcluded(req, req')
<1>1. PICK m : /\ \/ \E q : Shaped(q) /\ Attempt(r, Disturb(m), q, m)
                  \/ \E q, a : /\ Shaped(q)
                               /\ req' = [Disturb(m) EXCEPT ![r] = Trying(q, a, m)]
  <2> DEFINE m == IF session.pinned THEN mem ELSE Sync(mem)
             q == [NotStarted EXCEPT !.max = Len(m.rows)]
  <2>1. Shaped(q)
    BY DEF Shaped, NotStarted, Fields
  <2> QED
    BY <2>1 DEF Begin
<1>2. PICK reqs : reqs = Disturb(m)
  OBVIOUS
<1>3. /\ Requested(reqs)
      /\ \A s \in Request : reqs[s].step = req[s].step /\ reqs[s].without = req[s].without
  BY <1>2, DisturbIs DEF Excluded
<1>4. UNCHANGED excluded
  BY DEF Begin
<1>5. /\ Requested(req')
      /\ \A s \in Request \ {r} : req'[s] = reqs[s]
      /\ req'[r].step \in {"sent", "refreshing", "ended"}
      /\ req'[r].without \in {0, excluded}
  <2>1. CASE \E q : Shaped(q) /\ Attempt(r, Disturb(m), q, m)
    BY <2>1, <1>2, <1>3, AttemptIs
  <2>2. CASE \E q, a : /\ Shaped(q)
                       /\ req' = [Disturb(m) EXCEPT ![r] = Trying(q, a, m)]
    <3>1. PICK new : /\ Shaped(new) /\ new.step \in {"sent", "refreshing"}
                     /\ new.without = excluded
                     /\ req' = [reqs EXCEPT ![r] = new]
      <4>1. PICK q, a : Shaped(q) /\ req' = [reqs EXCEPT ![r] = Trying(q, a, m)]
        BY <2>2, <1>2
      <4>2. PICK new : new = Trying(q, a, m)
        OBVIOUS
      <4>3. /\ Shaped(new) /\ new.step \in {"sent", "refreshing"}
            /\ new.without = excluded
        BY <4>1, <4>2, TryingIs
      <4> QED
        BY <4>1, <4>2, <4>3
    <3> QED
      BY <3>1, <1>3 DEF Requested
  <2> QED
    BY <2>1, <2>2, <1>1
<1> QED
  BY <1>3, <1>4, <1>5, OneRequest

LEMMA ExcludedInRefresh ==
    ASSUME Excluded(req, excluded), NEW r \in Request, RefreshEnds(r)
    PROVE  Excluded(req', excluded') /\ MoreExcluded(req, req')
<1>1. PICK q : q = req[r] /\ Shaped(q)
  BY DEF Excluded, Requested
<1>2. UNCHANGED excluded
  BY DEF RefreshEnds
<1>3. CASE req' = [req EXCEPT ![r] = [q EXCEPT !.step = "sent", !.without = excluded]]
  <2>1. PICK new : new = [q EXCEPT !.step = "sent", !.without = excluded]
    OBVIOUS
  <2>2. Shaped(new) /\ new.step = "sent" /\ new.without = excluded
    BY <1>1, <2>1 DEF Shaped, Fields
  <2> QED
    BY <1>2, <1>3, <2>1, <2>2, BecomesNew
<1>4. CASE \E x, m : Attempt(r, req, [q EXCEPT !.skip = x], m)
  <2>1. PICK x, m : Attempt(r, req, [q EXCEPT !.skip = x], m)
    BY <1>4
  <2>2. PICK new : new = [q EXCEPT !.skip = x]
    OBVIOUS
  <2>3. Shaped(new)
    BY <1>1, <2>2 DEF Shaped, Fields
  <2> QED
    BY <1>1, <1>2, <2>1, <2>2, <2>3, NextAttempt
<1>5. CASE \E m : Attempt(r, req, q, m)
  BY <1>1, <1>2, <1>5, NextAttempt
<1> QED
  BY <1>1, <1>3, <1>4, <1>5 DEF RefreshEnds

LEMMA ExcludedInNetworkError ==
    ASSUME Excluded(req, excluded), NEW r \in Request, NetworkError(r)
    PROVE  Excluded(req', excluded') /\ MoreExcluded(req, req')
<1>1. PICK q : q = req[r] /\ Shaped(q)
  BY DEF Excluded, Requested
<1>2. UNCHANGED excluded
  BY DEF NetworkError
<1>3. CASE req' = [req EXCEPT ![r].retries = @ + 1]
  <2>1. PICK new : new = [q EXCEPT !.retries = q.retries + 1]
    OBVIOUS
  <2>2. Shaped(new) /\ new.step = q.step /\ new.without = q.without
    BY <1>1, <2>1 DEF Shaped, Fields
  <2>3. req' = [req EXCEPT ![r] = new]
    BY <1>1, <1>3, <2>1
  <2>4. new.step = "sent"
    BY <1>1, <2>2 DEF NetworkError
  <2> QED
    BY <1>1, <1>2, <2>2, <2>3, <2>4, BecomesNew
<1>4. CASE \E x, m : Attempt(r, req, [q EXCEPT !.skip = x], m)
  <2>1. PICK x, m : Attempt(r, req, [q EXCEPT !.skip = x], m)
    BY <1>4
  <2>2. PICK new : new = [q EXCEPT !.skip = x]
    OBVIOUS
  <2>3. Shaped(new)
    BY <1>1, <2>2 DEF Shaped, Fields
  <2> QED
    BY <1>1, <1>2, <2>1, <2>2, <2>3, NextAttempt
<1> QED
  BY <1>1, <1>3, <1>4 DEF NetworkError

LEMMA ExcludedInReceive ==
    ASSUME Excluded(req, excluded), NEW r \in Request, NEW answer \in Answers,
           Receive(r, answer)
    PROVE  Excluded(req', excluded') /\ MoreExcluded(req, req')
<1>1. PICK q : q = req[r] /\ Shaped(q)
  BY DEF Excluded, Requested
<1>2. CASE Success(r, answer)
  <2>1. PICK new : new = [q EXCEPT !.step = "streaming"]
    OBVIOUS
  <2>2. Shaped(new) /\ new.step = "streaming" /\ new.without = q.without
    BY <1>1, <2>1 DEF Shaped, Fields
  <2>3. req' = [req EXCEPT ![r] = new] /\ UNCHANGED excluded
    BY <1>1, <1>2, <2>1 DEF Success
  <2> QED
    BY <1>1, <2>2, <2>3, BecomesNew
<1>3. CASE AccountError(r, answer)
  <2>1. PICK x, m : Attempt(r, req, [q EXCEPT !.skip = x], m)
    BY <1>1, <1>3 DEF AccountError
  <2>2. PICK new : new = [q EXCEPT !.skip = x]
    OBVIOUS
  <2>3. UNCHANGED excluded
    BY <1>3 DEF AccountError
  <2>4. Shaped(new)
    BY <1>1, <2>2 DEF Shaped, Fields
  <2> QED
    BY <1>1, <2>1, <2>2, <2>3, <2>4, NextAttempt
<1>4. CASE ServiceError(r, answer)
  <2>1. UNCHANGED excluded
    BY <1>4 DEF ServiceError
  <2>2. CASE \E x : req' = [req EXCEPT ![r] = [q EXCEPT !.step = "serviceRetry",
                                                        !.retries = x]]
    <3>1. PICK x : req' = [req EXCEPT ![r] = [q EXCEPT !.step = "serviceRetry",
                                                       !.retries = x]]
      BY <2>2
    <3>2. PICK new : new = [q EXCEPT !.step = "serviceRetry", !.retries = x]
      OBVIOUS
    <3>3. Shaped(new) /\ new.step = "serviceRetry" /\ new.without = q.without
      BY <1>1, <3>2 DEF Shaped, Fields
    <3> QED
      BY <1>1, <2>1, <3>1, <3>2, <3>3, BecomesNew
  <2>3. CASE req' = [req EXCEPT ![r] = End(q, "responded")]
    <3>1. PICK new : new = End(q, "responded")
      OBVIOUS
    <3> QED
      BY <1>1, <2>1, <2>3, <3>1, NewRequests, BecomesNew
  <2> QED
    BY <1>1, <1>4, <2>2, <2>3 DEF ServiceError
<1>5. CASE LongContextError(r, answer)
  <2>1. CASE excluded < MaxBetas
    <3>1. PICK new : new = [q EXCEPT !.step = "longRetry", !.without = excluded + 1]
      OBVIOUS
    <3>2. Shaped(new) /\ new.step = "longRetry" /\ new.without = excluded + 1
      BY <1>1, <3>1 DEF Shaped, Fields
    <3>3. excluded' = excluded + 1 /\ req' = [req EXCEPT ![r] = new] /\ q.step = "sent"
      BY <1>1, <1>5, <2>1, <3>1 DEF LongContextError
    <3>4. /\ Requested(req') /\ req'[r] = new
          /\ \A s \in Request \ {r} : req'[s] = req[s]
      BY <3>2, <3>3 DEF Excluded, Requested
    <3>5. q.without < new.without
      BY <1>1, <3>2 DEF Excluded
    <3>6. MoreExcluded(req, req')
      BY <1>1, <3>3, <3>4, <3>5 DEF MoreExcluded
    <3>7. ASSUME NEW s \in Request
          PROVE  req'[s].without \in 0..excluded + 1
      <4>1. req[s].without \in 0..excluded /\ excluded \in Nat
        BY DEF Excluded
      <4>2. CASE s = r
        BY <3>2, <3>4, <4>1, <4>2
      <4>3. CASE s # r
        BY <3>4, <4>1, <4>3
      <4> QED
        BY <4>2, <4>3
    <3>8. excluded' \in Nat
      BY <3>3 DEF Excluded
    <3> QED
      BY <3>3, <3>4, <3>6, <3>7, <3>8 DEF Excluded
  <2>2. CASE ~(excluded < MaxBetas)
    <3>1. PICK new : new = End(q, "responded")
      OBVIOUS
    <3>2. UNCHANGED excluded /\ req' = [req EXCEPT ![r] = new]
      BY <1>1, <1>5, <2>2, <3>1 DEF LongContextError
    <3> QED
      BY <1>1, <3>1, <3>2, NewRequests, BecomesNew
  <2> QED
    BY <2>1, <2>2
<1>6. CASE OtherError(r, answer)
  <2>1. PICK new : new = End(q, "responded")
    OBVIOUS
  <2>2. UNCHANGED excluded /\ req' = [req EXCEPT ![r] = new]
    BY <1>1, <1>6, <2>1 DEF OtherError
  <2> QED
    BY <1>1, <2>1, <2>2, NewRequests, BecomesNew
<1> QED
  BY <1>2, <1>3, <1>4, <1>5, <1>6 DEF Receive

LEMMA ExcludedInRest ==
    ASSUME Excluded(req, excluded), NEW r \in Request,
           RetryNetworkError(r) \/ StreamEnds(r)
    PROVE  Excluded(req', excluded') /\ MoreExcluded(req, req')
<1>1. PICK q : q = req[r] /\ Shaped(q)
  BY DEF Excluded, Requested
<1>2. UNCHANGED excluded
  BY DEF RetryNetworkError, StreamEnds
<1>3. CASE req' = [req EXCEPT ![r].retries = @ + 1] /\ q.step = "serviceRetry"
  <2>1. PICK new : new = [q EXCEPT !.retries = q.retries + 1]
    OBVIOUS
  <2>2. Shaped(new) /\ new.step = q.step /\ new.without = q.without
    BY <1>1, <2>1 DEF Shaped, Fields
  <2>3. req' = [req EXCEPT ![r] = new]
    BY <1>1, <1>3, <2>1
  <2> QED
    BY <1>1, <1>2, <1>3, <2>2, <2>3, BecomesNew
<1>4. CASE \E result : req' = [req EXCEPT ![r] = End(q, result)]
  <2>1. PICK result : req' = [req EXCEPT ![r] = End(q, result)]
    BY <1>4
  <2>2. PICK new : new = End(q, result)
    OBVIOUS
  <2> QED
    BY <1>1, <1>2, <2>1, <2>2, NewRequests, BecomesNew
<1>5. StreamEnds(r) => \E result : req' = [req EXCEPT ![r] = End(q, result)]
  BY <1>1 DEF StreamEnds
<1>6. RetryNetworkError(r) =>
         \/ req' = [req EXCEPT ![r].retries = @ + 1] /\ q.step = "serviceRetry"
         \/ \E result : req' = [req EXCEPT ![r] = End(q, result)]
  BY <1>1 DEF RetryNetworkError
<1> QED
  BY <1>3, <1>4, <1>5, <1>6

LEMMA ExcludedOutside ==
    ASSUME Excluded(req, excluded), UNCHANGED <<req, excluded>>
    PROVE  Excluded(req', excluded') /\ MoreExcluded(req, req')
BY DEF Excluded, Requested, MoreExcluded

LEMMA ExcludedInEveryStep ==
    ASSUME Excluded(req, excluded), [Next]_vars
    PROVE  Excluded(req', excluded') /\ MoreExcluded(req, req')
<1>1. CASE \E r \in Request, withFile \in BOOLEAN : Begin(r, withFile)
  BY <1>1, ExcludedInBegin
<1>2. CASE \E r \in Request : Step(r)
  BY <1>2, ExcludedInRefresh, ExcludedInNetworkError, ExcludedInReceive, ExcludedInRest DEF Step
<1>3. CASE \E a \in Account : Expire(a)
  BY <1>3, ExcludedOutside DEF Expire
<1>4. CASE Save
  BY <1>4, ExcludedOutside DEF Save
<1>5. CASE OtherWrites
  BY <1>5, ExcludedOutside DEF OtherWrites
<1>6. CASE UNCHANGED vars
  BY <1>6, ExcludedOutside DEF vars
<1> QED
  BY <1>1, <1>2, <1>3, <1>4, <1>5, <1>6 DEF Next

\* A header loses nothing but betas that are excluded, and it loses the next one
\* of the order if it had it.
LEMMA NextIsDropped ==
    ASSUME NEW n \in Nat, NEW m \in Nat, n < m,
           NEW present \in SUBSET (1 .. MaxBetas)
    PROVE  LET before == present \ (1 .. n)
               after  == present \ (1 .. m)
           IN  /\ after \subseteq before
               /\ n + 1 \in present => n + 1 \in before \ after
<1>1. 1 .. n \subseteq 1 .. m
  OBVIOUS
<1>2. n + 1 \notin 1 .. n /\ n + 1 \in 1 .. m
  OBVIOUS
<1> QED
  BY <1>1, <1>2

\* A request that gets a long-context error is sent once more, without the beta
\* that comes next in the order if it was sent with it
\* (src/request-orchestration-helpers.ts), although other requests exclude betas
\* between its first try and the error.
THEOREM RetriesDropNext == Spec => LongContextRetryDropsNext
<1>1. Init => Excluded(req, excluded)
  BY ExcludedAtFirst
<1>2. Excluded(req, excluded) /\ [Next]_vars => (Excluded(req, excluded))'
  BY ExcludedInEveryStep
<1>3. Excluded(req, excluded) /\ [Next]_vars =>
         [\A r \in Request :
            req'[r].step = "longRetry" =>
                \/ req[r].step = "longRetry"
                \/ /\ req[r].step = "sent"
                   /\ \A present \in SUBSET (1 .. MaxBetas) :
                          LET before == present \ (1 .. req[r].without)
                              after  == present \ (1 .. req'[r].without)
                          IN  /\ after \subseteq before
                              /\ req[r].without + 1 \in present =>
                                     req[r].without + 1 \in before \ after]_vars
  <2> SUFFICES ASSUME Excluded(req, excluded), [Next]_vars, NEW r \in Request,
                      req'[r].step = "longRetry", req[r].step # "longRetry",
                      NEW present \in SUBSET (1 .. MaxBetas)
               PROVE  /\ req[r].step = "sent"
                      /\ LET before == present \ (1 .. req[r].without)
                             after  == present \ (1 .. req'[r].without)
                         IN  /\ after \subseteq before
                             /\ req[r].without + 1 \in present =>
                                    req[r].without + 1 \in before \ after
    OBVIOUS
  <2>1. Excluded(req', excluded') /\ MoreExcluded(req, req')
    BY ExcludedInEveryStep
  <2>2. req[r].step = "sent" /\ req[r].without < req'[r].without
    BY <2>1 DEF MoreExcluded
  <2>3. req[r].without \in Nat /\ req'[r].without \in Nat
    BY <2>1 DEF Excluded
  <2> QED
    BY <2>2, <2>3, NextIsDropped
<1> QED
  BY <1>1, <1>2, <1>3, PTL DEF Spec, LongContextRetryDropsNext

------------------------------------------------------------------------------
(* The manager and the file                                                *)

MemoryFields == {"rows", "current", "cursor", "data", "track", "earned"}
DataFields == {"limited", "failures", "token", "used"}

\* Every account has its data, and only accounts of a set have rested.
Resting(data, accounts) ==
    /\ data = [a \in Account |-> data[a]]
    /\ \A a \in Account : /\ data[a] = [f \in DataFields |-> data[a][f]]
                          /\ data[a].limited = 0 \/ a \in accounts

Memory(m, accounts) ==
    /\ m = [f \in MemoryFields |-> m[f]]
    /\ Resting(m.data, accounts)

OnDisk(disk, accounts) ==
    /\ disk = [f \in {"rows", "active", "data"} |-> disk[f]]
    /\ Resting(disk.data, accounts)

\* The ids of the rows stay where they are.
SameIds(m, n) == IdsInOrder(m.rows) = IdsInOrder(n.rows)

LEMMA DataChanges ==
    ASSUME NEW data, NEW accounts, Resting(data, accounts), NEW a, NEW x, NEW y
    PROVE  /\ Resting([data EXCEPT ![a].failures = x], accounts)
           /\ Resting([data EXCEPT ![a].token = x], accounts)
           /\ Resting([data EXCEPT ![a].used = x], accounts)
           /\ Resting([data EXCEPT ![a].limited = 0], accounts)
           /\ Resting([data EXCEPT ![a].failures = x, ![a].limited = y],
                      accounts \cup {a})
           /\ Resting(data, accounts \cup {a})
<1>1. Resting([data EXCEPT ![a].failures = x], accounts)
  BY DEF Resting, DataFields
<1>2. Resting([data EXCEPT ![a].token = x], accounts)
  BY DEF Resting, DataFields
<1>3. Resting([data EXCEPT ![a].used = x], accounts)
  BY DEF Resting, DataFields
<1>4. Resting([data EXCEPT ![a].limited = 0], accounts)
  BY DEF Resting, DataFields
<1>5. Resting([data EXCEPT ![a].failures = x, ![a].limited = y], accounts \cup {a})
  BY DEF Resting, DataFields
<1>6. Resting(data, accounts \cup {a})
  BY DEF Resting
<1> QED
  BY <1>1, <1>2, <1>3, <1>4, <1>5, <1>6

LEMMA MemoryChanges ==
    ASSUME NEW m, NEW accounts, Memory(m, accounts), NEW a, NEW reason, NEW retryAfter
    PROVE  /\ /\ Memory(MarkSuccess(m, a), accounts)
              /\ SameIds(MarkSuccess(m, a), m)
           /\ /\ Memory(MarkFailure(m, a), accounts)
              /\ SameIds(MarkFailure(m, a), m)
           /\ /\ Memory(Limited(m, a, reason, retryAfter), accounts \cup {a})
              /\ SameIds(Limited(m, a, reason, retryAfter), m)
<1>1. PICK data : data = m.data
  OBVIOUS
<1>2. Resting(data, accounts)
  BY <1>1 DEF Memory
<1>3. Memory(MarkSuccess(m, a), accounts) /\ SameIds(MarkSuccess(m, a), m)
  <2>1. PICK n : n = MarkSuccess(m, a)
    OBVIOUS
  <2>2. /\ n = [f \in MemoryFields |-> n[f]]
        /\ n.rows = m.rows
        /\ n.data = [data EXCEPT ![a].failures = 0]
    BY <1>1, <2>1 DEF MarkSuccess, Memory, MemoryFields
  <2>3. Resting([data EXCEPT ![a].failures = 0], accounts)
    BY <1>2, DataChanges
  <2> QED
    BY <2>1, <2>2, <2>3 DEF Memory, SameIds, IdsInOrder
<1>4. Memory(MarkFailure(m, a), accounts) /\ SameIds(MarkFailure(m, a), m)
  <2>1. PICK n : n = MarkFailure(m, a)
    OBVIOUS
  <2>2. /\ n = [f \in MemoryFields |-> n[f]]
        /\ n.rows = m.rows /\ n.data = data
    BY <1>1, <2>1 DEF MarkFailure, Memory, MemoryFields
  <2> QED
    BY <1>2, <2>1, <2>2 DEF Memory, SameIds, IdsInOrder
<1>5. PICK n : n = MarkRateLimited(m, a, reason, retryAfter)
  OBVIOUS
<1>6. Memory(n, accounts \cup {a}) /\ SameIds(n, m)
  <2>1. PICK x, y : x = data[a].failures + 1
                    /\ y = CalculateBackoffMs(reason, data[a].failures, retryAfter)
    OBVIOUS
  <2>2. PICK p, t, e : n = [m EXCEPT !.track[p] = t, !.earned[a] = e,
                               !.data[a].failures = x, !.data[a].limited = y]
    BY <1>1, <1>5, <2>1 DEF MarkRateLimited
  <2>3. /\ n = [f \in MemoryFields |-> n[f]]
        /\ n.rows = m.rows
        /\ n.data = [data EXCEPT ![a].failures = x, ![a].limited = y]
    <3>1. PICK n1, n2 : /\ n1 = [m EXCEPT !.track[p] = t, !.earned[a] = e]
                        /\ n2 = [n1 EXCEPT !.data[a].failures = x]
      OBVIOUS
    <3>2. n = [n2 EXCEPT !.data[a].limited = y]
      BY <2>2, <3>1
    <3>3. n1 = [f \in MemoryFields |-> n1[f]] /\ n1.rows = m.rows /\ n1.data = data
      BY <1>1, <3>1 DEF Memory, MemoryFields
    <3>4. /\ n2 = [f \in MemoryFields |-> n2[f]] /\ n2.rows = m.rows
          /\ n2.data = [data EXCEPT ![a].failures = x]
      BY <3>1, <3>3 DEF MemoryFields
    <3>5. /\ n = [f \in MemoryFields |-> n[f]] /\ n.rows = m.rows
          /\ n.data = [n2.data EXCEPT ![a].limited = y]
      BY <3>2, <3>4 DEF MemoryFields
    <3> QED
      BY <3>4, <3>5
  <2>4. Resting([data EXCEPT ![a].failures = x, ![a].limited = y], accounts \cup {a})
    BY <1>2, DataChanges
  <2> QED
    BY <2>3, <2>4 DEF Memory, SameIds, IdsInOrder
<1>7. PICK l : l = Limited(m, a, reason, retryAfter)
  OBVIOUS
<1>8. CASE reason = "AUTH_FAILED"
  <2>1. l = [n EXCEPT !.data[a].token = FALSE]
    BY <1>5, <1>7, <1>8 DEF Limited
  <2>2. PICK given : given = n.data
    OBVIOUS
  <2>3. /\ l = [f \in MemoryFields |-> l[f]]
        /\ l.rows = n.rows
        /\ l.data = [given EXCEPT ![a].token = FALSE]
    BY <1>6, <2>1, <2>2 DEF Memory, MemoryFields
  <2>4. Resting([given EXCEPT ![a].token = FALSE], accounts \cup {a})
    BY <1>6, <2>2, DataChanges DEF Memory
  <2> QED
    BY <1>3, <1>4, <1>6, <1>7, <2>3, <2>4 DEF Memory, SameIds
<1>9. CASE reason # "AUTH_FAILED"
  <2>1. l = n
    BY <1>5, <1>7, <1>9 DEF Limited
  <2> QED
    BY <1>3, <1>4, <1>6, <1>7, <2>1
<1> QED
  BY <1>8, <1>9

LEMMA SelectIs ==
    ASSUME NEW m, NEW accounts, Memory(m, accounts), NEW skip
    PROVE  Memory(Select(m, skip), accounts) /\ Select(m, skip).rows = m.rows
<1>1. PICK data, n : data = m.data /\ n = Select(m, skip)
  OBVIOUS
<1>2. Resting(data, accounts)
  BY <1>1 DEF Memory
<1>3. PICK i, a, current, cursor :
         n = [m EXCEPT !.track[i] = Consume(@), !.earned[a] = Consume(@),
                 !.current = current, !.cursor = cursor, !.data[a].used = TRUE]
  BY <1>1 DEF Select
<1>4. /\ n = [f \in MemoryFields |-> n[f]]
      /\ n.rows = m.rows
      /\ n.data = [data EXCEPT ![a].used = TRUE]
  BY <1>1, <1>3 DEF Memory, MemoryFields
<1>5. Resting([data EXCEPT ![a].used = TRUE], accounts)
  BY <1>2, DataChanges
<1> QED
  BY <1>1, <1>4, <1>5 DEF Memory

LEMMA AttemptKeepsMemory ==
    ASSUME NEW r, NEW reqs, NEW q, NEW m, NEW accounts, Memory(m, accounts),
           Attempt(r, reqs, q, m)
    PROVE  Memory(mem', accounts) /\ mem'.rows = m.rows
<1>1. mem' = m \/ mem' = Select(m, q.skip)
  BY DEF Attempt
<1>2. PICK n : n = mem'
  OBVIOUS
<1>3. Memory(n, accounts) /\ n.rows = m.rows
  <2>1. CASE n = m
    BY <2>1
  <2>2. CASE n = Select(m, q.skip)
    <3>1. PICK skip : n = Select(m, skip)
      BY <2>2
    <3> QED
      BY <3>1, SelectIs
  <2> QED
    BY <1>1, <1>2, <2>1, <2>2
<1> QED
  BY <1>2, <1>3

\* A sync takes what the file says of the accounts it has; a save writes what
\* memory says.
LEMMA SyncIs ==
    ASSUME NEW accounts, Memory(mem, accounts), OnDisk(file, accounts)
    PROVE  Memory(Sync(mem), accounts)
<1>1. PICK n : n = Sync(mem)
  OBVIOUS
<1>2. n = [f \in MemoryFields |-> n[f]]
  BY <1>1 DEF Sync, Synced, MemoryFields
<1>3. n.data = [a \in Account |->
                   IF a \in Ids(file.rows)
                   THEN [file.data[a] EXCEPT !.token = @ \/ mem.data[a].token]
                   ELSE mem.data[a]]
  BY <1>1 DEF Sync, Synced
<1>4. PICK known : known = Ids(file.rows)
  OBVIOUS
<1>5. ASSUME NEW a \in Account
      PROVE  /\ n.data[a] = [f \in DataFields |-> n.data[a][f]]
             /\ n.data[a].limited = 0 \/ a \in accounts
  <2>1. CASE a \in known
    <3>1. PICK x : n.data[a] = [file.data[a] EXCEPT !.token = x]
      BY <1>3, <1>4, <2>1
    <3> QED
      BY <3>1 DEF OnDisk, Resting, DataFields
  <2>2. CASE a \notin known
    <3>1. n.data[a] = mem.data[a]
      BY <1>3, <1>4, <2>2
    <3> QED
      BY <3>1 DEF Memory, Resting
  <2> QED
    BY <2>1, <2>2
<1>6. n.data = [a \in Account |-> n.data[a]]
  BY <1>3
<1> QED
  BY <1>1, <1>2, <1>5, <1>6 DEF Memory, Resting

LEMMA SavedIs ==
    ASSUME NEW m, NEW accounts, Memory(m, accounts), OnDisk(file, accounts)
    PROVE  OnDisk(Saved(m), accounts)
<1>1. PICK known : known = Ids(m.rows)
  OBVIOUS
<1>2. PICK d : d = Saved(m)
  OBVIOUS
<1>3. /\ d = [f \in {"rows", "active", "data"} |-> d[f]]
      /\ d.data = [a \in Account |-> IF a \in known THEN m.data[a] ELSE file.data[a]]
  BY <1>1, <1>2 DEF Saved
<1>4. ASSUME NEW a \in Account
      PROVE  /\ d.data[a] = [f \in DataFields |-> d.data[a][f]]
             /\ d.data[a].limited = 0 \/ a \in accounts
  <2>1. d.data[a] = m.data[a] \/ d.data[a] = file.data[a]
    BY <1>3
  <2> QED
    BY <2>1 DEF OnDisk, Memory, Resting
<1>5. d.data = [a \in Account |-> d.data[a]]
  BY <1>3
<1> QED
  BY <1>2, <1>3, <1>4, <1>5 DEF OnDisk, Resting

------------------------------------------------------------------------------
(* Who rests, and where an uploaded file belongs                           *)

\* Only accounts that got an account error rest.
Earned == Memory(mem, refused) /\ OnDisk(file, refused)

\* The entry of the file names the account at the position, until rows move.
Pinned ==
    /\ pin = [f \in {"position", "owner", "moved"} |-> pin[f]]
    /\ pin.position = UploadedAt
    /\ pin.owner = FirstRows[UploadedAt].id
    /\ pin.moved \in BOOLEAN
    /\ pin.moved \/ IdsInOrder(mem.rows) = IdsInOrder(FirstRows)

Steady == UNCHANGED pin /\ SameIds(mem', mem)

LEMMA FirstData ==
    /\ \A rows, current, cursor, track, earned, data :
          Resting(data, {}) =>
             Memory([rows |-> rows, current |-> current, cursor |-> cursor,
                     data |-> data, track |-> track, earned |-> earned], {})
    /\ \A rows, active, data :
          Resting(data, {}) =>
             OnDisk([rows |-> rows, active |-> active, data |-> data], {})
    /\ Resting([a \in Account |-> [NoData EXCEPT !.token = a \in FirstTokens]], {})
<1>1. ASSUME NEW rows, NEW current, NEW cursor, NEW track, NEW earned, NEW data,
             Resting(data, {})
      PROVE  Memory([rows |-> rows, current |-> current, cursor |-> cursor,
                     data |-> data, track |-> track, earned |-> earned], {})
  BY <1>1 DEF Memory, MemoryFields
<1>2. ASSUME NEW rows, NEW active, NEW data, Resting(data, {})
      PROVE  OnDisk([rows |-> rows, active |-> active, data |-> data], {})
  BY <1>2 DEF OnDisk
<1>3. PICK data : data = [a \in Account |-> [NoData EXCEPT !.token = a \in FirstTokens]]
  OBVIOUS
<1>4. ASSUME NEW a \in Account
      PROVE  data[a] = [f \in DataFields |-> data[a][f]] /\ data[a].limited = 0
  <2>1. PICK token : data[a] = [NoData EXCEPT !.token = token]
    BY <1>3
  <2> QED
    BY <2>1 DEF NoData, DataFields
<1>5. data = [a \in Account |-> data[a]]
  BY <1>3
<1>6. Resting(data, {})
  BY <1>4, <1>5 DEF Resting
<1> QED
  BY <1>1, <1>2, <1>3, <1>6

LEMMA EarnedAtFirst == Init => Earned
<1> SUFFICES ASSUME Init PROVE Earned
  OBVIOUS
<1>1. PICK data : data = [a \in Account |-> [NoData EXCEPT !.token = a \in FirstTokens]]
  OBVIOUS
<1>2. Resting(data, {})
  BY <1>1, FirstData
<1>3. PICK track, earned :
         mem = [rows |-> FirstRows, current |-> 1, cursor |-> 0, data |-> data,
                track |-> track, earned |-> earned]
  BY <1>1 DEF Init
<1>4. file = [rows |-> FirstRows, active |-> 1, data |-> data] /\ refused = {}
  BY <1>1 DEF Init
<1> QED
  BY <1>2, <1>3, <1>4, FirstData DEF Earned

LEMMA PinnedAtFirst == Init => Pinned
BY DEF Init, Pinned, Uploaded

\* An attempt with what memory has become.
LEMMA SteadyAttempt ==
    ASSUME NEW r, NEW reqs, NEW q, NEW m, Memory(m, refused'), SameIds(m, mem),
           Attempt(r, reqs, q, m)
    PROVE  Memory(mem', refused') /\ SameIds(mem', mem)
<1>1. PICK accounts : accounts = refused'
  OBVIOUS
<1>2. Memory(mem', accounts) /\ mem'.rows = m.rows
  BY <1>1, AttemptKeepsMemory
<1> QED
  BY <1>1, <1>2 DEF SameIds

LEMMA SteadyInRefresh ==
    ASSUME Earned, NEW r \in Request, RefreshEnds(r)
    PROVE  Earned' /\ Steady
<1>1. UNCHANGED <<refused, pin>>
  BY DEF RefreshEnds
<1>2. PICK a, i : a = req[r].account /\ i = Position(mem, a)
  OBVIOUS
<1>3. CASE mem' = [mem EXCEPT !.data[a].token = TRUE]
           /\ file' = IF mem' = mem THEN file ELSE Saved(mem')
  <2>1. PICK n, data : n = mem' /\ data = mem.data
    OBVIOUS
  <2>2. Resting(data, refused)
    BY <2>1 DEF Earned, Memory
  <2>3. /\ n = [f \in MemoryFields |-> n[f]] /\ n.rows = mem.rows
        /\ n.data = [data EXCEPT ![a].token = TRUE]
    BY <1>3, <2>1 DEF Earned, Memory, MemoryFields
  <2>4. Memory(n, refused)
    <3>1. Resting([data EXCEPT ![a].token = TRUE], refused)
      BY <2>2, DataChanges
    <3> QED
      BY <2>3, <3>1 DEF Memory
  <2>5. OnDisk(Saved(n), refused)
    BY <2>4, SavedIs DEF Earned
  <2>6. file' = file \/ file' = Saved(n)
    BY <1>3, <2>1
  <2>7. PICK d : d = file'
    OBVIOUS
  <2>8. OnDisk(d, refused)
    BY <2>5, <2>6, <2>7 DEF Earned
  <2> QED
    BY <1>1, <2>1, <2>3, <2>4, <2>7, <2>8 DEF Earned, Steady, SameIds
<1>4. CASE /\ UNCHANGED file
           /\ \E q : \/ Attempt(r, req, q, MarkFailure(mem, a))
                     \/ Attempt(r, req, q, [MarkFailure(mem, a) EXCEPT
                           !.rows[i] = [RowOf(@.id) EXCEPT !.enabled = FALSE]])
  <2>1. PICK failed : failed = MarkFailure(mem, a)
    OBVIOUS
  <2>2. Memory(failed, refused) /\ SameIds(failed, mem)
    BY <2>1, MemoryChanges DEF Earned
  <2>3. PICK disabled : disabled = [failed EXCEPT
                           !.rows[i] = [RowOf(@.id) EXCEPT !.enabled = FALSE]]
    OBVIOUS
  <2>4. Memory(disabled, refused) /\ SameIds(disabled, mem)
    <3>1. /\ disabled = [f \in MemoryFields |-> disabled[f]]
          /\ disabled.data = failed.data
          /\ disabled.rows = [failed.rows EXCEPT
                ![i] = [RowOf(@.id) EXCEPT !.enabled = FALSE]]
      BY <2>2, <2>3 DEF Memory, MemoryFields
    <3>2. PICK rows : rows = failed.rows
      OBVIOUS
    <3>3. PICK others : others = disabled.rows
      OBVIOUS
    <3>4. others = [rows EXCEPT ![i] = [RowOf(@.id) EXCEPT !.enabled = FALSE]]
      BY <3>1, <3>2, <3>3
    <3>5. DOMAIN others = DOMAIN rows
      BY <3>4
    <3>6. ASSUME NEW j \in DOMAIN rows
          PROVE  others[j].id = rows[j].id
      BY <3>4, <3>6 DEF RowOf
    <3>7. IdsInOrder(others) = IdsInOrder(rows)
      BY <3>5, <3>6 DEF IdsInOrder
    <3> QED
      BY <2>2, <3>1, <3>2, <3>3, <3>7 DEF Memory, SameIds
  <2>5. PICK n : n \in {failed, disabled} /\ \E q : Attempt(r, req, q, n)
    BY <1>4, <2>1, <2>3
  <2>6. Memory(n, refused') /\ SameIds(n, mem)
    BY <1>1, <2>2, <2>4, <2>5
  <2>7. Memory(mem', refused') /\ SameIds(mem', mem)
    BY <2>5, <2>6, SteadyAttempt
  <2> QED
    BY <1>1, <1>4, <2>7 DEF Earned, Steady
<1> QED
  BY <1>2, <1>3, <1>4 DEF RefreshEnds

LEMMA SteadyInAttempts ==
    ASSUME Earned, NEW r \in Request, NEW answer,
           NetworkError(r) \/ AccountError(r, answer)
    PROVE  Earned' /\ Steady
<1>1. PICK a : a = req[r].account
  OBVIOUS
<1>2. UNCHANGED <<file, pin>>
  BY DEF NetworkError, AccountError
<1>3. CASE UNCHANGED mem /\ UNCHANGED refused
  BY <1>2, <1>3 DEF Earned, Steady, SameIds
<1>4. CASE /\ UNCHANGED refused
           /\ \E q : Attempt(r, req, q, MarkFailure(mem, a))
  <2>1. PICK n : n = MarkFailure(mem, a)
    OBVIOUS
  <2>2. Memory(n, refused') /\ SameIds(n, mem)
    BY <1>4, <2>1, MemoryChanges DEF Earned
  <2> QED
    BY <1>2, <1>4, <2>1, <2>2, SteadyAttempt DEF Earned, Steady
<1>5. CASE /\ refused' = refused \cup {a}
           /\ \E q, reason, retryAfter :
                 Attempt(r, req, q, Limited(mem, a, reason, retryAfter))
  <2>1. PICK q, reason, retryAfter :
           Attempt(r, req, q, Limited(mem, a, reason, retryAfter))
    BY <1>5
  <2>2. PICK n : n = Limited(mem, a, reason, retryAfter)
    OBVIOUS
  <2>3. Memory(n, refused \cup {a}) /\ SameIds(n, mem)
    BY <2>2, MemoryChanges DEF Earned
  <2>4. Memory(mem', refused') /\ SameIds(mem', mem)
    BY <1>5, <2>1, <2>2, <2>3, SteadyAttempt
  <2>5. OnDisk(file, refused \cup {a})
    BY DEF Earned, OnDisk, Resting
  <2> QED
    BY <1>2, <1>5, <2>4, <2>5 DEF Earned, Steady
<1>6. NetworkError(r) =>
         /\ UNCHANGED refused
         /\ UNCHANGED mem \/ \E q : Attempt(r, req, q, MarkFailure(mem, a))
  BY <1>1 DEF NetworkError
<1>7. AccountError(r, answer) =>
         /\ refused' = refused \cup {a}
         /\ \E q, reason, retryAfter :
               Attempt(r, req, q, Limited(mem, a, reason, retryAfter))
  <2>1. SUFFICES ASSUME AccountError(r, answer)
                 PROVE  /\ refused' = refused \cup {a}
                        /\ \E q, reason, retryAfter :
                              Attempt(r, req, q, Limited(mem, a, reason, retryAfter))
    OBVIOUS
  <2>2. PICK q : q = [req[r] EXCEPT !.skip = @ \cup {Position(mem, req[r].account)}]
    OBVIOUS
  <2>3. q.account = a
    BY <1>1, <2>2
  <2> QED
    BY <2>1, <2>2, <2>3 DEF AccountError
<1> QED
  BY <1>3, <1>4, <1>5, <1>6, <1>7

LEMMA SteadyInReceive ==
    ASSUME Earned, NEW r \in Request, NEW answer \in Answers, Receive(r, answer)
    PROVE  Earned' /\ Steady
<1>1. CASE Success(r, answer)
  <2>1. UNCHANGED <<file, refused, pin>>
    BY <1>1 DEF Success
  <2>2. PICK a : mem' = MarkSuccess(mem, a)
    BY <1>1 DEF Success
  <2>3. PICK n : n = MarkSuccess(mem, a)
    OBVIOUS
  <2>4. Memory(n, refused) /\ SameIds(n, mem)
    BY <2>3, MemoryChanges DEF Earned
  <2> QED
    BY <2>1, <2>2, <2>3, <2>4 DEF Earned, Steady, SameIds
<1>2. CASE AccountError(r, answer)
  BY <1>2, SteadyInAttempts
<1>3. CASE UNCHANGED <<mem, file, refused, pin>>
  BY <1>3 DEF Earned, Steady, SameIds
<1> QED
  BY <1>1, <1>2, <1>3 DEF Receive, ServiceError, LongContextError, OtherError

LEMMA SteadyInStream ==
    ASSUME Earned, NEW r \in Request, StreamEnds(r)
    PROVE  Earned' /\ Steady
<1>1. PICK a : a = req[r].account
  OBVIOUS
<1>2. UNCHANGED <<file, pin>>
  BY DEF StreamEnds
<1>3. CASE UNCHANGED <<mem, refused>>
  BY <1>2, <1>3 DEF Earned, Steady, SameIds
<1>4. CASE /\ refused' = refused \cup {a}
           /\ \E reason, retryAfter : mem' = Limited(mem, a, reason, retryAfter)
  <2>1. PICK reason, retryAfter : mem' = Limited(mem, a, reason, retryAfter)
    BY <1>4
  <2>2. PICK n : n = Limited(mem, a, reason, retryAfter)
    OBVIOUS
  <2>3. Memory(n, refused \cup {a}) /\ SameIds(n, mem)
    BY <2>2, MemoryChanges DEF Earned
  <2>4. OnDisk(file, refused \cup {a})
    BY DEF Earned, OnDisk, Resting
  <2> QED
    BY <1>2, <1>4, <2>1, <2>2, <2>3, <2>4 DEF Earned, Steady, SameIds
<1> QED
  BY <1>1, <1>3, <1>4 DEF StreamEnds

LEMMA SteadyInSave ==
    ASSUME Earned, Save
    PROVE  Earned' /\ Steady
<1>1. OnDisk(Saved(mem), refused)
  BY SavedIs DEF Earned
<1>2. PICK d : d = Saved(mem)
  OBVIOUS
<1>3. file' = d /\ OnDisk(d, refused) /\ UNCHANGED <<mem, refused, pin>>
  BY <1>1, <1>2 DEF Save
<1> QED
  BY <1>3 DEF Earned, Steady, SameIds

LEMMA SteadyInOtherWrites ==
    ASSUME Earned, OtherWrites
    PROVE  Earned' /\ Steady
<1>1. UNCHANGED <<mem, refused, pin>>
  BY DEF OtherWrites
<1>2. PICK d : d = file'
  OBVIOUS
<1>3. CASE \E rows, active : d = [file EXCEPT !.rows = rows, !.active = active]
  BY <1>3, <1>1, <1>2 DEF Earned, OnDisk, Steady, SameIds
<1>4. CASE \E rows : d = [file EXCEPT !.rows = rows]
  BY <1>4, <1>1, <1>2 DEF Earned, OnDisk, Steady, SameIds
<1>5. CASE \E active : d = [file EXCEPT !.active = active]
  BY <1>5, <1>1, <1>2 DEF Earned, OnDisk, Steady, SameIds
<1>6. CASE \E rows, a : d = [file EXCEPT !.rows = rows,
                                !.data[a] = [NoData EXCEPT !.token = TRUE]]
  <2>1. PICK rows, a : d = [file EXCEPT !.rows = rows,
                               !.data[a] = [NoData EXCEPT !.token = TRUE]]
    BY <1>6
  <2>2. PICK data : data = file.data
    OBVIOUS
  <2>3. /\ d = [f \in {"rows", "active", "data"} |-> d[f]]
        /\ d.data = [data EXCEPT ![a] = [NoData EXCEPT !.token = TRUE]]
    BY <2>1, <2>2 DEF Earned, OnDisk
  <2>4. Resting([data EXCEPT ![a] = [NoData EXCEPT !.token = TRUE]], refused)
    BY <2>2 DEF Earned, OnDisk, Resting, NoData, DataFields
  <2> QED
    BY <1>1, <1>2, <2>3, <2>4 DEF Earned, OnDisk, Steady, SameIds
<1>7. \/ \E rows, active : d = [file EXCEPT !.rows = rows, !.active = active]
      \/ \E rows : d = [file EXCEPT !.rows = rows]
      \/ \E active : d = [file EXCEPT !.active = active]
      \/ \E rows, a : d = [file EXCEPT !.rows = rows,
                              !.data[a] = [NoData EXCEPT !.token = TRUE]]
  <2>1. PICK i : \/ \E rows, active : d = [file EXCEPT !.rows = rows, !.active = active]
                 \/ d = [file EXCEPT !.rows[i].enabled = ~@]
                 \/ \E active : d = [file EXCEPT !.active = active]
                 \/ \E rows, a : d = [file EXCEPT !.rows = rows,
                                         !.data[a] = [NoData EXCEPT !.token = TRUE]]
    BY <1>2 DEF OtherWrites
  <2>2. d = [file EXCEPT !.rows[i].enabled = ~@] => \E rows : d = [file EXCEPT !.rows = rows]
    OBVIOUS
  <2> QED
    BY <2>1, <2>2
<1> QED
  BY <1>3, <1>4, <1>5, <1>6, <1>7

LEMMA SteadyInExpire ==
    ASSUME Earned, NEW a \in Account, Expire(a)
    PROVE  Earned' /\ Steady
<1>1. UNCHANGED <<refused, pin>>
  BY DEF Expire
<1>2. PICK n, d, x, y : n = mem' /\ d = file' /\ x = mem.data /\ y = file.data
  OBVIOUS
<1>3. /\ n = [f \in MemoryFields |-> n[f]] /\ n.rows = mem.rows
      /\ n.data = [x EXCEPT ![a].limited = 0]
  BY <1>2 DEF Expire, Earned, Memory, MemoryFields
<1>4. /\ d = [f \in {"rows", "active", "data"} |-> d[f]]
      /\ d.data = [y EXCEPT ![a].limited = 0]
  BY <1>2 DEF Expire, Earned, OnDisk
<1>5. /\ Resting([x EXCEPT ![a].limited = 0], refused)
      /\ Resting([y EXCEPT ![a].limited = 0], refused)
  <2>1. Resting(x, refused) /\ Resting(y, refused)
    BY <1>2 DEF Earned, Memory, OnDisk
  <2> QED
    BY <2>1, DataChanges
<1> QED
  BY <1>1, <1>2, <1>3, <1>4, <1>5 DEF Earned, Memory, OnDisk, Steady, SameIds

\* The request that begins, after a sync if the session is not pinned.
LEMMA SteadyInBegin ==
    ASSUME Earned, NEW r \in Request, NEW withFile \in BOOLEAN, Begin(r, withFile)
    PROVE  \E m : /\ Earned'
                  /\ mem'.rows = m.rows
                  /\ pin' = [pin EXCEPT !.moved = @ \/ ~SameIds(m, mem)]
                  /\ withFile /\ ResolvePinnedAccount(m) # {} =>
                        /\ mem' = m
                        /\ \E a \in ResolvePinnedAccount(m) : \E q :
                              /\ Shaped(q)
                              /\ req' = [Disturb(m) EXCEPT ![r] = Trying(q, a, m)]
<1>1. PICK m : m = IF session.pinned THEN mem ELSE Sync(mem)
  OBVIOUS
<1>2. UNCHANGED <<file, refused>>
  BY DEF Begin
<1>3. Memory(m, refused)
  BY <1>1, SyncIs DEF Earned
<1>4. mem' = m \/ \E reqs, q : Attempt(r, reqs, q, m)
  BY <1>1 DEF Begin
<1>5. Memory(mem', refused) /\ mem'.rows = m.rows
  BY <1>3, <1>4, AttemptKeepsMemory
<1>6. pin' = [pin EXCEPT !.moved = @ \/ ~SameIds(m, mem)]
  BY <1>1 DEF Begin, SameIds
<1>7. ASSUME withFile, ResolvePinnedAccount(m) # {}
      PROVE  /\ mem' = m
             /\ \E a \in ResolvePinnedAccount(m) : \E q :
                   /\ Shaped(q)
                   /\ req' = [Disturb(m) EXCEPT ![r] = Trying(q, a, m)]
  <2>1. PICK q : q = [NotStarted EXCEPT !.max = Len(m.rows)]
    OBVIOUS
  <2>2. Shaped(q)
    BY <2>1 DEF Shaped, NotStarted, Fields
  <2> QED
    BY <1>1, <1>7, <2>1, <2>2 DEF Begin
<1> QED
  BY <1>2, <1>5, <1>6, <1>7 DEF Earned

\* Every step but the beginning of a request leaves the rows in place.
LEMMA SteadyElse ==
    ASSUME Earned, [Next]_vars,
           \A r \in Request, withFile \in BOOLEAN : ~Begin(r, withFile)
    PROVE  Earned' /\ Steady
<1>1. CASE \E r \in Request : Step(r)
  <2>1. PICK r \in Request : Step(r)
    BY <1>1
  <2>2. CASE RetryNetworkError(r)
    BY <2>2 DEF RetryNetworkError, Earned, Steady, SameIds
  <2>3. CASE NetworkError(r)
    <3>1. PICK answer : answer = 0
      OBVIOUS
    <3> QED
      BY <2>3, SteadyInAttempts
  <2> QED
    BY <2>1, <2>2, <2>3, SteadyInRefresh, SteadyInReceive, SteadyInStream DEF Step
<1>2. CASE \E a \in Account : Expire(a)
  BY <1>2, SteadyInExpire
<1>3. CASE Save
  BY <1>3, SteadyInSave
<1>4. CASE OtherWrites
  BY <1>4, SteadyInOtherWrites
<1>5. CASE UNCHANGED vars
  BY <1>5 DEF vars, Earned, Steady, SameIds
<1> QED
  BY <1>1, <1>2, <1>3, <1>4, <1>5 DEF Next

LEMMA EarnedInEveryStep == Earned /\ [Next]_vars => Earned'
BY SteadyInBegin, SteadyElse

LEMMA PinnedInEveryStep == Earned /\ Pinned /\ [Next]_vars => Pinned'
<1> SUFFICES ASSUME Earned, Pinned, [Next]_vars PROVE Pinned'
  OBVIOUS
<1>1. CASE Steady
  BY <1>1 DEF Steady, Pinned, SameIds
<1>2. CASE \E r \in Request, withFile \in BOOLEAN : Begin(r, withFile)
  <2>1. PICK m : /\ mem'.rows = m.rows
                 /\ pin' = [pin EXCEPT !.moved = @ \/ ~SameIds(m, mem)]
    BY <1>2, SteadyInBegin
  <2>2. PICK p : p = pin'
    OBVIOUS
  <2>3. /\ p = [f \in {"position", "owner", "moved"} |-> p[f]]
        /\ p.position = UploadedAt /\ p.owner = FirstRows[UploadedAt].id
        /\ p.moved \in BOOLEAN
        /\ p.moved <=> (pin.moved \/ ~SameIds(m, mem))
    BY <2>1, <2>2 DEF Pinned
  <2>4. p.moved \/ IdsInOrder(mem.rows)' = IdsInOrder(FirstRows)
    BY <2>1, <2>3 DEF Pinned, SameIds
  <2> QED
    BY <2>2, <2>3, <2>4 DEF Pinned
<1> QED
  BY <1>1, <1>2, SteadyElse

\* Only accounts that themselves got an account error rest, in memory and in
\* the file (markRateLimited): positions move, and service errors are nobody's.
THEOREM OnlyRefusedRest == Spec => []PenaltiesAreEarned
<1>1. Earned => PenaltiesAreEarned
  <2>1. SUFFICES ASSUME Earned, NEW a \in Account
                 PROVE  mem.data[a].limited > 0 \/ file.data[a].limited > 0 => a \in refused
    BY DEF PenaltiesAreEarned
  <2>2. /\ mem.data[a].limited = 0 \/ a \in refused
        /\ file.data[a].limited = 0 \/ a \in refused
    BY <2>1 DEF Earned, Memory, OnDisk, Resting
  <2> QED
    BY <2>2
<1> QED
  BY <1>1, EarnedAtFirst, EarnedInEveryStep, PTL DEF Spec

LEMMA PinLeadsToOwner ==
    ASSUME Earned, Pinned, NEW r \in Request, Begin(r, TRUE)
    PROVE  \/ pin'.moved
           \/ pin.owner \notin {mem'.rows[i].id : i \in Enabled(mem'.rows)}
           \/ req'[r].account = pin.owner
<1>1. PICK m : /\ mem'.rows = m.rows
               /\ pin' = [pin EXCEPT !.moved = @ \/ ~SameIds(m, mem)]
               /\ ResolvePinnedAccount(m) # {} =>
                     /\ mem' = m
                     /\ \E a \in ResolvePinnedAccount(m) : \E q :
                           /\ Shaped(q)
                           /\ req' = [Disturb(m) EXCEPT ![r] = Trying(q, a, m)]
  BY SteadyInBegin
<1>2. SUFFICES ASSUME ~pin'.moved, NEW i \in Enabled(mem'.rows),
                      mem'.rows[i].id = pin.owner
               PROVE  req'[r].account = pin.owner
  OBVIOUS
<1>3. SameIds(m, mem) /\ ~pin.moved
  <2>1. pin'.moved <=> (pin.moved \/ ~SameIds(m, mem))
    BY <1>1 DEF Pinned
  <2> QED
    BY <1>2, <2>1
<1>4. PICK rows : rows = mem'.rows
  OBVIOUS
<1>5. IdsInOrder(rows) = IdsInOrder(FirstRows)
  BY <1>1, <1>3, <1>4 DEF Pinned, SameIds
<1>6. i = UploadedAt
  <2>1. i \in DOMAIN rows /\ rows[i].id = FirstRows[UploadedAt].id
    BY <1>2, <1>4 DEF Enabled, Pinned
  <2>2. i \in DOMAIN FirstRows /\ rows[i].id = FirstRows[i].id
    <3>1. DOMAIN IdsInOrder(rows) = DOMAIN rows
      BY DEF IdsInOrder
    <3>2. DOMAIN IdsInOrder(FirstRows) = DOMAIN FirstRows
      BY DEF IdsInOrder
    <3>3. IdsInOrder(rows)[i] = IdsInOrder(FirstRows)[i]
      BY <1>5
    <3> QED
      BY <1>5, <2>1, <3>1, <3>2, <3>3 DEF IdsInOrder
  <2> QED
    BY <2>1, <2>2, ConstantsOK, FirstRowsOK DEF Distinct
<1>7. /\ i = pin.position /\ i \in Enabled(m.rows)
      /\ m.rows[pin.position].id = pin.owner
  BY <1>1, <1>2, <1>6 DEF Pinned
<1>8. ResolvePinnedAccount(m) = {pin.owner}
  BY <1>7 DEF ResolvePinnedAccount
<1>9. PICK q : /\ Shaped(q)
               /\ req' = [Disturb(m) EXCEPT ![r] = Trying(q, pin.owner, m)]
  BY <1>1, <1>8
<1>10. req'[r] = Trying(q, pin.owner, m)
  BY <1>9 DEF Disturb
<1> QED
  BY <1>9, <1>10, TryingIs

\* A request that names the file is first made with the account that uploaded
\* it (resolvePinnedAccount), unless that is disabled or the rows have moved.
THEOREM PinsFollowOwners == Spec => FilePinFollowsOwner
<1>1. Init => Earned /\ Pinned /\ Excluded(req, excluded)
  BY EarnedAtFirst, PinnedAtFirst, ExcludedAtFirst
<1>2. Earned /\ Pinned /\ Excluded(req, excluded) /\ [Next]_vars =>
         (Earned /\ Pinned /\ Excluded(req, excluded))'
  BY EarnedInEveryStep, PinnedInEveryStep, ExcludedInEveryStep
<1>3. Earned /\ Pinned /\ [Next]_vars =>
         [\A r \in Request :
            Begin(r, TRUE) =>
                \/ pin'.moved
                \/ pin.owner \notin {mem'.rows[i].id : i \in Enabled(mem'.rows)}
                \/ req'[r].account = pin.owner]_vars
  BY PinLeadsToOwner
<1> QED
  BY <1>1, <1>2, <1>3, PTL DEF Spec, FilePinFollowsOwner
------------------------------------------------------------------------------
(***************************************************************************)
(* Rotation.                                                               *)
(***************************************************************************)
LEMMA TrackersAre ==
    /\ NewTracker \in Tracker
    /\ \A t \in Tracker : /\ RecordSuccess(t) \in Tracker
                          /\ RecordRateLimit(t) \in Tracker
                          /\ RecordFailure(t) \in Tracker
                          /\ Consume(t) \in Tracker
                          /\ [t EXCEPT !.score = InitialScore] \in Tracker
<1>1. NewTracker \in Tracker
  BY ScoresOK DEF NewTracker, Tracker
<1>2. ASSUME NEW t \in Tracker
      PROVE  /\ RecordSuccess(t) \in Tracker
             /\ RecordRateLimit(t) \in Tracker
             /\ RecordFailure(t) \in Tracker
             /\ Consume(t) \in Tracker
             /\ [t EXCEPT !.score = InitialScore] \in Tracker
  <2>1. PICK s \in 0 .. MaxScore, n \in 0 .. MaxTokens : t = [score |-> s, tokens |-> n]
    BY DEF Tracker
  <2>2. /\ AtMost(s + SuccessReward, MaxScore) \in 0 .. MaxScore
        /\ AtLeastZero(s - RateLimitPenalty) \in 0 .. MaxScore
        /\ AtLeastZero(s - FailurePenalty) \in 0 .. MaxScore
        /\ AtMost(n + 1, MaxTokens) \in 0 .. MaxTokens
        /\ AtLeastZero(n - 1) \in 0 .. MaxTokens
        /\ InitialScore \in 0 .. MaxScore
    BY <2>1, ScoresOK DEF AtMost, AtLeastZero
  <2>3. /\ RecordSuccess(t) = [score |-> AtMost(s + SuccessReward, MaxScore), tokens |-> n]
        /\ RecordRateLimit(t) = [score |-> AtLeastZero(s - RateLimitPenalty), tokens |-> n]
        /\ RecordFailure(t) = [score |-> AtLeastZero(s - FailurePenalty),
                               tokens |-> AtMost(n + 1, MaxTokens)]
        /\ Consume(t) = [score |-> s, tokens |-> AtLeastZero(n - 1)]
        /\ [t EXCEPT !.score = InitialScore] = [score |-> InitialScore, tokens |-> n]
    <3>1. t.score = s /\ t.tokens = n
      BY <2>1
    <3> HIDE DEF Tracker
    <3>2. /\ RecordSuccess(t) = [score |-> AtMost(s + SuccessReward, MaxScore), tokens |-> n]
          /\ RecordRateLimit(t) = [score |-> AtLeastZero(s - RateLimitPenalty), tokens |-> n]
      BY <2>1, <3>1 DEF RecordSuccess, RecordRateLimit
    <3>3. RecordFailure(t) = [score |-> AtLeastZero(s - FailurePenalty),
                              tokens |-> AtMost(n + 1, MaxTokens)]
      <4>1. PICK a, b : /\ a = AtLeastZero(s - FailurePenalty)
                        /\ b = AtMost(n + 1, MaxTokens)
        OBVIOUS
      <4>2. PICK u : u = [t EXCEPT !.score = a]
        OBVIOUS
      <4>3. u = [score |-> a, tokens |-> n]
        BY <2>1, <4>2
      <4>4. RecordFailure(t) = [u EXCEPT !.tokens = b]
        BY <3>1, <4>1, <4>2 DEF RecordFailure
      <4> QED
        BY <4>1, <4>3, <4>4
    <3>4. /\ Consume(t) = [score |-> s, tokens |-> AtLeastZero(n - 1)]
          /\ [t EXCEPT !.score = InitialScore] = [score |-> InitialScore, tokens |-> n]
      BY <2>1, <3>1 DEF Consume
    <3> QED
      BY <3>2, <3>3, <3>4
  <2> QED
    BY <2>1, <2>2, <2>3 DEF Tracker
<1> QED
  BY <1>1, <1>2

LEMMA ScoreIs ==
    ASSUME NEW t \in Tracker, NEW rested \in BOOLEAN
    PROVE  HybridScore(t, rested) \in Int
<1>1. t.score \in Nat /\ t.tokens \in Nat /\ MaxTokens \in Nat \ {0}
  BY ScoresOK DEF Tracker
<1>2. (500 * t.tokens) \div MaxTokens \in Int
  BY <1>1
<1> QED
  BY <1>1, <1>2 DEF HybridScore

\* Of positions with scores there is a first one with the highest score.
IsBest(S, score, i) ==
    /\ i \in S
    /\ \A j \in S : score[i] > score[j] \/ (score[i] = score[j] /\ i <= j)

LEMMA BestExists ==
    ASSUME NEW N \in Nat, NEW S \in SUBSET (1 .. N), S # {}, NEW score,
           \A i \in S : score[i] \in Int
    PROVE  \E i \in S : IsBest(S, score, i)
<1> DEFINE Has(T) == \E i \in T : IsBest(T, score, i)
           Good == {n \in 0 .. N : \A T \in SUBSET S :
                        T \subseteq 1 .. n /\ T # {} => Has(T)}
<1>1. 0 \in Good
  <2>1. \A T \in SUBSET S : T \subseteq 1 .. 0 => T = {}
    OBVIOUS
  <2> HIDE DEF Has
  <2>2. \A T \in SUBSET S : T \subseteq 1 .. 0 /\ T # {} => Has(T)
    BY <2>1
  <2> QED
    BY <2>2
<1>2. ASSUME NEW n \in 0 .. N, n \in Good, n + 1 \in 0 .. N
      PROVE  n + 1 \in Good
  <2>1. SUFFICES ASSUME NEW T \in SUBSET S, T \subseteq 1 .. n + 1, T # {}
                 PROVE  Has(T)
    BY <1>2
  <2> DEFINE U == T \ {n + 1}
  <2>2. U \in SUBSET S /\ U \subseteq 1 .. n /\ \A i \in U : i < n + 1
    BY <2>1
  <2>3. CASE n + 1 \notin T
    <3>1. T \subseteq 1 .. n
      BY <2>2, <2>3
    <3> HIDE DEF Has
    <3> QED
      BY <1>2, <2>1, <3>1
  <2>4. CASE n + 1 \in T /\ U = {}
    <3>1. T = {n + 1}
      BY <2>4
    <3> QED
      BY <1>2, <3>1 DEF IsBest
  <2>5. CASE n + 1 \in T /\ U # {}
    <3>1. Has(U)
      <4> HIDE DEF Has, U
      <4> QED
        BY <1>2, <2>2, <2>5
    <3>2. PICK i \in U : \A j \in U :
                            score[i] > score[j] \/ (score[i] = score[j] /\ i <= j)
      BY <3>1 DEF IsBest
    <3>3. T = U \cup {n + 1} /\ \A j \in T : score[j] \in Int
      BY <2>5
    <3> HIDE DEF U
    <3>4. CASE score[n + 1] > score[i]
      <4>1. \A j \in U : score[n + 1] > score[j]
        BY <2>2, <3>2, <3>3, <3>4
      <4> QED
        BY <1>2, <3>3, <4>1 DEF IsBest
    <3>5. CASE ~(score[n + 1] > score[i])
      <4>1. score[i] > score[n + 1] \/ (score[i] = score[n + 1] /\ i <= n + 1)
        BY <2>2, <3>2, <3>3, <3>5
      <4>2. i <= i
        BY <2>2, <3>2
      <4> QED
        BY <3>2, <3>3, <4>1, <4>2 DEF IsBest
    <3> QED
      BY <3>4, <3>5
  <2> QED
    BY <2>3, <2>4, <2>5
<1>3. \A n \in 0 .. N : n \in Good
  <2>1. \A n \in 0 .. N : n \in Good /\ n + 1 \in 0 .. N => n + 1 \in Good
    BY <1>2
  <2> HIDE DEF Good
  <2> QED
    BY <1>1, <2>1, SetInduction
<1>4. N \in 0 .. N
  OBVIOUS
<1> HIDE DEF Has
<1>5. Has(S)
  BY <1>3, <1>4
<1> QED
  BY <1>5 DEF Has

\* What selectAccount is called with: positions of 1 .. N, at least one.
Choosable(N, available, strategy, cursor, track, rested) ==
    /\ N \in Nat
    /\ Len(available) \in Nat \ {0} /\ DOMAIN available = 1 .. Len(available)
    /\ \A k \in 1 .. Len(available) : available[k] \in 1 .. N
    /\ strategy \in {"sticky", "round-robin", "hybrid"}
    /\ cursor \in Nat
    /\ \A i \in 1 .. N : track[i] \in Tracker
    /\ \A k \in 1 .. Len(available) : rested[available[k]] \in BOOLEAN

\* selectAccount takes one of the positions it is offered.
LEMMA SelectAccountIs ==
    ASSUME NEW N, NEW available, NEW strategy, NEW current, NEW cursor, NEW track,
           NEW rested, Choosable(N, available, strategy, cursor, track, rested)
    PROVE  /\ SelectAccount(available, strategy, current, cursor, track, rested).cursor
                 \in Nat
           /\ \E k \in 1 .. Len(available) :
                 SelectAccount(available, strategy, current, cursor, track, rested).index
                     = available[k]
<1> DEFINE here == {available[k] : k \in DOMAIN available}
           base == [i \in here |-> HybridScore(track[i], rested[i])]
           usable == {i \in here : Usable(track[i])}
           best == BestOf(usable, current, base)
           choice == SelectAccount(available, strategy, current, cursor,
                                   track, rested)
           n == Len(available)
<1>0. /\ N \in Nat /\ cursor \in Nat
      /\ Len(available) \in Nat \ {0} /\ DOMAIN available = 1 .. Len(available)
      /\ \A k \in 1 .. Len(available) : available[k] \in 1 .. N
      /\ strategy \in {"sticky", "round-robin", "hybrid"}
      /\ \A i \in 1 .. N : track[i] \in Tracker
      /\ \A k \in 1 .. Len(available) : rested[available[k]] \in BOOLEAN
  BY DEF Choosable
<1> USE <1>0
<1>1. here \subseteq 1 .. N /\ usable \subseteq here
  OBVIOUS
<1>2. \A i \in here : base[i] \in Int
  BY <1>1, ScoreIs
<1>3. ASSUME usable # {} PROVE best \in usable
  <2> DEFINE score(i) == base[i] + (IF i = current THEN STICKINESS_BONUS ELSE 0)
             f == [i \in usable |-> score(i)]
  <2>1. \A i \in usable : f[i] \in Int
    <3>1. \A i \in usable : base[i] \in Int
      BY <1>1, <1>2
    <3> HIDE DEF base, usable
    <3> QED
      BY <3>1 DEF STICKINESS_BONUS
  <2>2. usable \in SUBSET (1 .. N)
    BY <1>1
  <2>3. best = CHOOSE i \in usable : \A j \in usable :
                   score(i) > score(j) \/ (score(i) = score(j) /\ i <= j)
    BY DEF BestOf
  <2> HIDE DEF usable, best, base
  <2>4. \E i \in usable : IsBest(usable, f, i)
    <3> HIDE DEF f
    <3> QED
      BY <1>3, <2>1, <2>2, BestExists
  <2>5. \E i \in usable : \A j \in usable :
            score(i) > score(j) \/ (score(i) = score(j) /\ i <= j)
    <3>1. PICK i \in usable : IsBest(usable, f, i)
      BY <2>4
    <3>2. \A j \in usable : score(i) > score(j) \/ (score(i) = score(j) /\ i <= j)
      BY <3>1 DEF IsBest
    <3> QED
      BY <3>2
  <2> HIDE DEF score
  <2> QED
    BY <2>3, <2>5
<1>4. /\ Turn(available, cursor).cursor \in Nat
      /\ \E k \in 1 .. n : Turn(available, cursor).index = available[k]
  <2>1. (cursor % n) + 1 \in 1 .. n
    OBVIOUS
  <2> QED
    BY <2>1 DEF Turn
<1>5. 1 \in 1 .. n
  OBVIOUS
<1>6. \A i \in here : \E k \in 1 .. n : i = available[k]
  OBVIOUS
<1>7. \/ choice = [index |-> current, cursor |-> cursor] /\ current \in here
      \/ choice = Turn(available, cursor)
      \/ choice = [index |-> available[1], cursor |-> cursor]
      \/ usable # {} /\ choice.cursor = cursor /\ choice.index \in {current, best}
         /\ (choice.index = best \/ current \in usable)
  BY DEF SelectAccount
<1> HIDE DEF choice, here, usable, best, n
<1>8. CASE choice = [index |-> current, cursor |-> cursor] /\ current \in here
  BY <1>6, <1>8 DEF n, choice
<1>9. CASE choice = Turn(available, cursor)
  BY <1>4, <1>9 DEF n, choice
<1>10. CASE choice = [index |-> available[1], cursor |-> cursor]
  BY <1>5, <1>10 DEF n, choice
<1>11. CASE /\ usable # {} /\ choice.cursor = cursor
            /\ choice.index \in {current, best}
            /\ (choice.index = best \/ current \in usable)
  <2>1. choice.index \in here
    BY <1>1, <1>3, <1>11
  <2> QED
    BY <1>6, <1>11, <2>1 DEF n, choice
<1> QED
  BY <1>7, <1>8, <1>9, <1>10, <1>11
------------------------------------------------------------------------------
(***************************************************************************)
(* The rows of the requests' process: one for an account.                  *)
(***************************************************************************)
AccountRow == {row \in Row : row.who = row.id /\ row.token = RowOf(row.id).token}

Rows(rows) ==
    /\ rows \in Seq(Row) /\ Distinct(rows)
    /\ \A i \in DOMAIN rows : rows[i] \in AccountRow

LEMMA AccountRowsAgree ==
    /\ Agree(AccountRow)
    /\ \A rows : Rows(rows) => RowSet(rows) \subseteq AccountRow
<1>1. \A a : RowOf(a).token.of = a
  BY DEF RowOf
<1>2. Agree(AccountRow)
  BY <1>1 DEF Agree, AccountRow
<1> QED
  BY <1>2 DEF Rows, RowSet

LEMMA AccountRowsAre ==
    /\ \A a \in Account : RowOf(a) \in AccountRow /\ RowOf(a).id = a
    /\ \A row \in AccountRow, e \in BOOLEAN :
           /\ [row EXCEPT !.enabled = e] \in AccountRow
           /\ [row EXCEPT !.enabled = e].id = row.id
    /\ \A row \in AccountRow :
           row.id \in Account /\ row.who = row.id /\ row.enabled \in BOOLEAN
<1>1. ASSUME NEW a \in Account PROVE RowOf(a) \in AccountRow /\ RowOf(a).id = a
  <2>1. RowOf(a) \in Row
    BY NamesOK DEF Row, Token, RowOf
  <2>2. RowOf(a).who = a /\ RowOf(a).id = a
    BY DEF RowOf
  <2> QED
    BY <2>1, <2>2 DEF AccountRow
<1>2. ASSUME NEW row \in AccountRow, NEW e \in BOOLEAN
      PROVE  /\ [row EXCEPT !.enabled = e] \in AccountRow
             /\ [row EXCEPT !.enabled = e].id = row.id
  <2>1. PICK new : new = [row EXCEPT !.enabled = e]
    OBVIOUS
  <2>2. row \in Row
    BY DEF AccountRow
  <2>3. /\ new \in Row /\ new.id = row.id /\ new.who = row.who
        /\ new.token = row.token /\ new.enabled = e
    BY <2>1, <2>2 DEF Row
  <2>4. new \in AccountRow
    BY <2>3 DEF AccountRow
  <2> QED
    BY <2>1, <2>3, <2>4
<1>3. ASSUME NEW row \in AccountRow
      PROVE  row.id \in Account /\ row.who = row.id /\ row.enabled \in BOOLEAN
  BY NamesOK DEF AccountRow, Row
<1> QED
  BY <1>1, <1>2, <1>3

\* There are no more rows than accounts, and an account has one position.
LEMMA RowsAre ==
    ASSUME NEW rows, Rows(rows)
    PROVE  /\ Len(rows) \in Nat /\ DOMAIN rows = 1 .. Len(rows)
           /\ Ids(rows) \subseteq Account /\ IsFiniteSet(Ids(rows))
           /\ Cardinality(Ids(rows)) = Len(rows)
           /\ Cardinality(Account) \in Nat /\ Len(rows) <= Cardinality(Account)
           /\ \A i, j \in DOMAIN rows : rows[i].id = rows[j].id => i = j
           /\ \A i \in DOMAIN rows : rows[i].id \in Account
           /\ Enabled(rows) \subseteq DOMAIN rows
<1>1. Len(rows) \in Nat /\ DOMAIN rows = 1 .. Len(rows)
  BY SeqIs DEF Rows
<1>2. \A i, j \in DOMAIN rows : rows[i].id = rows[j].id => i = j
  BY DEF Rows, Distinct
<1>3. \A i \in DOMAIN rows : rows[i].id \in Account
  BY AccountRowsAre DEF Rows
<1>4. Ids(rows) \subseteq Account
  BY <1>3 DEF Ids
<1>5. IsFiniteSet(Account) /\ Cardinality(Account) \in Nat
  BY ConstantsOK, FS_CardinalityType
<1>6. IsFiniteSet(Ids(rows)) /\ Cardinality(Ids(rows)) <= Cardinality(Account)
  BY <1>4, <1>5, FS_Subset
<1>7. ExistsBijection(1 .. Len(rows), Ids(rows))
  <2> DEFINE f == [i \in 1 .. Len(rows) |-> rows[i].id]
  <2>1. f \in [1 .. Len(rows) -> Ids(rows)]
    BY <1>1 DEF Ids
  <2>2. \A i, j \in 1 .. Len(rows) : f[i] = f[j] => i = j
    BY <1>1, <1>2
  <2>3. \A a \in Ids(rows) : \E i \in 1 .. Len(rows) : f[i] = a
    BY <1>1 DEF Ids
  <2> HIDE DEF f
  <2>4. f \in Injection(1 .. Len(rows), Ids(rows))
    BY <2>1, <2>2 DEF Injection, IsInjective
  <2>5. f \in Surjection(1 .. Len(rows), Ids(rows))
    BY <2>1, <2>3 DEF Surjection
  <2>6. f \in Bijection(1 .. Len(rows), Ids(rows))
    BY <2>4, <2>5 DEF Bijection
  <2> QED
    BY <2>6 DEF ExistsBijection
<1>8. Cardinality(Ids(rows)) = Len(rows)
  BY <1>1, <1>7, FS_CountingElements
<1> QED
  BY <1>1, <1>2, <1>3, <1>4, <1>5, <1>6, <1>8 DEF Enabled

LEMMA PositionIs ==
    ASSUME NEW m, Rows(m.rows), NEW a \in Ids(m.rows)
    PROVE  /\ Position(m, a) \in DOMAIN m.rows
           /\ m.rows[Position(m, a)].id = a
           /\ \A i \in DOMAIN m.rows : m.rows[i].id = a => i = Position(m, a)
<1>1. \E i \in DOMAIN m.rows : m.rows[i].id = a
  BY DEF Ids
<1>2. \A i, j \in DOMAIN m.rows : m.rows[i].id = m.rows[j].id => i = j
  BY RowsAre
<1>3. Position(m, a) \in DOMAIN m.rows /\ m.rows[Position(m, a)].id = a
  BY <1>1 DEF Position
<1> QED
  BY <1>2, <1>3

\* What the steps make of rows: the rows of a sync, of a save, of a disabled
\* account, and of a command of another process.
LEMMA SyncRows ==
    ASSUME NEW rows, Rows(rows), NEW disk, Rows(disk.rows), NEW current \in Nat
    PROVE  LET new == Reconciled(rows, disk)
               now == ReconciledCurrent(new, current, disk)
               active == Clamp(disk.rows, disk.active)
           IN  /\ Rows(new) /\ Ids(rows) \subseteq Ids(new)
               /\ now \in Nat
               /\ now = 0 \/ now \in DOMAIN new
               /\ active \in Enabled(disk.rows) => now \in DOMAIN new
<1> DEFINE new == Reconciled(rows, disk)
           now == ReconciledCurrent(new, current, disk)
           active == Clamp(disk.rows, disk.active)
           D == disk.rows
<1>0. /\ rows \in Seq(Row) /\ Distinct(rows) /\ D \in Seq(Row) /\ Distinct(D)
      /\ RowSet(rows) \subseteq AccountRow /\ RowSet(D) \subseteq AccountRow
  BY AccountRowsAgree DEF Rows
<1>1. /\ new \in Seq(Row) /\ Distinct(new)
      /\ \A m \in DOMAIN D : m \in DOMAIN new /\ new[m] = D[m]
      /\ \A j \in DOMAIN new : j \notin DOMAIN D =>
             \E i \in DOMAIN rows : new[j] = [rows[i] EXCEPT !.enabled = FALSE]
      /\ \A i \in DOMAIN rows : \E j \in DOMAIN new : new[j].who = rows[i].who
  BY <1>0, AccountRowsAgree, ReconciledInOrder
<1>2. Enabled(new) # {} => now \in Enabled(new)
  BY <1>0, AccountRowsAgree, SyncFindsActive
<1>3. ASSUME Enabled(new) = {} PROVE now = 0
  <2>1. active \notin Enabled(D)
    BY <1>1, <1>3 DEF Enabled
  <2>2. PICK index : now = CASE Enabled(new) = {} -> 0
              [] active \in Enabled(D) /\ index[1] -> index[2]
              [] active \in Enabled(D) /\ ~index[1] -> current
              [] active \notin Enabled(D) /\ current \in Enabled(new) -> current
              [] OTHER -> index[3]
    <3> DEFINE at(i) == LastOf({j \in DOMAIN new : new[j].id = new[i].id})
               target == at(Find(new, D[active]))
               all == <<new[target].enabled, target, at(FirstOf(Enabled(new)))>>
    <3>1. now = CASE Enabled(new) = {} -> 0
              [] active \in Enabled(D) /\ new[target].enabled -> target
              [] active \in Enabled(D) /\ ~new[target].enabled -> current
              [] active \notin Enabled(D) /\ current \in Enabled(new) -> current
              [] OTHER -> at(FirstOf(Enabled(new)))
      BY DEF ReconciledCurrent
    <3> HIDE DEF now, new, active, at, target
    <3>2. /\ all[1] = new[target].enabled /\ all[2] = target
          /\ all[3] = at(FirstOf(Enabled(new)))
      OBVIOUS
    <3> HIDE DEF all
    <3> QED
      BY <3>1, <3>2
  <2> HIDE DEF now, new, active, D
  <2> QED
    BY <1>3, <2>1, <2>2
<1> HIDE DEF new, now
<1>4. \A j \in DOMAIN new : new[j] \in AccountRow
  <2>1. ASSUME NEW j \in DOMAIN new PROVE new[j] \in AccountRow
    <3>1. CASE j \in DOMAIN D
      BY <1>1, <3>1 DEF Rows
    <3>2. CASE j \notin DOMAIN D
      <4>1. PICK i \in DOMAIN rows : new[j] = [rows[i] EXCEPT !.enabled = FALSE]
        BY <1>1, <3>2
      <4>2. rows[i] \in AccountRow /\ FALSE \in BOOLEAN
        BY DEF Rows
      <4> QED
        BY <4>1, <4>2, AccountRowsAre
    <3> QED
      BY <3>1, <3>2
  <2> QED
    BY <2>1
<1>5. Rows(new)
  BY <1>1, <1>4 DEF Rows
<1>6. Ids(rows) \subseteq Ids(new)
  <2>1. ASSUME NEW i \in DOMAIN rows PROVE rows[i].id \in Ids(new)
    <3>1. PICK j \in DOMAIN new : new[j].who = rows[i].who
      BY <1>1
    <3>2. new[j].id = rows[i].id
      BY <1>4, <3>1, AccountRowsAre DEF Rows
    <3> QED
      BY <3>2 DEF Ids
  <2> QED
    BY <2>1 DEF Ids
<1>7. DOMAIN new \subseteq Nat /\ Enabled(new) \subseteq DOMAIN new
  BY <1>1, SeqIs DEF Enabled
<1>8. now \in Nat /\ (now = 0 \/ now \in DOMAIN new)
  BY <1>2, <1>3, <1>7
<1>9. active \in Enabled(D) => now \in DOMAIN new
  <2>1. active \in Enabled(D) => active \in Enabled(new)
    BY <1>1 DEF Enabled
  <2> QED
    BY <1>2, <1>7, <2>1
<1> QED
  BY <1>5, <1>6, <1>8, <1>9 DEF new, now

LEMMA ClampNat ==
    ASSUME NEW rows \in Seq(Row), NEW i \in Nat
    PROVE  Clamp(rows, i) \in Nat
<1>1. Len(rows) \in Nat
  BY SeqIs
<1> QED
  BY <1>1 DEF Clamp

LEMMA SavedRows ==
    ASSUME NEW rows, Rows(rows), NEW disk, Rows(disk.rows), NEW current \in Nat
    PROVE  LET new == Prepare(rows, current, {}, disk)
           IN  Rows(new.rows) /\ new.active \in Nat
<1> DEFINE new == Prepare(rows, current, {}, disk)
           D == DiskRows(disk)
<1>0. <<>> \in Seq(Row) /\ DOMAIN <<>> = {}
  OBVIOUS
<1>1. Rows(D)
  BY <1>0 DEF DiskRows, Rows, Distinct
<1>2. rows \in Seq(Row) /\ D \in Seq(Row) /\ RowSet(D) \subseteq AccountRow
      /\ Distinct(D)
  BY <1>1, AccountRowsAgree DEF Rows
<1>3. /\ \/ new.rows = <<>>
         \/ \E S : /\ S \subseteq DOMAIN rows
                   /\ new.rows = Merged(ElementsAt(rows, S), {}, disk)
      /\ new.rows \in Seq(Row)
  BY <1>2, PrepareIs
<1>4. new.active = Locate(new.rows, IdAt(rows, current), current)
  BY DEF Prepare
<1> HIDE DEF new, D
<1>5. new.active \in Nat
  <2>1. DOMAIN new.rows \subseteq Nat
    BY <1>3, SeqIs
  <2> DEFINE S == {k \in DOMAIN new.rows : new.rows[k].id \in IdAt(rows, current)}
  <2>2. ASSUME IdAt(rows, current) \subseteq Ids(new.rows), IdAt(rows, current) # {}
        PROVE  FirstOf(S) \in Nat
    <3>1. S \subseteq Nat /\ S # {}
      BY <2>1, <2>2 DEF Ids
    <3> HIDE DEF S
    <3> QED
      BY <3>1, FirstOfIs
  <2>3. Clamp(new.rows, current) \in Nat
    BY <1>3, ClampNat
  <2> QED
    BY <1>4, <2>2, <2>3 DEF Locate
<1>6. CASE new.rows = <<>>
  <2>1. Rows(new.rows)
    BY <1>0, <1>6 DEF Rows, Distinct
  <2> QED
    BY <1>5, <2>1 DEF new
<1>7. CASE \E S : S \subseteq DOMAIN rows /\ new.rows = Merged(ElementsAt(rows, S), {}, disk)
  <2>1. PICK S : S \subseteq DOMAIN rows /\ new.rows = Merged(ElementsAt(rows, S), {}, disk)
    BY <1>7
  <2>2. PICK kept : kept = ElementsAt(rows, S)
    OBVIOUS
  <2>3. kept \in Seq(Row) /\ Distinct(kept)
    BY <1>2, <2>1, <2>2, RowsAtIs, RowsAtDistinct DEF Rows
  <2>4. RowSet(kept) \subseteq AccountRow
    <3>1. \A k \in DOMAIN kept : \E i \in DOMAIN rows : kept[k] = rows[i]
      <4> DEFINE at == InOrder(S)
      <4>1. \A k \in DOMAIN kept : at[k] \in S /\ kept[k] = rows[at[k]]
        BY <1>2, <2>1, <2>2, RowsAtIs
      <4> HIDE DEF at
      <4> QED
        BY <2>1, <4>1
    <3> QED
      BY <3>1 DEF Rows, RowSet
  <2>5. Distinct(new.rows)
    BY <1>2, <2>1, <2>2, <2>3, <2>4, AccountRowsAgree, MergedDistinct DEF D
  <2>6. ASSUME NEW j \in DOMAIN new.rows PROVE new.rows[j] \in AccountRow
    <3>1. PICK others : others = Foreign(kept, {}, disk)
      OBVIOUS
    <3>2. /\ j \in DOMAIN kept => new.rows[j] = Freshest(kept[j], disk)
          /\ j \notin DOMAIN kept => /\ j - Len(kept) \in DOMAIN others
                                     /\ new.rows[j] = others[j - Len(kept)]
      BY <1>2, <2>1, <2>2, <2>3, <3>1, MergedIs DEF D
    <3>3. CASE j \in DOMAIN kept
      <4>1. PICK row : row = kept[j] /\ row \in AccountRow /\ row \in Row
        BY <2>4, <3>3 DEF RowSet, AccountRow
      <4>2. PICK n : n = Freshest(row, disk)
        OBVIOUS
      <4>3. /\ n \in Row /\ n.id = row.id /\ n.who = row.who
            /\ \/ n = row
               \/ \E k \in DOMAIN D : n.token = D[k].token
                                      /\ (D[k].id = row.id \/ D[k].who = row.who)
        BY <1>2, <4>1, <4>2, FreshestIs DEF D
      <4>4. \A k \in DOMAIN D : D[k] \in AccountRow
        BY <1>1 DEF Rows
      <4>5. n \in AccountRow
        BY <4>1, <4>3, <4>4 DEF AccountRow
      <4> QED
        BY <3>2, <3>3, <4>1, <4>2, <4>5
    <3>4. CASE j \notin DOMAIN kept
      <4>1. PICK n : n = j - Len(kept) /\ n \in DOMAIN others /\ new.rows[j] = others[n]
        BY <3>2, <3>4
      <4>2. \E k \in DOMAIN D : others[n] = D[k]
        BY <1>2, <2>3, <3>1, <4>1, ForeignIs DEF D
      <4> QED
        BY <1>1, <4>1, <4>2 DEF Rows
    <3> QED
      BY <3>3, <3>4
  <2>7. Rows(new.rows)
    BY <1>3, <2>5, <2>6 DEF Rows
  <2> QED
    BY <1>5, <2>7 DEF new
<1> QED
  BY <1>3, <1>6, <1>7
------------------------------------------------------------------------------
(***************************************************************************)
(* The manager: each position has what the account that is there has       *)
(* earned.                                                                 *)
(***************************************************************************)
Positions == 1 .. Cardinality(Account)

Tracks(rows, track, earned) ==
    /\ track \in [Positions -> Tracker] /\ earned \in [Account -> Tracker]
    /\ \A i \in DOMAIN rows : track[i] = earned[rows[i].id]

Manager(m) ==
    /\ m = [f \in MemoryFields |-> m[f]]
    /\ Rows(m.rows)
    /\ m.current \in Nat /\ m.cursor \in Nat
    /\ m.data \in [Account -> Data]
    /\ Tracks(m.rows, m.track, m.earned)

Disk(d) ==
    /\ d = [f \in {"rows", "active", "data"} |-> d[f]]
    /\ Rows(d.rows) /\ d.active \in Nat
    /\ d.data \in [Account -> Data]

LEMMA OneTracker ==
    ASSUME NEW rows, Rows(rows), NEW track, NEW earned, Tracks(rows, track, earned),
           NEW i \in DOMAIN rows, NEW t \in Tracker
    PROVE  Tracks(rows, [track EXCEPT ![i] = t], [earned EXCEPT ![rows[i].id] = t])
<1>1. /\ \A j, k \in DOMAIN rows : rows[j].id = rows[k].id => j = k
      /\ \A j \in DOMAIN rows : rows[j].id \in Account /\ j \in Positions
  BY RowsAre DEF Positions
<1>2. PICK new, own : /\ new = [track EXCEPT ![i] = t]
                      /\ own = [earned EXCEPT ![rows[i].id] = t]
  OBVIOUS
<1>3. new \in [Positions -> Tracker] /\ own \in [Account -> Tracker]
  BY <1>2 DEF Tracks
<1>4. ASSUME NEW j \in DOMAIN rows PROVE new[j] = own[rows[j].id]
  <2>1. CASE j = i
    BY <1>1, <1>2, <2>1 DEF Tracks
  <2>2. CASE j # i
    BY <1>1, <1>2, <2>2 DEF Tracks
  <2> QED
    BY <2>1, <2>2
<1> QED
  BY <1>2, <1>3, <1>4 DEF Tracks

LEMMA DatumIs ==
    ASSUME NEW n \in Nat, NEW b \in BOOLEAN
    PROVE  /\ [NoData EXCEPT !.token = b] \in Data
           /\ \A d \in Data : /\ [d EXCEPT !.failures = n] \in Data
                              /\ [d EXCEPT !.limited = n] \in Data
                              /\ [d EXCEPT !.token = b] \in Data
                              /\ [d EXCEPT !.used = b] \in Data
BY DEF Data, NoData

LEMMA FailuresAre ==
    ASSUME NEW data \in [Account -> Data], NEW a \in Account, NEW n \in Nat
    PROVE  /\ [data EXCEPT ![a].failures = n] \in [Account -> Data]
           /\ [data EXCEPT ![a].limited = n] \in [Account -> Data]
<1>1. PICK d \in Data : d = data[a]
  OBVIOUS
<1>2. [d EXCEPT !.failures = n] \in Data /\ [d EXCEPT !.limited = n] \in Data
  BY DatumIs
<1> QED
  BY <1>1, <1>2

LEMMA FlagsAre ==
    ASSUME NEW data \in [Account -> Data], NEW a \in Account, NEW b \in BOOLEAN
    PROVE  /\ [data EXCEPT ![a].token = b] \in [Account -> Data]
           /\ [data EXCEPT ![a].used = b] \in [Account -> Data]
           /\ [data EXCEPT ![a] = [NoData EXCEPT !.token = b]] \in [Account -> Data]
<1>1. PICK d \in Data : d = data[a]
  OBVIOUS
<1>2. /\ [d EXCEPT !.token = b] \in Data /\ [d EXCEPT !.used = b] \in Data
      /\ [NoData EXCEPT !.token = b] \in Data
  BY DatumIs
<1> QED
  BY <1>1, <1>2

LEMMA BackoffIs ==
    ASSUME NEW reason, NEW failures \in Nat, NEW retryAfter \in Nat
    PROVE  CalculateBackoffMs(reason, failures, retryAfter) \in Nat
<1>1. \A k \in 1 .. 4 : QUOTA_EXHAUSTED_BACKOFFS[k] \in Nat
  BY DEF QUOTA_EXHAUSTED_BACKOFFS
<1>2. (IF failures > 3 THEN 4 ELSE failures + 1) \in 1 .. 4
  OBVIOUS
<1>3. PICK k \in 1 .. 4 : k = IF failures > 3 THEN 4 ELSE failures + 1
  BY <1>2
<1>4. CalculateBackoffMs(reason, failures, retryAfter) =
         CASE retryAfter > 0 -> IF retryAfter < 2000 THEN 2000 ELSE retryAfter
           [] retryAfter = 0 /\ reason = "AUTH_FAILED" -> 5000
           [] retryAfter = 0 /\ reason = "QUOTA_EXHAUSTED" ->
                 QUOTA_EXHAUSTED_BACKOFFS[k]
           [] OTHER -> 30000
  BY <1>3 DEF CalculateBackoffMs
<1>5. QUOTA_EXHAUSTED_BACKOFFS[k] \in Nat
  BY <1>1
<1> QED
  BY <1>4, <1>5

\* An account of the rows is marked: at its position and on its own account.
LEMMA MarkIs ==
    ASSUME NEW m, Manager(m), NEW a \in Ids(m.rows), NEW t \in Tracker,
           NEW n, n = [f \in MemoryFields |-> n[f]], n.rows = m.rows,
           n.current \in Nat, n.cursor \in Nat, n.data \in [Account -> Data],
           n.track = [m.track EXCEPT ![Position(m, a)] = t],
           n.earned = [m.earned EXCEPT ![a] = t]
    PROVE  Manager(n)
<1>0. Rows(m.rows)
  BY DEF Manager
<1>1. PICK i \in DOMAIN m.rows : i = Position(m, a) /\ m.rows[i].id = a
  BY <1>0, PositionIs
<1>2. Tracks(m.rows, m.track, m.earned)
  BY Zenon DEF Manager
<1>3. Tracks(m.rows, [m.track EXCEPT ![i] = t], [m.earned EXCEPT ![m.rows[i].id] = t])
  BY <1>0, <1>1, <1>2, OneTracker, Zenon
<1>4. n.track = [m.track EXCEPT ![i] = t] /\ n.earned = [m.earned EXCEPT ![m.rows[i].id] = t]
  BY <1>1, Zenon
<1>5. Tracks(m.rows, n.track, n.earned)
  BY <1>3, <1>4, Zenon
<1> QED
  BY <1>5 DEF Manager

LEMMA TrackerOf ==
    ASSUME NEW m, Manager(m), NEW a \in Ids(m.rows)
    PROVE  m.track[Position(m, a)] \in Tracker
           /\ m.earned[a] = m.track[Position(m, a)]
<1>0. Rows(m.rows)
  BY DEF Manager
<1>1. PICK i \in DOMAIN m.rows : i = Position(m, a) /\ m.rows[i].id = a
  BY <1>0, PositionIs
<1>2. i \in Positions
  BY RowsAre DEF Manager, Positions
<1> QED
  BY <1>1, <1>2 DEF Manager, Tracks

LEMMA MarkedManager ==
    ASSUME NEW m, Manager(m), NEW a \in Ids(m.rows), NEW reason,
           NEW retryAfter \in Nat
    PROVE  /\ Manager(MarkSuccess(m, a)) /\ MarkSuccess(m, a).rows = m.rows
           /\ Manager(MarkFailure(m, a)) /\ MarkFailure(m, a).rows = m.rows
           /\ Manager(Limited(m, a, reason, retryAfter))
           /\ Limited(m, a, reason, retryAfter).rows = m.rows
<1>1. PICK p, t : /\ p = Position(m, a) /\ t = m.track[p] /\ m.earned[a] = t
                  /\ t \in Tracker
  BY TrackerOf
<1>2. PICK data : data = m.data /\ data \in [Account -> Data]
  BY DEF Manager
<1>3. a \in Account /\ 0 \in Nat
  BY RowsAre DEF Manager
<1>4. Manager(MarkSuccess(m, a)) /\ MarkSuccess(m, a).rows = m.rows
  <2>1. PICK u : u = RecordSuccess(t) /\ u \in Tracker
    BY <1>1, TrackersAre
  <2>2. PICK n : n = MarkSuccess(m, a)
    OBVIOUS
  <2>3. n = [m EXCEPT !.track[p] = u, !.earned[a] = u, !.data[a].failures = 0]
    BY <1>1, <2>1, <2>2 DEF MarkSuccess
  <2>4. /\ n = [f \in MemoryFields |-> n[f]] /\ n.rows = m.rows
        /\ n.current = m.current /\ n.cursor = m.cursor
        /\ n.track = [m.track EXCEPT ![p] = u]
        /\ n.earned = [m.earned EXCEPT ![a] = u]
        /\ n.data = [data EXCEPT ![a].failures = 0]
    BY <1>2, <2>3 DEF Manager, MemoryFields
  <2>5. n.data \in [Account -> Data]
    <3>1. [data EXCEPT ![a].failures = 0] \in [Account -> Data]
      BY <1>2, <1>3, FailuresAre
    <3> QED
      BY <2>4, <3>1
  <2> QED
    <3>1. n.current \in Nat /\ n.cursor \in Nat
      BY <2>4 DEF Manager
    <3> QED
      BY <1>1, <2>1, <2>2, <2>4, <2>5, <3>1, MarkIs
<1>5. Manager(MarkFailure(m, a)) /\ MarkFailure(m, a).rows = m.rows
  <2>1. PICK u : u = RecordFailure(t) /\ u \in Tracker
    BY <1>1, TrackersAre
  <2>2. PICK n : n = MarkFailure(m, a)
    OBVIOUS
  <2>3. n = [m EXCEPT !.track[p] = u, !.earned[a] = u]
    BY <1>1, <2>1, <2>2 DEF MarkFailure
  <2>4. /\ n = [f \in MemoryFields |-> n[f]] /\ n.rows = m.rows
        /\ n.current = m.current /\ n.cursor = m.cursor
        /\ n.track = [m.track EXCEPT ![p] = u]
        /\ n.earned = [m.earned EXCEPT ![a] = u]
        /\ n.data = data
    BY <1>2, <2>3 DEF Manager, MemoryFields
  <2>5. n.current \in Nat /\ n.cursor \in Nat /\ n.data \in [Account -> Data]
    BY <1>2, <2>4 DEF Manager
  <2> QED
    BY <1>1, <2>1, <2>2, <2>4, <2>5, MarkIs
<1>6. PICK n : n = MarkRateLimited(m, a, reason, retryAfter)
  OBVIOUS
<1>7. Manager(n) /\ n.rows = m.rows
  <2>1. PICK u : u = RecordRateLimit(t) /\ u \in Tracker
    BY <1>1, TrackersAre
  <2>2. PICK x, y : /\ x = data[a].failures + 1
                    /\ y = CalculateBackoffMs(reason, data[a].failures, retryAfter)
    OBVIOUS
  <2>3. x \in Nat /\ y \in Nat
    <3>1. data[a].failures \in Nat
      BY <1>2, <1>3 DEF Data
    <3> QED
      BY <2>2, <3>1, BackoffIs
  <2>4. n = [m EXCEPT !.track[p] = u, !.earned[a] = u,
                      !.data[a].failures = x, !.data[a].limited = y]
    BY <1>1, <1>2, <1>6, <2>1, <2>2 DEF MarkRateLimited
  <2>5. PICK n1, n2 : /\ n1 = [m EXCEPT !.track[p] = u, !.earned[a] = u]
                      /\ n2 = [n1 EXCEPT !.data[a].failures = x]
    OBVIOUS
  <2>6. n = [n2 EXCEPT !.data[a].limited = y]
    BY <2>4, <2>5
  <2>7. /\ n1 = [f \in MemoryFields |-> n1[f]] /\ n1.rows = m.rows
        /\ n1.current = m.current /\ n1.cursor = m.cursor
        /\ n1.track = [m.track EXCEPT ![p] = u]
        /\ n1.earned = [m.earned EXCEPT ![a] = u]
        /\ n1.data = data
    BY <1>2, <2>5 DEF Manager, MemoryFields
  <2>8. /\ n2 = [f \in MemoryFields |-> n2[f]] /\ n2.rows = m.rows
        /\ n2.current = m.current /\ n2.cursor = m.cursor
        /\ n2.track = n1.track /\ n2.earned = n1.earned
        /\ n2.data = [data EXCEPT ![a].failures = x]
    BY <2>5, <2>7 DEF MemoryFields
  <2>9. /\ n = [f \in MemoryFields |-> n[f]] /\ n.rows = m.rows
        /\ n.current = m.current /\ n.cursor = m.cursor
        /\ n.track = n1.track /\ n.earned = n1.earned
        /\ n.data = [n2.data EXCEPT ![a].limited = y]
    BY <2>6, <2>8 DEF MemoryFields
  <2>10. n.data \in [Account -> Data]
    <3>1. PICK d2 : d2 = [data EXCEPT ![a].failures = x]
      OBVIOUS
    <3>2. d2 \in [Account -> Data]
      <4>1. [data EXCEPT ![a].failures = x] \in [Account -> Data]
        BY <1>2, <1>3, <2>3, FailuresAre
      <4> QED
        BY <3>1, <4>1
    <3>3. [d2 EXCEPT ![a].limited = y] \in [Account -> Data]
      BY <1>3, <2>3, <3>2, FailuresAre
    <3> QED
      BY <2>8, <2>9, <3>1, <3>3
  <2>11. /\ n.current \in Nat /\ n.cursor \in Nat
         /\ n.track = [m.track EXCEPT ![p] = u] /\ n.earned = [m.earned EXCEPT ![a] = u]
    BY <2>7, <2>9 DEF Manager
  <2> QED
    BY <1>1, <2>1, <2>9, <2>10, <2>11, MarkIs
<1>8. PICK l : l = Limited(m, a, reason, retryAfter)
  OBVIOUS
<1>9. CASE reason = "AUTH_FAILED"
  <2>1. l = [n EXCEPT !.data[a].token = FALSE]
    BY <1>6, <1>8, <1>9 DEF Limited
  <2>2. PICK given : given = n.data /\ given \in [Account -> Data]
    BY <1>7 DEF Manager
  <2>3. /\ l = [f \in MemoryFields |-> l[f]] /\ l.rows = n.rows
        /\ l.current = n.current /\ l.cursor = n.cursor
        /\ l.track = n.track /\ l.earned = n.earned
        /\ l.data = [given EXCEPT ![a].token = FALSE]
    BY <1>7, <2>1, <2>2 DEF Manager, MemoryFields
  <2>4. l.data \in [Account -> Data]
    <3>1. [given EXCEPT ![a].token = FALSE] \in [Account -> Data]
      BY <1>3, <2>2, FlagsAre
    <3> QED
      BY <2>3, <3>1
  <2>5. Manager(l) /\ l.rows = m.rows
    BY <1>7, <2>3, <2>4 DEF Manager
  <2> QED
    BY <1>4, <1>5, <1>8, <2>5
<1>10. CASE reason # "AUTH_FAILED"
  <2>1. l = n
    BY <1>6, <1>8, <1>10 DEF Limited
  <2> QED
    BY <1>4, <1>5, <1>7, <1>8, <2>1
<1> QED
  BY <1>9, <1>10
\* The positions that selectAccount is offered.
Offered(m, skip) == {i \in Enabled(m.rows) \ skip : m.data[m.rows[i].id].limited = 0}

LEMMA AvailableIs ==
    ASSUME NEW m, Manager(m), NEW skip
    PROVE  LET available == Available(m, skip)
           IN  /\ Len(available) \in Nat /\ DOMAIN available = 1 .. Len(available)
               /\ \A k \in 1 .. Len(available) : available[k] \in Offered(m, skip)
               /\ available = <<>> => Offered(m, skip) = {}
               /\ available # <<>> => Len(available) # 0
<1> DEFINE S == Offered(m, skip)
           available == Available(m, skip)
           n == Cardinality(S)
<1>1. S \subseteq Nat /\ IsFiniteSet(S)
  <2>1. S \subseteq DOMAIN m.rows
    BY DEF Enabled, Offered
  <2>2. m.rows \in Seq(Row)
    BY DEF Manager, Rows
  <2> HIDE DEF S
  <2> QED
    BY <2>1, <2>2, SeqIs
<1>2. available = InOrder(S)
  BY DEF Available, Offered
<1> HIDE DEF available, S
<1>3. /\ n \in Nat /\ DOMAIN available = 1 .. n
      /\ \A k \in 1 .. n : available[k] \in S
      /\ \A i \in S : \E k \in 1 .. n : available[k] = i
  BY <1>1, <1>2, InOrderIs
<1>4. available = [k \in 1 .. n |-> available[k]]
  BY <1>2, <1>3 DEF InOrder
<1> HIDE DEF n
<1>5. available \in Seq(S) /\ Len(available) = n
  BY <1>3, <1>4
<1>6. available = <<>> => S = {}
  BY <1>3, <1>5
<1>7. available # <<>> => Len(available) # 0
  BY <1>5
<1> QED
  BY <1>3, <1>5, <1>6, <1>7 DEF available, S

\* The account that is selected is an enabled one that does not rest and is
\* not skipped.
LEMMA SelectedIs ==
    ASSUME NEW m, Manager(m), NEW skip, Available(m, skip) # <<>>,
           session.strategy \in {"sticky", "round-robin", "hybrid"}
    PROVE  /\ Manager(Select(m, skip)) /\ Select(m, skip).rows = m.rows
           /\ Select(m, skip).current \in Enabled(m.rows) \ skip
           /\ m.data[m.rows[Select(m, skip).current].id].limited = 0
<1> DEFINE available == Available(m, skip)
           rested == [i \in DOMAIN m.rows |-> ~m.data[m.rows[i].id].used]
           choice == SelectAccount(available, session.strategy,
                                   m.current, m.cursor, m.track, rested)
           N == Cardinality(Account)
<1>1. /\ Len(available) \in Nat \ {0} /\ DOMAIN available = 1 .. Len(available)
      /\ \A k \in 1 .. Len(available) : available[k] \in Offered(m, skip)
  BY AvailableIs
<1>2. Rows(m.rows)
  BY DEF Manager
<1>3. /\ N \in Nat /\ DOMAIN m.rows \subseteq 1 .. N
      /\ \A i \in DOMAIN m.rows : m.rows[i].id \in Account
  BY <1>2, RowsAre
<1>4. Offered(m, skip) \subseteq DOMAIN m.rows
  BY DEF Offered, Enabled
<1>5. \A i \in 1 .. N : m.track[i] \in Tracker
  BY DEF Manager, Tracks, Positions
<1>6. \A i \in DOMAIN m.rows : rested[i] \in BOOLEAN
  OBVIOUS
<1>7. m.cursor \in Nat
  BY DEF Manager
<1> HIDE DEF available, rested, N
<1>8. /\ choice.cursor \in Nat
      /\ \E k \in 1 .. Len(available) : choice.index = available[k]
  <2>1. /\ \A k \in 1 .. Len(available) : available[k] \in 1 .. N
        /\ \A k \in 1 .. Len(available) : rested[available[k]] \in BOOLEAN
    BY <1>1, <1>3, <1>4, <1>6
  <2>2. PICK s, c, q, k, v, e, n :
             /\ s = session.strategy /\ c = m.current /\ q = m.cursor
             /\ k = m.track /\ v = available /\ e = rested /\ n = N
    OBVIOUS
  <2>3. /\ choice = SelectAccount(v, s, c, q, k, e)
        /\ s \in {"sticky", "round-robin", "hybrid"} /\ q \in Nat /\ n \in Nat
        /\ Len(v) \in Nat \ {0} /\ DOMAIN v = 1 .. Len(v)
        /\ \A i \in 1 .. n : k[i] \in Tracker
        /\ \A j \in 1 .. Len(v) : v[j] \in 1 .. n
        /\ \A j \in 1 .. Len(v) : e[v[j]] \in BOOLEAN
    BY <1>1, <1>3, <1>5, <1>7, <2>1, <2>2
  <2>4. /\ SelectAccount(v, s, c, q, k, e).cursor \in Nat
        /\ \E j \in 1 .. Len(v) : SelectAccount(v, s, c, q, k, e).index = v[j]
    <3>1. Choosable(n, v, s, q, k, e)
      BY <2>3 DEF Choosable
    <3> QED
      BY <3>1, SelectAccountIs
  <2> HIDE DEF choice
  <2> QED
    BY <2>2, <2>3, <2>4
<1>9. PICK i, cursor : /\ i = choice.index /\ cursor = choice.cursor
                       /\ i \in Offered(m, skip) /\ cursor \in Nat
  BY <1>1, <1>8
<1>10. PICK n, a, t : /\ n = Select(m, skip) /\ a = m.rows[i].id
                      /\ t = Consume(m.track[i])
  OBVIOUS
<1>11. i \in DOMAIN m.rows /\ i \in Nat /\ m.track[i] \in Tracker
  BY <1>3, <1>4, <1>5, <1>9
<1>12. /\ a \in Account /\ a \in Ids(m.rows) /\ Position(m, a) = i
       /\ m.earned[a] = m.track[i] /\ t \in Tracker
  <2>1. a \in Ids(m.rows) /\ a \in Account
    BY <1>3, <1>10, <1>11 DEF Ids
  <2>2. Position(m, a) = i
    BY <1>2, <1>10, <1>11, <2>1, PositionIs
  <2>3. m.earned[a] = m.track[i]
    BY <1>10, <1>11 DEF Manager, Tracks
  <2> QED
    BY <1>10, <1>11, <2>1, <2>2, <2>3, TrackersAre
<1>13. n = [m EXCEPT !.track[i] = t, !.earned[a] = t, !.current = i,
                     !.cursor = cursor, !.data[a].used = TRUE]
  BY <1>9, <1>10, <1>12 DEF Select, choice, available, rested
<1> HIDE DEF choice
<1>14. PICK data : data = m.data /\ data \in [Account -> Data]
  BY DEF Manager
<1>15. /\ n = [f \in MemoryFields |-> n[f]] /\ n.rows = m.rows
       /\ n.current = i /\ n.cursor = cursor
       /\ n.track = [m.track EXCEPT ![i] = t]
       /\ n.earned = [m.earned EXCEPT ![a] = t]
       /\ n.data = [data EXCEPT ![a].used = TRUE]
  <2>1. PICK n1 : n1 = [m EXCEPT !.track[i] = t, !.earned[a] = t]
    OBVIOUS
  <2>2. PICK n2 : n2 = [n1 EXCEPT !.current = i, !.cursor = cursor]
    OBVIOUS
  <2>3. n = [n2 EXCEPT !.data[a].used = TRUE]
    BY <1>13, <2>1, <2>2
  <2>4. /\ n1 = [f \in MemoryFields |-> n1[f]] /\ n1.rows = m.rows
        /\ n1.track = [m.track EXCEPT ![i] = t]
        /\ n1.earned = [m.earned EXCEPT ![a] = t] /\ n1.data = data
    BY <1>14, <2>1 DEF Manager, MemoryFields
  <2>5. /\ n2 = [f \in MemoryFields |-> n2[f]] /\ n2.rows = m.rows
        /\ n2.current = i /\ n2.cursor = cursor
        /\ n2.track = n1.track /\ n2.earned = n1.earned /\ n2.data = data
    BY <2>2, <2>4 DEF MemoryFields
  <2> QED
    BY <2>3, <2>4, <2>5 DEF MemoryFields
<1>16. n.data \in [Account -> Data]
  <2>1. [data EXCEPT ![a].used = TRUE] \in [Account -> Data]
    BY <1>12, <1>14, FlagsAre
  <2> QED
    BY <1>15, <2>1
<1>17. Manager(n)
  BY <1>9, <1>11, <1>12, <1>15, <1>16, MarkIs
<1>18. i \in Enabled(m.rows) \ skip /\ m.data[m.rows[i].id].limited = 0
  BY <1>9 DEF Offered
<1> QED
  BY <1>10, <1>15, <1>17, <1>18

\* An account is disabled where it is.
Disabled(m, i) == [m EXCEPT !.rows[i] = [RowOf(@.id) EXCEPT !.enabled = FALSE]]

LEMMA DisabledIs ==
    ASSUME NEW m, Manager(m), NEW i \in DOMAIN m.rows
    PROVE  LET n == Disabled(m, i)
           IN  /\ Manager(n) /\ IdsInOrder(n.rows) = IdsInOrder(m.rows)
               /\ Enabled(n.rows) = Enabled(m.rows) \ {i}
               /\ n.data = m.data /\ n.current = m.current
<1> DEFINE n == Disabled(m, i)
           row == [RowOf(m.rows[i].id) EXCEPT !.enabled = FALSE]
           rows == [m.rows EXCEPT ![i] = row]
<1>1. /\ n = [f \in MemoryFields |-> n[f]] /\ n.rows = rows
      /\ n.current = m.current /\ n.cursor = m.cursor /\ n.data = m.data
      /\ n.track = m.track /\ n.earned = m.earned
  BY DEF Manager, MemoryFields, Disabled
<1>2. Rows(m.rows)
  BY DEF Manager
<1>3. m.rows[i].id \in Account
  BY <1>2, RowsAre
<1>4. row \in AccountRow /\ row.id = m.rows[i].id /\ ~row.enabled
  <2>1. PICK old : old = RowOf(m.rows[i].id) /\ old \in AccountRow
                   /\ old.id = m.rows[i].id
    BY <1>3, AccountRowsAre
  <2>2. row = [old EXCEPT !.enabled = FALSE] /\ FALSE \in BOOLEAN
    BY <2>1
  <2>3. [old EXCEPT !.enabled = FALSE] \in AccountRow
        /\ [old EXCEPT !.enabled = FALSE].id = old.id
    BY <2>1, AccountRowsAre
  <2>4. ~row.enabled
    BY DEF RowOf
  <2> QED
    BY <2>1, <2>2, <2>3, <2>4
<1> HIDE DEF n, row
<1>5. /\ rows \in Seq(Row) /\ DOMAIN rows = DOMAIN m.rows
      /\ \A j \in DOMAIN rows : rows[j] = IF j = i THEN row ELSE m.rows[j]
  <2>1. row \in Row
    BY <1>4 DEF AccountRow
  <2> QED
    BY <1>2, <2>1 DEF Rows
<1> HIDE DEF rows
<1>6. \A j \in DOMAIN rows : /\ rows[j] \in AccountRow /\ rows[j].id = m.rows[j].id
                             /\ rows[j].who = rows[j].id
  <2>1. \A j \in DOMAIN rows : rows[j] \in AccountRow /\ rows[j].id = m.rows[j].id
    BY <1>2, <1>4, <1>5 DEF Rows
  <2> QED
    BY <2>1, AccountRowsAre
<1>7. Distinct(rows)
  <2>1. \A j, k \in DOMAIN m.rows : m.rows[j].id = m.rows[k].id => j = k
    BY <1>2, RowsAre
  <2> QED
    BY <1>5, <1>6, <2>1 DEF Distinct
<1>8. Rows(rows)
  BY <1>5, <1>6, <1>7 DEF Rows
<1>9. IdsInOrder(rows) = IdsInOrder(m.rows)
  BY <1>5, <1>6 DEF IdsInOrder
<1>10. Enabled(rows) = Enabled(m.rows) \ {i}
  BY <1>4, <1>5 DEF Enabled
<1>11. Tracks(rows, n.track, n.earned)
  BY <1>1, <1>5, <1>6 DEF Manager, Tracks
<1>12. Manager(n)
  <2>1. m.current \in Nat /\ m.cursor \in Nat /\ m.data \in [Account -> Data]
    BY DEF Manager
  <2> QED
    BY <1>1, <1>8, <1>11, <2>1 DEF Manager
<1> QED
  BY <1>1, <1>9, <1>10, <1>12 DEF n
\* Rows with the same ids in the same order.
LEMMA InPlace ==
    ASSUME NEW rows, NEW now, IdsInOrder(now) = IdsInOrder(rows)
    PROVE  /\ DOMAIN now = DOMAIN rows /\ Ids(now) = Ids(rows)
           /\ \A i \in DOMAIN rows : now[i].id = rows[i].id
<1>1. DOMAIN IdsInOrder(now) = DOMAIN now /\ DOMAIN IdsInOrder(rows) = DOMAIN rows
  BY DEF IdsInOrder
<1>2. DOMAIN now = DOMAIN rows
  BY <1>1
<1>3. \A i \in DOMAIN rows : IdsInOrder(now)[i] = now[i].id
  BY <1>2 DEF IdsInOrder
<1>4. \A i \in DOMAIN rows : IdsInOrder(rows)[i] = rows[i].id
  BY DEF IdsInOrder
<1>5. \A i \in DOMAIN rows : now[i].id = rows[i].id
  BY <1>3, <1>4
<1> QED
  BY <1>2, <1>5 DEF Ids

\* A sync: the rows move, and either the trackers move with them or all of them
\* start anew.
LEMMA SyncedTracks ==
    ASSUME NEW m, Manager(m), NEW rows, Rows(rows), NEW current,
           NEW takes \in BOOLEAN, takes => current \in DOMAIN rows,
           NEW track, NEW earned, NEW rebuild \in BOOLEAN,
           ~rebuild => IdsInOrder(rows) = IdsInOrder(m.rows),
           NEW known, known = Ids(m.rows),
           track = [i \in Positions |->
               LET t1 == IF rebuild THEN NewTracker ELSE m.track[i]
               IN  IF takes /\ i = current THEN [t1 EXCEPT !.score = InitialScore]
                   ELSE t1],
           earned = [a \in Account |->
               LET t1 == IF rebuild THEN NewTracker
                         ELSE IF a \in known THEN m.earned[a] ELSE NewTracker
               IN  IF takes /\ a = rows[current].id
                   THEN [t1 EXCEPT !.score = InitialScore] ELSE t1]
    PROVE  Tracks(rows, track, earned)
<1>1. /\ m.track \in [Positions -> Tracker] /\ m.earned \in [Account -> Tracker]
      /\ \A i \in DOMAIN m.rows : m.track[i] = m.earned[m.rows[i].id]
      /\ Rows(m.rows)
  BY DEF Manager, Tracks
<1>2. track \in [Positions -> Tracker]
  <2>1. ASSUME NEW i \in Positions PROVE track[i] \in Tracker
    <3>1. PICK t : t = IF rebuild THEN NewTracker ELSE m.track[i]
      OBVIOUS
    <3>2. t \in Tracker
      BY <1>1, <3>1, TrackersAre
    <3>3. [t EXCEPT !.score = InitialScore] \in Tracker
      BY <3>2, TrackersAre
    <3>4. track[i] = IF takes /\ i = current THEN [t EXCEPT !.score = InitialScore] ELSE t
      BY <3>1
    <3> QED
      BY <3>2, <3>3, <3>4
  <2> QED
    BY <2>1
<1>3. earned \in [Account -> Tracker]
  <2>1. ASSUME NEW a \in Account PROVE earned[a] \in Tracker
    <3>1. PICK t : t = IF rebuild THEN NewTracker
                       ELSE IF a \in known THEN m.earned[a] ELSE NewTracker
      OBVIOUS
    <3>2. t \in Tracker
      BY <1>1, <3>1, TrackersAre
    <3>3. [t EXCEPT !.score = InitialScore] \in Tracker
      BY <3>2, TrackersAre
    <3>4. earned[a] = IF takes /\ a = rows[current].id
                      THEN [t EXCEPT !.score = InitialScore] ELSE t
      BY <3>1
    <3> QED
      BY <3>2, <3>3, <3>4
  <2> QED
    BY <2>1
<1>4. ASSUME NEW i \in DOMAIN rows PROVE track[i] = earned[rows[i].id]
  <2>1. PICK a \in Account : a = rows[i].id
    BY RowsAre
  <2>2. i \in Positions
    BY RowsAre DEF Positions
  <2>3. takes => (i = current <=> a = rows[current].id)
    <3>1. \A j, k \in DOMAIN rows : rows[j].id = rows[k].id => j = k
      BY RowsAre
    <3> QED
      BY <2>1, <3>1
  <2>4. PICK t : t = IF rebuild THEN NewTracker ELSE m.track[i]
    OBVIOUS
  <2>5. t = IF rebuild THEN NewTracker
            ELSE IF a \in known THEN m.earned[a] ELSE NewTracker
    <3>1. CASE rebuild
      BY <2>4, <3>1
    <3>2. CASE ~rebuild
      <4>1. DOMAIN rows = DOMAIN m.rows
            /\ \A j \in DOMAIN m.rows : rows[j].id = m.rows[j].id
        BY <3>2, InPlace
      <4>2. i \in DOMAIN m.rows /\ m.rows[i].id = a
        BY <2>1, <4>1
      <4>3. a \in known
        BY <4>2 DEF Ids
      <4> QED
        BY <1>1, <2>4, <3>2, <4>2, <4>3
    <3> QED
      BY <3>1, <3>2
  <2>6. track[i] = IF takes /\ i = current THEN [t EXCEPT !.score = InitialScore] ELSE t
    BY <2>2, <2>4
  <2>7. earned[a] = IF takes /\ a = rows[current].id
                    THEN [t EXCEPT !.score = InitialScore] ELSE t
    BY <2>1, <2>5
  <2> QED
    BY <2>1, <2>3, <2>6, <2>7
<1> QED
  BY <1>2, <1>3, <1>4 DEF Tracks

LEMMA SyncedManager ==
    ASSUME NEW m, Manager(m), Disk(file)
    PROVE  Manager(Sync(m)) /\ Ids(m.rows) \subseteq Ids(Sync(m).rows)
<1> DEFINE active == Clamp(file.rows, file.active)
<1>1. Rows(m.rows) /\ Rows(file.rows) /\ m.current \in Nat
  BY DEF Manager, Disk
<1>2. PICK rows, current, n, known :
         /\ rows = Reconciled(m.rows, file)
         /\ current = ReconciledCurrent(rows, m.current, file)
         /\ n = Sync(m) /\ known = Ids(m.rows)
  OBVIOUS
<1>3. /\ Rows(rows) /\ Ids(m.rows) \subseteq Ids(rows)
      /\ current \in Nat
      /\ current = 0 \/ current \in DOMAIN rows
      /\ active \in Enabled(file.rows) => current \in DOMAIN rows
  BY <1>1, <1>2, SyncRows
<1>4. PICK takes, rebuild :
         /\ takes \in BOOLEAN /\ rebuild \in BOOLEAN
         /\ takes <=> (current # m.current /\ active \in Enabled(file.rows))
         /\ rebuild <=> ShouldRebuild(m, rows)
  <2> HIDE DEF active
  <2>1. PICK takes \in BOOLEAN : takes <=> (current # m.current /\ active \in Enabled(file.rows))
    BY Zenon
  <2>2. PICK rebuild \in BOOLEAN : rebuild <=> ShouldRebuild(m, rows)
    BY Zenon
  <2> QED
    BY <2>1, <2>2
<1>5. n = Synced(m, rows, current)
  BY <1>2 DEF Sync
<1>6. /\ n = [f \in MemoryFields |-> n[f]]
      /\ n.rows = rows /\ n.current = current
      /\ n.cursor = IF current = 0 THEN 0 ELSE current - 1
  BY <1>5 DEF Synced, MemoryFields
<1>7. n.data \in [Account -> Data]
  <2>1. n.data = [a \in Account |->
                    IF a \in Ids(file.rows)
                    THEN [file.data[a] EXCEPT !.token = @ \/ m.data[a].token]
                    ELSE m.data[a]]
    BY <1>5 DEF Synced
  <2>2. ASSUME NEW a \in Account
        PROVE  /\ [file.data[a] EXCEPT !.token = @ \/ m.data[a].token] \in Data
               /\ m.data[a] \in Data
    <3>1. m.data[a] \in Data /\ file.data[a] \in Data
      BY DEF Manager, Disk
    <3>2. PICK d \in Data : d = file.data[a]
      BY <3>1
    <3>3. (d.token \/ m.data[a].token) \in BOOLEAN
      BY Zenon
    <3>4. PICK b \in BOOLEAN : b = (d.token \/ m.data[a].token)
      BY <3>3
    <3>5. [d EXCEPT !.token = b] \in Data
      BY <3>2, DatumIs
    <3> QED
      BY <3>1, <3>2, <3>4, <3>5
  <2> QED
    BY <2>1, <2>2
<1>8. Tracks(rows, n.track, n.earned)
  <2>1. n.track = [i \in DOMAIN m.track |->
               LET t1 == IF rebuild THEN NewTracker ELSE m.track[i]
               IN  IF takes /\ i = current THEN [t1 EXCEPT !.score = InitialScore]
                   ELSE t1]
    BY <1>4, <1>5 DEF Synced
  <2>2. n.earned = [a \in Account |->
               LET t1 == IF rebuild THEN NewTracker
                         ELSE IF a \in known THEN m.earned[a] ELSE NewTracker
               IN  IF takes /\ a = rows[current].id
                   THEN [t1 EXCEPT !.score = InitialScore] ELSE t1]
    BY <1>2, <1>4, <1>5 DEF Synced
  <2>3. DOMAIN m.track = Positions
    BY DEF Manager, Tracks
  <2>4. ~rebuild => IdsInOrder(rows) = IdsInOrder(m.rows)
    BY <1>4 DEF ShouldRebuild
  <2>5. takes => current \in DOMAIN rows
    BY <1>3, <1>4
  <2> QED
    BY <1>2, <1>3, <1>4, <2>1, <2>2, <2>3, <2>4, <2>5, SyncedTracks
<1>9. n.cursor \in Nat
  BY <1>3, <1>6
<1>10. Manager(n)
  BY <1>3, <1>6, <1>7, <1>8, <1>9 DEF Manager
<1> QED
  BY <1>2, <1>3, <1>6, <1>10
LEMMA SavedDisk ==
    ASSUME NEW m, Manager(m), Disk(file)
    PROVE  Disk(Saved(m))
<1>1. Rows(m.rows) /\ Rows(file.rows) /\ m.current \in Nat
  BY DEF Manager, Disk
<1>2. PICK new, d, known : /\ new = Prepare(m.rows, m.current, {}, file)
                           /\ d = Saved(m) /\ known = Ids(m.rows)
  OBVIOUS
<1>3. Rows(new.rows) /\ new.active \in Nat
  BY <1>1, <1>2, SavedRows
<1>4. /\ d = [f \in {"rows", "active", "data"} |-> d[f]]
      /\ d.rows = new.rows /\ d.active = new.active
      /\ d.data = [a \in Account |-> IF a \in known THEN m.data[a] ELSE file.data[a]]
  BY <1>2 DEF Saved
<1>5. d.data \in [Account -> Data]
  <2>1. \A a \in Account : m.data[a] \in Data /\ file.data[a] \in Data
    BY DEF Manager, Disk
  <2> QED
    BY <1>4, <2>1
<1> QED
  BY <1>2, <1>3, <1>4, <1>5 DEF Disk

\* The rows after a command of another process.
LEMMA EditedRows ==
    ASSUME NEW rows, Rows(rows)
    PROVE  /\ \A i \in DOMAIN rows : /\ Rows(RemoveAt(rows, i))
                                     /\ Rows([rows EXCEPT ![i].enabled = ~@])
           /\ \A a \in Account : a \notin Ids(rows) => Rows(Append(rows, RowOf(a)))
<1>1. /\ rows \in Seq(Row)
      /\ \A i \in DOMAIN rows : rows[i] \in AccountRow
      /\ \A i, j \in DOMAIN rows : rows[i].who = rows[j].who => i = j
  BY DEF Rows, Distinct
<1>2. ASSUME NEW i \in DOMAIN rows PROVE Rows(RemoveAt(rows, i))
  <2> DEFINE new == RemoveAt(rows, i)
             was(j) == IF j < i THEN j ELSE j + 1
  <2>1. /\ new \in Seq(Row) /\ DOMAIN new \subseteq Nat
        /\ \A j \in DOMAIN new : was(j) \in DOMAIN rows /\ new[j] = rows[was(j)]
    BY <1>1, RemoveAtIs
  <2>2. \A j, k \in Nat : was(j) = was(k) => j = k
    <3>1. i \in Nat
      BY <1>1
    <3> QED
      BY <3>1
  <2> HIDE DEF new, was
  <2>3. \A j, k \in DOMAIN new : new[j].who = new[k].who => j = k
    BY <1>1, <2>1, <2>2
  <2>4. \A j \in DOMAIN new : new[j] \in AccountRow
    BY <1>1, <2>1
  <2>5. Rows(new)
    BY <2>1, <2>3, <2>4 DEF Rows, Distinct
  <2> QED
    BY <2>5 DEF new
<1>3. ASSUME NEW i \in DOMAIN rows PROVE Rows([rows EXCEPT ![i].enabled = ~@])
  <2>1. PICK row \in AccountRow : row = rows[i]
    BY <1>1
  <2>2. PICK e \in BOOLEAN : e = ~row.enabled
    <3>1. (~row.enabled) \in BOOLEAN
      BY Zenon
    <3> QED
      BY <3>1
  <2>3. PICK new : new = [row EXCEPT !.enabled = e]
    OBVIOUS
  <2>4. new \in AccountRow /\ new.who = row.who
    <3>1. new \in AccountRow /\ new.id = row.id
      BY <2>3, AccountRowsAre
    <3> QED
      BY <3>1, AccountRowsAre
  <2>5. PICK now : now = [rows EXCEPT ![i] = new]
    OBVIOUS
  <2>6. /\ now \in Seq(Row) /\ DOMAIN now = DOMAIN rows
        /\ \A j \in DOMAIN now : now[j] = IF j = i THEN new ELSE rows[j]
    <3>1. new \in Row
      BY <2>4 DEF AccountRow
    <3> QED
      BY <1>1, <2>5, <3>1
  <2>7. \A j \in DOMAIN now : /\ now[j] \in AccountRow /\ now[j].who = rows[j].who
                             /\ now[j].id = now[j].who
    <3>1. \A j \in DOMAIN now : now[j] \in AccountRow /\ now[j].who = rows[j].who
      BY <1>1, <2>1, <2>4, <2>6
    <3> QED
      BY <3>1, AccountRowsAre
  <2>8. Rows(now)
    BY <1>1, <2>6, <2>7 DEF Rows, Distinct
  <2>9. [rows EXCEPT ![i].enabled = ~@] = now
    BY <2>1, <2>2, <2>3, <2>5
  <2> QED
    BY <2>8, <2>9
<1>4. ASSUME NEW a \in Account, a \notin Ids(rows) PROVE Rows(Append(rows, RowOf(a)))
  <2>1. PICK row \in AccountRow : row = RowOf(a) /\ row.id = a
    BY AccountRowsAre
  <2>2. PICK now : now = Append(rows, row)
    OBVIOUS
  <2>3. row \in Row
    BY DEF AccountRow
  <2>4. PICK n \in Nat : n = Len(rows) /\ DOMAIN rows = 1 .. n
    BY <1>1
  <2>5. /\ now \in Seq(Row) /\ DOMAIN now = 1 .. n + 1 /\ now[n + 1] = row
        /\ \A j \in 1 .. n : now[j] = rows[j]
    BY <1>1, <2>2, <2>3, <2>4
  <2>6. \A j \in DOMAIN rows : rows[j].who # row.who
    <3>1. \A j \in DOMAIN rows : rows[j].id # a
      BY <1>4 DEF Ids
    <3> QED
      BY <1>1, <2>1, <3>1, AccountRowsAre
  <2>7. \A j \in DOMAIN now : j = n + 1 \/ j \in DOMAIN rows
    BY <2>4, <2>5
  <2>8. \A j \in DOMAIN now : now[j] \in AccountRow /\ now[j].id = now[j].who
    <3>1. \A j \in DOMAIN now : now[j] \in AccountRow
      BY <1>1, <2>4, <2>5, <2>7
    <3> QED
      BY <3>1, AccountRowsAre
  <2>9. \A j, k \in DOMAIN now : now[j].who = now[k].who => j = k
    <3> SUFFICES ASSUME NEW j \in DOMAIN now, NEW k \in DOMAIN now,
                        now[j].who = now[k].who
                 PROVE  j = k
      OBVIOUS
    <3>1. \A l \in DOMAIN rows : now[l] = rows[l]
      BY <2>4, <2>5
    <3> QED
      BY <1>1, <2>5, <2>6, <2>7, <3>1
  <2>10. Rows(now)
    BY <2>5, <2>8, <2>9 DEF Rows, Distinct
  <2> QED
    BY <2>1, <2>2, <2>10
<1> QED
  BY <1>2, <1>3, <1>4

LEMMA DiskInOtherWrites ==
    ASSUME Disk(file), OtherWrites
    PROVE  Disk(file')
<1>1. PICK d : d = file'
  OBVIOUS
<1>2. PICK rows : rows = file.rows /\ Rows(rows) /\ rows \in Seq(Row)
  BY DEF Disk, Rows
<1>3. ASSUME NEW i \in DOMAIN rows,
             d = [file EXCEPT !.rows = RemoveAt(rows, i),
                              !.active = Clamp(RemoveAt(rows, i), @)]
      PROVE  Disk(d)
  <2>1. PICK new : new = RemoveAt(rows, i) /\ Rows(new) /\ new \in Seq(Row)
    BY <1>2, EditedRows DEF Rows
  <2>2. Clamp(new, file.active) \in Nat
    BY <2>1, ClampNat DEF Disk
  <2>3. /\ d = [f \in {"rows", "active", "data"} |-> d[f]] /\ d.rows = new
        /\ d.active = Clamp(new, file.active) /\ d.data = file.data
    BY <1>3, <2>1 DEF Disk
  <2> QED
    BY <2>1, <2>2, <2>3 DEF Disk
<1>4. ASSUME NEW i \in DOMAIN rows, d = [file EXCEPT !.rows[i].enabled = ~@]
      PROVE  Disk(d)
  <2>1. PICK new : new = [rows EXCEPT ![i].enabled = ~@] /\ Rows(new)
    BY <1>2, EditedRows
  <2>2. d = [file EXCEPT !.rows = new]
    BY <1>2, <1>4, <2>1
  <2>3. /\ d = [f \in {"rows", "active", "data"} |-> d[f]] /\ d.rows = new
        /\ d.active = file.active /\ d.data = file.data
    BY <2>2 DEF Disk
  <2> QED
    BY <2>1, <2>3 DEF Disk
<1>5. ASSUME NEW i \in DOMAIN rows, d = [file EXCEPT !.active = i]
      PROVE  Disk(d)
  <2>1. i \in Nat
    BY <1>2
  <2>2. /\ d = [f \in {"rows", "active", "data"} |-> d[f]] /\ d.rows = file.rows
        /\ d.active = i /\ d.data = file.data
    BY <1>5 DEF Disk
  <2> QED
    BY <2>1, <2>2 DEF Disk
<1>6. ASSUME NEW a \in Account, a \notin Ids(rows),
             d = [file EXCEPT !.rows = Append(@, RowOf(a)),
                              !.data[a] = [NoData EXCEPT !.token = TRUE]]
      PROVE  Disk(d)
  <2>1. PICK new : new = Append(rows, RowOf(a)) /\ Rows(new)
    BY <1>2, <1>6, EditedRows
  <2>2. PICK data : data = file.data /\ data \in [Account -> Data]
    BY DEF Disk
  <2>3. PICK d1 : d1 = [file EXCEPT !.rows = new]
    OBVIOUS
  <2>4. /\ d1 = [f \in {"rows", "active", "data"} |-> d1[f]] /\ d1.rows = new
        /\ d1.active = file.active /\ d1.data = data
    BY <2>2, <2>3 DEF Disk
  <2>5. d = [d1 EXCEPT !.data[a] = [NoData EXCEPT !.token = TRUE]]
    BY <1>2, <1>6, <2>1, <2>3
  <2>6. /\ d = [f \in {"rows", "active", "data"} |-> d[f]] /\ d.rows = new
        /\ d.active = file.active
        /\ d.data = [data EXCEPT ![a] = [NoData EXCEPT !.token = TRUE]]
    BY <2>4, <2>5
  <2>7. d.data \in [Account -> Data]
    <3>1. TRUE \in BOOLEAN
      OBVIOUS
    <3>2. [data EXCEPT ![a] = [NoData EXCEPT !.token = TRUE]] \in [Account -> Data]
      BY <2>2, <3>1, FlagsAre
    <3> QED
      BY <2>6, <3>2
  <2> QED
    BY <2>1, <2>6, <2>7 DEF Disk
<1>7. \/ \E i \in DOMAIN rows :
            \/ d = [file EXCEPT !.rows = RemoveAt(rows, i),
                                !.active = Clamp(RemoveAt(rows, i), @)]
            \/ d = [file EXCEPT !.rows[i].enabled = ~@]
            \/ d = [file EXCEPT !.active = i]
      \/ \E a \in Account : /\ a \notin Ids(rows)
                            /\ d = [file EXCEPT !.rows = Append(@, RowOf(a)),
                                     !.data[a] = [NoData EXCEPT !.token = TRUE]]
  BY <1>1, <1>2 DEF OtherWrites
<1> QED
  BY <1>1, <1>3, <1>4, <1>5, <1>6, <1>7

LEMMA ManagerInExpire ==
    ASSUME Manager(mem), Disk(file), NEW a \in Account, Expire(a)
    PROVE  Manager(mem') /\ Disk(file') /\ mem'.rows = mem.rows
<1>1. PICK n, d, x, y : n = mem' /\ d = file' /\ x = mem.data /\ y = file.data
  OBVIOUS
<1>2. /\ n = [mem EXCEPT !.data[a].limited = 0]
      /\ d = [file EXCEPT !.data[a].limited = 0]
  BY <1>1 DEF Expire
<1>3. /\ n = [f \in MemoryFields |-> n[f]] /\ n.rows = mem.rows
      /\ n.current = mem.current /\ n.cursor = mem.cursor
      /\ n.track = mem.track /\ n.earned = mem.earned
      /\ n.data = [x EXCEPT ![a].limited = 0]
  BY <1>1, <1>2 DEF Manager, MemoryFields
<1>4. /\ d = [f \in {"rows", "active", "data"} |-> d[f]] /\ d.rows = file.rows
      /\ d.active = file.active /\ d.data = [y EXCEPT ![a].limited = 0]
  BY <1>1, <1>2 DEF Disk
<1>5. n.data \in [Account -> Data] /\ d.data \in [Account -> Data]
  <2>1. x \in [Account -> Data] /\ y \in [Account -> Data] /\ 0 \in Nat
    BY <1>1 DEF Manager, Disk
  <2>2. /\ [x EXCEPT ![a].limited = 0] \in [Account -> Data]
        /\ [y EXCEPT ![a].limited = 0] \in [Account -> Data]
    BY <2>1, FailuresAre
  <2> QED
    BY <1>3, <1>4, <2>2
<1> QED
  BY <1>1, <1>3, <1>4, <1>5 DEF Manager, Disk

LEMMA ManagerAtFirst == Init => Manager(mem) /\ Disk(file)
<1> SUFFICES ASSUME Init PROVE Manager(mem) /\ Disk(file)
  OBVIOUS
<1>1. PICK data : data = [a \in Account |-> [NoData EXCEPT !.token = a \in FirstTokens]]
  OBVIOUS
<1>2. data \in [Account -> Data]
  <2>1. ASSUME NEW a \in Account PROVE data[a] \in Data
    <3>1. PICK b \in BOOLEAN : b <=> a \in FirstTokens
      BY Zenon
    <3>2. 0 \in Nat
      OBVIOUS
    <3>3. [NoData EXCEPT !.token = b] \in Data
      BY <3>2, DatumIs
    <3> QED
      BY <1>1, <3>1, <3>3
  <2> QED
    BY <1>1, <2>1
<1>3. Rows(FirstRows)
  <2>1. ASSUME NEW i \in DOMAIN FirstRows PROVE FirstRows[i] \in AccountRow
    <3>1. FirstRows[i] \in Row
      BY FirstRowsOK
    <3>2. PICK a \in Account : a = FirstRows[i].id
      BY <3>1, NamesOK DEF Row
    <3>3. PICK e \in BOOLEAN : e = FirstRows[i].enabled
      BY <3>1 DEF Row
    <3>4. PICK row \in AccountRow : row = RowOf(a)
      BY AccountRowsAre
    <3>5. FirstRows[i] = [row EXCEPT !.enabled = e]
      BY <3>2, <3>3, <3>4, FirstRowsOK
    <3> QED
      BY <3>5, AccountRowsAre
  <2> QED
    BY <2>1, FirstRowsOK DEF Rows
<1>4. /\ mem = [rows |-> FirstRows, current |-> 1, cursor |-> 0, data |-> data,
                track |-> [i \in Positions |-> NewTracker],
                earned |-> [a \in Account |-> NewTracker]]
      /\ file = [rows |-> FirstRows, active |-> 1, data |-> data]
  BY <1>1 DEF Init, Positions
<1>5. Tracks(FirstRows, [i \in Positions |-> NewTracker], [a \in Account |-> NewTracker])
  <2>1. \A i \in DOMAIN FirstRows : FirstRows[i].id \in Account /\ i \in Positions
    BY <1>3, RowsAre DEF Positions
  <2> QED
    BY <2>1, TrackersAre DEF Tracks
<1>6. Manager(mem)
  BY <1>2, <1>3, <1>4, <1>5 DEF Manager, MemoryFields
<1>7. Disk(file)
  BY <1>2, <1>3, <1>4 DEF Disk
<1> QED
  BY <1>6, <1>7
------------------------------------------------------------------------------
(***************************************************************************)
(* What a request remembers, against the rows m has now.                   *)
(***************************************************************************)
Tried(q) == {a \in Account : q.tried[a] > 0}

Typed(q) ==
    /\ Shaped(q)
    /\ q.attempt \in Nat /\ q.max \in Nat /\ q.attempt <= q.max
    /\ q.retries \in 0 .. MaxRetries
    /\ q.tried \in [Account -> Nat]
    /\ q.disturbed \in BOOLEAN

\* As long as nobody disturbs it a request has tried a different account in
\* each attempt, and what it skips by position is what it has tried.
Counted(q, m) ==
    /\ q.max = Len(m.rows)
    /\ \A a \in Account : q.tried[a] \in {0, 1}
    /\ Tried(q) \subseteq Ids(m.rows)
    /\ q.attempt = Cardinality(Tried(q))
    /\ \A i \in DOMAIN m.rows : i \in q.skip => m.rows[i].id \in Tried(q)
    /\ \A i \in Enabled(m.rows) :
           m.rows[i].id \in Tried(q) => i \in q.skip \/ m.rows[i].id = q.account

\* At the head of the attempt loop the last account is done with as well.
Ready(q, m) ==
    /\ Typed(q)
    /\ q.result = "none"
    /\ \/ q.disturbed
       \/ /\ Counted(q, m)
          /\ \A i \in Enabled(m.rows) : m.rows[i].id \in Tried(q) => i \in q.skip

Ongoing(q, m) ==
    /\ Typed(q)
    /\ q.account \in Ids(m.rows)
    /\ q.attempt >= 1
    /\ q.disturbed \/ (Counted(q, m) /\ q.account \in Tried(q))

LiveSteps == {"refreshing", "sent", "serviceRetry", "longRetry", "streaming"}

Kept(q, m) ==
    /\ Shaped(q)
    /\ q.step \in LiveSteps \cup {"idle", "ended"}
    /\ q.step # "ended" => q.result = "none"
    /\ q.step \in LiveSteps => Ongoing(q, m)
    /\ q.step \notin LiveSteps => \A a \in Account : q.tried[a] = 0

Round == 2 * MaxRetries + 5
Stage(q) ==
    LET left == MaxRetries - q.retries
    IN  CASE q.step = "refreshing"   -> 2 * MaxRetries + 4
          [] q.step = "sent"         -> MaxRetries + left + 3
          [] q.step = "serviceRetry" -> left + 2
          [] q.step = "longRetry"    -> 2
          [] q.step = "streaming"    -> 1

LEMMA LiveIs ==
    ASSUME NEW q, q.step \in LiveSteps \cup {"idle", "ended"}
    PROVE  Live(q) <=> q.step \in LiveSteps
BY DEF Live, LiveSteps

LEMMA StageIs ==
    ASSUME NEW q, q.step \in LiveSteps, q.retries \in 0 .. MaxRetries
    PROVE  /\ Stage(q) \in Nat /\ Stage(q) >= 1 /\ Stage(q) < Round
           /\ Round \in Nat
<1>1. MaxRetries \in Nat
  BY ConstantsOK
<1> QED
  BY <1>1 DEF Stage, Round, LiveSteps

\* The variant, for a request that goes on and for one that does not.
LEMMA VariantIs ==
    ASSUME NEW q, q.step \in LiveSteps \cup {"idle", "ended"}
    PROVE  /\ q.step \in LiveSteps =>
                 Variant(q) = (q.max - q.attempt) * Round + Stage(q)
           /\ q.step \notin LiveSteps => Variant(q) = 0
<1>1. Live(q) <=> q.step \in LiveSteps
  BY LiveIs
<1>2. Variant(q) = IF Live(q) THEN (q.max - q.attempt) * Round + Stage(q) ELSE 0
  BY DEF Variant, Round, Stage
<1> QED
  BY <1>1, <1>2

LEMMA OngoingVariant ==
    ASSUME NEW q, NEW m, Ongoing(q, m), q.step \in LiveSteps
    PROVE  /\ (q.max - q.attempt) * Round \in Nat
           /\ Variant(q) \in Nat
           /\ Variant(q) = (q.max - q.attempt) * Round + Stage(q)
           /\ Variant(q) > (q.max - q.attempt) * Round
<1>1. q.attempt \in Nat /\ q.max \in Nat /\ q.attempt <= q.max
      /\ q.retries \in 0 .. MaxRetries
  BY DEF Ongoing, Typed
<1>2. Stage(q) \in Nat /\ Stage(q) >= 1 /\ Round \in Nat
  BY <1>1, StageIs
<1>3. PICK x \in Nat : x = q.max - q.attempt
  BY <1>1
<1>4. x * Round \in Nat
  BY <1>2, <1>3
<1>5. Variant(q) = (q.max - q.attempt) * Round + Stage(q)
  BY VariantIs
<1> QED
  BY <1>2, <1>3, <1>4, <1>5

\* What another state of the manager is for a request that does nothing.
LEMMA OngoingStays ==
    ASSUME NEW q, NEW m, NEW n, Rows(m.rows), Rows(n.rows), Ongoing(q, m),
           Ids(m.rows) \subseteq Ids(n.rows),
           \/ q.disturbed
           \/ /\ IdsInOrder(n.rows) = IdsInOrder(m.rows)
              /\ \A i \in Enabled(n.rows) \ Enabled(m.rows) :
                     ~(q.tried[n.rows[i].id] > 0)
    PROVE  Ongoing(q, n)
<1>1. CASE q.disturbed
  BY <1>1 DEF Ongoing
<1>2. CASE /\ ~q.disturbed
           /\ IdsInOrder(n.rows) = IdsInOrder(m.rows)
           /\ \A i \in Enabled(n.rows) \ Enabled(m.rows) :
                  ~(q.tried[n.rows[i].id] > 0)
  <2>1. /\ DOMAIN n.rows = DOMAIN m.rows
        /\ \A i \in DOMAIN m.rows : n.rows[i].id = m.rows[i].id
    BY <1>2, InPlace
  <2>2. Len(n.rows) = Len(m.rows)
    <3>1. Ids(n.rows) = Ids(m.rows)
      BY <1>2, InPlace
    <3>2. Cardinality(Ids(n.rows)) = Len(n.rows)
      BY RowsAre
    <3>3. Cardinality(Ids(m.rows)) = Len(m.rows)
      BY RowsAre
    <3> QED
      BY <3>1, <3>2, <3>3
  <2>3. Counted(q, m) /\ q.account \in Tried(q)
    BY <1>2 DEF Ongoing
  <2>4. ASSUME NEW i \in Enabled(n.rows), n.rows[i].id \in Tried(q)
        PROVE  i \in q.skip \/ n.rows[i].id = q.account
    <3>1. i \in Enabled(m.rows)
      BY <1>2, <2>4 DEF Tried
    <3>2. i \in DOMAIN m.rows
      BY <3>1 DEF Enabled
    <3> QED
      BY <2>1, <2>3, <2>4, <3>1, <3>2 DEF Counted
  <2>5. \A i \in DOMAIN n.rows : i \in q.skip => n.rows[i].id \in Tried(q)
    BY <2>1, <2>3 DEF Counted
  <2>6. Counted(q, n)
    BY <2>2, <2>3, <2>4, <2>5 DEF Counted
  <2> QED
    BY <2>3, <2>6 DEF Ongoing
<1> QED
  BY <1>1, <1>2

LEMMA KeptStays ==
    ASSUME NEW q, NEW m, NEW n, Rows(m.rows), Rows(n.rows), Kept(q, m),
           IdsInOrder(n.rows) = IdsInOrder(m.rows),
           Enabled(n.rows) \subseteq Enabled(m.rows)
    PROVE  Kept(q, n)
<1>1. Ids(m.rows) \subseteq Ids(n.rows)
  BY InPlace
<1>2. q.step \in LiveSteps => Ongoing(q, n)
  BY <1>1, OngoingStays DEF Kept
<1> QED
  BY <1>2 DEF Kept

\* An attempt begins, with an account that was not tried.
LEMMA TryingFields ==
    ASSUME NEW q, Shaped(q), q.attempt \in Nat, q.tried \in [Account -> Nat],
           NEW a \in Account, NEW m, NEW new, new = Trying(q, a, m)
    PROVE  /\ new.attempt = q.attempt + 1 /\ new.max = q.max
           /\ new.skip = q.skip /\ new.retries = 0
           /\ new.result = q.result /\ new.disturbed = q.disturbed
           /\ new.tried \in [Account -> Nat]
           /\ \A b \in Account :
                 new.tried[b] = IF b = a THEN q.tried[b] + 1 ELSE q.tried[b]
<1>1. PICK tried : tried = q.tried
  OBVIOUS
<1>2. PICK step : new = [q EXCEPT !.step = step, !.without = excluded, !.account = a,
                                  !.attempt = @ + 1, !.retries = 0, !.tried[a] = @ + 1]
  BY DEF Trying
<1>3. PICK n1 : n1 = [q EXCEPT !.step = step, !.without = excluded, !.account = a]
  OBVIOUS
<1>4. PICK n2 : n2 = [n1 EXCEPT !.attempt = q.attempt + 1, !.retries = 0]
  OBVIOUS
<1>5. /\ Shaped(n1) /\ n1.attempt = q.attempt /\ n1.max = q.max /\ n1.skip = q.skip
      /\ n1.result = q.result /\ n1.tried = tried /\ n1.disturbed = q.disturbed
  BY <1>1, <1>3 DEF Shaped, Fields
<1>6. /\ Shaped(n2) /\ n2.attempt = q.attempt + 1 /\ n2.max = q.max
      /\ n2.skip = q.skip /\ n2.retries = 0
      /\ n2.result = q.result /\ n2.tried = tried /\ n2.disturbed = q.disturbed
  BY <1>4, <1>5 DEF Shaped, Fields
<1>7. new = [n2 EXCEPT !.tried[a] = @ + 1]
  BY <1>2, <1>3, <1>4, <1>5
<1>8. /\ new.attempt = q.attempt + 1 /\ new.max = q.max
      /\ new.skip = q.skip /\ new.retries = 0
      /\ new.result = q.result /\ new.tried = [tried EXCEPT ![a] = tried[a] + 1]
      /\ new.disturbed = q.disturbed
  BY <1>6, <1>7 DEF Shaped, Fields
<1>9. \A b \in Account : new.tried[b] = IF b = a THEN tried[b] + 1 ELSE tried[b]
  BY <1>1, <1>8
<1>10. new.tried \in [Account -> Nat]
  BY <1>1, <1>8
<1> QED
  BY <1>1, <1>8, <1>9, <1>10

LEMMA TryingKept ==
    ASSUME NEW m, Rows(m.rows), NEW q, Ready(q, m), q.attempt < q.max,
           NEW a \in Ids(m.rows), q.disturbed \/ a \notin Tried(q), NEW n
    PROVE  /\ Kept(Trying(q, a, n), m)
           /\ Trying(q, a, n).result = "none"
           /\ Variant(Trying(q, a, n)) <= (q.max - q.attempt) * Round
<1>0. /\ Shaped(q) /\ q.attempt \in Nat /\ q.max \in Nat
      /\ q.tried \in [Account -> Nat] /\ q.disturbed \in BOOLEAN
      /\ q.result = "none" /\ MaxRetries \in Nat
  BY ConstantsOK DEF Ready, Typed
<1>1. PICK new, tried : /\ new = Trying(q, a, n) /\ tried = q.tried
                        /\ tried \in [Account -> Nat]
  BY <1>0
<1>2. a \in Account /\ IsFiniteSet(Account)
  BY RowsAre, ConstantsOK
<1>3. /\ Shaped(new) /\ new.step \in {"sent", "refreshing"} /\ new.account = a
  BY <1>0, <1>1, TryingIs
<1>4. /\ new.attempt = q.attempt + 1 /\ new.max = q.max /\ new.skip = q.skip
      /\ new.retries = 0 /\ new.result = "none" /\ new.disturbed = q.disturbed
      /\ new.tried \in [Account -> Nat]
      /\ \A b \in Account : new.tried[b] = IF b = a THEN tried[b] + 1 ELSE tried[b]
  BY <1>0, <1>1, <1>2, TryingFields
<1>5. Typed(new)
  BY <1>0, <1>3, <1>4 DEF Typed
<1>6. Tried(new) = Tried(q) \cup {a}
  BY <1>1, <1>2, <1>4 DEF Tried
<1>7. ASSUME ~q.disturbed PROVE Counted(new, m)
  <2>1. Counted(q, m) /\ a \notin Tried(q)
        /\ \A i \in Enabled(m.rows) : m.rows[i].id \in Tried(q) => i \in q.skip
    BY <1>7 DEF Ready
  <2>2. \A b \in Account : new.tried[b] \in {0, 1}
    <3>1. \A b \in Account : tried[b] \in {0, 1}
      BY <1>1, <2>1 DEF Counted
    <3>2. tried[a] = 0
      BY <1>1, <1>2, <2>1 DEF Tried
    <3> QED
      BY <1>2, <1>4, <3>1, <3>2
  <2>3. new.attempt = Cardinality(Tried(new))
    <3>1. IsFiniteSet(Tried(q))
      BY <1>2, FS_Subset DEF Tried
    <3>2. Cardinality(Tried(q) \cup {a}) = Cardinality(Tried(q)) + 1
      BY <2>1, <3>1, FS_AddElement
    <3> QED
      BY <1>4, <1>6, <2>1, <3>2 DEF Counted
  <2>4. \A i \in DOMAIN m.rows : i \in new.skip => m.rows[i].id \in Tried(new)
    BY <1>4, <1>6, <2>1 DEF Counted
  <2>5. \A i \in Enabled(m.rows) :
           m.rows[i].id \in Tried(new) => i \in new.skip \/ m.rows[i].id = new.account
    BY <1>3, <1>4, <1>6, <2>1 DEF Enabled
  <2>6. Tried(new) \subseteq Ids(m.rows) /\ new.max = Len(m.rows)
    BY <1>4, <1>6, <2>1 DEF Counted
  <2> QED
    BY <2>2, <2>3, <2>4, <2>5, <2>6 DEF Counted
<1>8. Ongoing(new, m)
  BY <1>0, <1>3, <1>4, <1>5, <1>6, <1>7 DEF Ongoing
<1>9. new.step \in LiveSteps
  BY <1>3 DEF LiveSteps
<1>10. Kept(new, m)
  BY <1>3, <1>4, <1>8, <1>9 DEF Kept
<1>11. Variant(new) <= (q.max - q.attempt) * Round
  <2>1. /\ Variant(new) = (new.max - new.attempt) * Round + Stage(new)
        /\ Stage(new) \in Nat /\ Stage(new) < Round /\ Round \in Nat
    <3>1. new.retries \in 0 .. MaxRetries
      BY <1>5 DEF Typed
    <3> QED
      BY <1>8, <1>9, <3>1, OngoingVariant, StageIs
  <2>2. PICK x \in Nat : x = new.max - new.attempt
    BY <1>5 DEF Typed
  <2>3. q.max - q.attempt = x + 1
    BY <1>0, <1>4, <2>2
  <2>4. (x + 1) * Round = x * Round + Round /\ x * Round \in Nat
    BY <2>1, <2>2
  <2> QED
    BY <2>1, <2>2, <2>3, <2>4
<1> QED
  BY <1>1, <1>4, <1>10, <1>11

LEMMA EndKept ==
    ASSUME NEW q, NEW result, NEW m
    PROVE  /\ Kept(End(q, result), m) /\ End(q, result).result = result
           /\ Variant(End(q, result)) = 0
<1>1. PICK new : new = End(q, result)
  OBVIOUS
<1>2. /\ Shaped(new) /\ new.step = "ended" /\ new.result = result
      /\ new.tried = [a \in Account |-> 0]
  BY <1>1 DEF End, NotStarted, Shaped, Fields
<1>3. new.step \notin LiveSteps
  BY <1>2 DEF LiveSteps
<1>4. Kept(new, m)
  BY <1>2, <1>3 DEF Kept
<1>5. Variant(new) = 0
  BY <1>2, <1>3, VariantIs
<1> QED
  BY <1>1, <1>2, <1>4, <1>5
StrategyKnown == session.strategy \in {"sticky", "round-robin", "hybrid"}

\* Every account that m would use has been tried or rests.
Used(q, m) ==
    \A i \in Enabled(m.rows) :
        m.data[m.rows[i].id].limited > 0 \/ q.tried[m.rows[i].id] > 0

\* When a request that nobody disturbed gives up, nothing is left to try.
LEMMA NothingLeft ==
    ASSUME NEW m, Manager(m), NEW q, Ready(q, m), ~q.disturbed,
           q.attempt >= q.max \/ Available(m, q.skip) = <<>>
    PROVE  Used(q, m)
<1>0. Rows(m.rows)
  BY DEF Manager
<1>1. Counted(q, m) /\ q.attempt \in Nat /\ q.max \in Nat /\ q.attempt <= q.max
  BY DEF Ready, Typed
<1>2. \A i \in Enabled(m.rows) : i \in DOMAIN m.rows /\ m.rows[i].id \in Account
                                 /\ m.rows[i].id \in Ids(m.rows)
  <2>1. \A i \in DOMAIN m.rows : m.rows[i].id \in Account
    BY <1>0, RowsAre
  <2> QED
    BY <2>1 DEF Enabled, Ids
<1>3. CASE q.attempt >= q.max
  <2>1. Cardinality(Tried(q)) = Cardinality(Ids(m.rows)) /\ IsFiniteSet(Ids(m.rows))
    <3>1. Cardinality(Ids(m.rows)) = Len(m.rows) /\ IsFiniteSet(Ids(m.rows))
      BY <1>0, RowsAre
    <3> QED
      BY <1>1, <1>3, <3>1 DEF Counted
  <2>2. Tried(q) = Ids(m.rows)
    BY <1>1, <2>1, FS_Subset DEF Counted
  <2> QED
    BY <1>2, <2>2 DEF Used, Tried
<1>4. CASE Available(m, q.skip) = <<>>
  <2>1. Offered(m, q.skip) = {}
    BY <1>4, AvailableIs
  <2>2. ASSUME NEW i \in Enabled(m.rows)
        PROVE  m.data[m.rows[i].id].limited > 0 \/ q.tried[m.rows[i].id] > 0
    <3>1. m.data[m.rows[i].id].limited \in Nat
      <4>1. m.data[m.rows[i].id] \in Data
        BY <1>2 DEF Manager
      <4> QED
        BY <4>1 DEF Data
    <3>2. i \in q.skip => q.tried[m.rows[i].id] > 0
      BY <1>1, <1>2 DEF Counted, Tried
    <3>3. i \in q.skip \/ m.data[m.rows[i].id].limited # 0
      BY <2>1 DEF Offered
    <3> QED
      BY <3>1, <3>2, <3>3
  <2> QED
    BY <2>2 DEF Used
<1> QED
  BY <1>3, <1>4

\* The head of the attempt loop, from a request that is ready for it.
LEMMA AttemptOutcome ==
    ASSUME NEW m, Manager(m), StrategyKnown, NEW q, Ready(q, m),
           NEW r, NEW reqs, Attempt(r, reqs, q, m)
    PROVE  /\ Manager(mem') /\ mem'.rows = m.rows
           /\ \E new : /\ req' = [reqs EXCEPT ![r] = new]
                       /\ Kept(new, m)
                       /\ Variant(new) \in Int
                       /\ Variant(new) <= (q.max - q.attempt) * Round
                       /\ new.result \in GaveUp => q.disturbed \/ Used(q, mem')
<1>0. Rows(m.rows)
  BY DEF Manager
<1>1. /\ q.attempt \in Nat /\ q.max \in Nat /\ q.attempt <= q.max
      /\ q.result = "none" /\ q.disturbed \in BOOLEAN
  BY DEF Ready, Typed
<1>2. (q.max - q.attempt) * Round \in Nat
  <2>1. PICK x \in Nat : x = q.max - q.attempt
    BY <1>1
  <2>2. Round \in Nat
    BY ConstantsOK DEF Round
  <2> QED
    BY <2>1, <2>2
<1>3. ASSUME NEW result, req' = [reqs EXCEPT ![r] = End(q, result)], mem' = m,
             q.attempt >= q.max \/ Available(m, q.skip) = <<>>
      PROVE  /\ Manager(mem') /\ mem'.rows = m.rows
             /\ \E new : /\ req' = [reqs EXCEPT ![r] = new]
                         /\ Kept(new, m)
                         /\ Variant(new) \in Int
                         /\ Variant(new) <= (q.max - q.attempt) * Round
                         /\ new.result \in GaveUp => q.disturbed \/ Used(q, mem')
  <2>1. PICK new : new = End(q, result)
    OBVIOUS
  <2>2. Kept(new, m) /\ Variant(new) = 0
    BY <2>1, EndKept
  <2>3. q.disturbed \/ Used(q, m)
    BY <1>3, NothingLeft
  <2>4. Variant(new) \in Int /\ Variant(new) <= (q.max - q.attempt) * Round
    BY <1>2, <2>2
  <2>5. req' = [reqs EXCEPT ![r] = new]
    BY <1>3, <2>1
  <2>6. /\ Manager(mem') /\ mem'.rows = m.rows
        /\ q.disturbed \/ Used(q, mem')
    BY <1>3, <2>3
  <2> QED
    BY <2>2, <2>4, <2>5, <2>6
<1>4. CASE q.attempt < q.max /\ Available(m, q.skip) # <<>>
  <2>1. PICK chosen, a, new : /\ chosen = Select(m, q.skip)
                              /\ a = chosen.rows[chosen.current].id
                              /\ new = Trying(q, a, chosen)
    OBVIOUS
  <2>2. /\ Manager(chosen) /\ chosen.rows = m.rows
        /\ chosen.current \in Enabled(m.rows) \ q.skip
    BY <1>4, <2>1, SelectedIs DEF StrategyKnown
  <2>3. req' = [reqs EXCEPT ![r] = new] /\ mem' = chosen
    BY <1>1, <1>4, <2>1 DEF Attempt
  <2>4. a \in Ids(m.rows)
    BY <2>1, <2>2 DEF Enabled, Ids
  <2>5. q.disturbed \/ a \notin Tried(q)
    BY <2>1, <2>2 DEF Ready
  <2>6. /\ Kept(new, m) /\ new.result = "none"
        /\ Variant(new) <= (q.max - q.attempt) * Round
    BY <1>0, <1>4, <2>1, <2>4, <2>5, TryingKept
  <2>7. Variant(new) \in Int
    <3>1. new.step \in LiveSteps
      <4>1. Shaped(q)
        BY DEF Ready, Typed
      <4>2. new.step \in {"sent", "refreshing"}
        BY <2>1, <4>1, TryingIs
      <4> QED
        BY <4>2 DEF LiveSteps
    <3>2. Ongoing(new, m)
      BY <2>6, <3>1 DEF Kept
    <3> QED
      BY <3>1, <3>2, OngoingVariant
  <2>8. new.result \notin GaveUp
    BY <2>6 DEF GaveUp
  <2> QED
    BY <2>2, <2>3, <2>6, <2>7, <2>8
<1>5. CASE q.attempt >= q.max
  <2>1. \E result : req' = [reqs EXCEPT ![r] = End(q, result)] /\ mem' = m
    BY <1>1, <1>5 DEF Attempt
  <2> QED
    BY <1>3, <1>5, <2>1
<1>6. CASE q.attempt < q.max /\ Available(m, q.skip) = <<>>
  <2>1. \E result : req' = [reqs EXCEPT ![r] = End(q, result)] /\ mem' = m
    BY <1>1, <1>6 DEF Attempt
  <2> QED
    BY <1>3, <1>6, <2>1
<1> QED
  BY <1>1, <1>4, <1>5, <1>6
------------------------------------------------------------------------------
(***************************************************************************)
(* The invariant of the requests, and what a step does to each of them.    *)
(***************************************************************************)
Requests(reqs, m) ==
    /\ reqs = [r \in Request |-> reqs[r]]
    /\ \A r \in Request : Kept(reqs[r], m)

Looping == StrategyKnown /\ Manager(mem) /\ Disk(file) /\ Requests(req, mem)

Advances(q, new) ==
    q.step \in LiveSteps =>
        \/ [new EXCEPT !.disturbed = FALSE] = [q EXCEPT !.disturbed = FALSE]
        \/ Variant(new) < Variant(q)

GivesUp(q, new, m) ==
    q.step # "ended" /\ new.result \in GaveUp => q.disturbed \/ Used(q, m)

Moves(reqs, next, m) ==
    \A r \in Request : /\ Advances(reqs[r], next[r])
                       /\ GivesUp(reqs[r], next[r], m)

\* A request that stays as it is keeps all the rules.
LEMMA Unmoved ==
    ASSUME NEW q, NEW m, NEW n, Kept(q, m)
    PROVE  Advances(q, q) /\ GivesUp(q, q, n)
BY DEF Advances, GivesUp, Kept, GaveUp

LEMMA SameRows ==
    ASSUME NEW q, NEW m, NEW n, Rows(m.rows), Kept(q, m), n.rows = m.rows
    PROVE  Kept(q, n)
<1>1. IdsInOrder(n.rows) = IdsInOrder(m.rows) /\ Enabled(n.rows) \subseteq Enabled(m.rows)
  OBVIOUS
<1> QED
  BY <1>1, KeptStays

\* Request r becomes new; rows stay in place and none is enabled.
LEMMA OneMoves ==
    ASSUME Looping, NEW r \in Request, NEW new, req' = [req EXCEPT ![r] = new],
           session' = session, Manager(mem'), Disk(file'),
           IdsInOrder(mem'.rows) = IdsInOrder(mem.rows),
           Enabled(mem'.rows) \subseteq Enabled(mem.rows),
           Kept(new, mem'), Advances(req[r], new), GivesUp(req[r], new, mem')
    PROVE  Looping' /\ Moves(req, req', mem')
<1>1. PICK n : n = mem'
  OBVIOUS
<1>2. Rows(mem.rows) /\ Rows(n.rows)
  BY <1>1 DEF Looping, Manager
<1>3. /\ req' = [s \in Request |-> req'[s]] /\ req'[r] = new
      /\ \A s \in Request : s # r => req'[s] = req[s]
  BY DEF Looping, Requests
<1>4. ASSUME NEW s \in Request
      PROVE  /\ Kept(req'[s], n) /\ Advances(req[s], req'[s])
             /\ GivesUp(req[s], req'[s], n)
  <2>1. CASE s = r
    BY <1>1, <1>3, <2>1
  <2>2. CASE s # r
    <3>1. PICK q : q = req[s] /\ req'[s] = q /\ Kept(q, mem)
      BY <1>3, <2>2 DEF Looping, Requests
    <3>2. Kept(q, n)
      BY <1>1, <1>2, <3>1, KeptStays
    <3>3. Advances(q, q) /\ GivesUp(q, q, n)
      BY <3>1, Unmoved
    <3> QED
      BY <3>1, <3>2, <3>3
  <2> QED
    BY <2>1, <2>2
<1>5. Requests(req', n)
  BY <1>3, <1>4 DEF Requests
<1>6. StrategyKnown'
  BY DEF Looping, StrategyKnown
<1>7. Moves(req, req', n)
  BY <1>4 DEF Moves
<1> QED
  BY <1>1, <1>5, <1>6, <1>7 DEF Looping

\* The same for a request that goes on to its next attempt.
LEMMA AttemptMoves ==
    ASSUME Looping, NEW r \in Request, req[r].step \in LiveSteps,
           NEW m, Manager(m), IdsInOrder(m.rows) = IdsInOrder(mem.rows),
           Enabled(m.rows) \subseteq Enabled(mem.rows),
           NEW q, Ready(q, m), q.attempt = req[r].attempt, q.max = req[r].max,
           q.tried = req[r].tried, q.disturbed = req[r].disturbed,
           Attempt(r, req, q, m), session' = session, Disk(file')
    PROVE  Looping' /\ Moves(req, req', mem')
<1>1. StrategyKnown
  BY DEF Looping
<1>2. /\ Manager(mem') /\ mem'.rows = m.rows
      /\ \E new : /\ req' = [req EXCEPT ![r] = new] /\ Kept(new, m)
                  /\ Variant(new) \in Int
                  /\ Variant(new) <= (q.max - q.attempt) * Round
                  /\ new.result \in GaveUp => q.disturbed \/ Used(q, mem')
  BY <1>1, AttemptOutcome
<1>3. PICK new : /\ req' = [req EXCEPT ![r] = new] /\ Kept(new, m)
                 /\ Variant(new) \in Int
                 /\ Variant(new) <= (q.max - q.attempt) * Round
                 /\ new.result \in GaveUp => q.disturbed \/ Used(q, mem')
  BY <1>2
<1>4. PICK n : n = mem'
  OBVIOUS
<1>5. Kept(new, n)
  BY <1>2, <1>3, <1>4, SameRows DEF Manager
<1>6. Advances(req[r], new)
  <2>1. PICK old : old = req[r] /\ Kept(old, mem) /\ old.step \in LiveSteps
    BY DEF Looping, Requests
  <2>2. Ongoing(old, mem)
    BY <2>1 DEF Kept
  <2>3. /\ Variant(old) \in Nat /\ (old.max - old.attempt) * Round \in Nat
        /\ Variant(old) > (old.max - old.attempt) * Round
    BY <2>1, <2>2, OngoingVariant
  <2>4. Variant(new) <= (old.max - old.attempt) * Round
    BY <1>3, <2>1
  <2>5. Variant(new) < Variant(old)
    BY <1>3, <2>3, <2>4
  <2> QED
    BY <2>1, <2>5 DEF Advances
<1>7. GivesUp(req[r], new, n)
  <2>1. Used(q, n) => Used(req[r], n)
    BY DEF Used
  <2> QED
    BY <1>3, <1>4, <2>1 DEF GivesUp
<1>8. IdsInOrder(n.rows) = IdsInOrder(mem.rows) /\ Enabled(n.rows) \subseteq Enabled(mem.rows)
  BY <1>2, <1>4
<1> QED
  BY <1>2, <1>3, <1>4, <1>5, <1>6, <1>7, <1>8, OneMoves

\* An account is given up: its position is skipped, or it is disabled.
LEMMA SkippedIsReady ==
    ASSUME NEW m, Rows(m.rows), NEW q, Ongoing(q, m), q.result = "none",
           NEW n, n.rows = m.rows, NEW new,
           new = [q EXCEPT !.skip = @ \cup {Position(m, q.account)}]
    PROVE  /\ Ready(new, n) /\ new.attempt = q.attempt /\ new.max = q.max
           /\ new.tried = q.tried /\ new.disturbed = q.disturbed
           /\ new.account = q.account
<1>1. PICK i : /\ i = Position(m, q.account) /\ i \in DOMAIN m.rows
               /\ m.rows[i].id = q.account
               /\ \A j \in DOMAIN m.rows : m.rows[j].id = q.account => j = i
  BY PositionIs DEF Ongoing
<1>2. new = [q EXCEPT !.skip = q.skip \cup {i}]
  BY <1>1
<1>3. /\ Shaped(new) /\ new.attempt = q.attempt /\ new.max = q.max
      /\ new.skip = q.skip \cup {i} /\ new.account = q.account
      /\ new.tried = q.tried /\ new.disturbed = q.disturbed
      /\ new.retries = q.retries /\ new.result = q.result
  BY <1>2 DEF Ongoing, Typed, Shaped, Fields
<1>4. Typed(new)
  BY <1>3 DEF Ongoing, Typed
<1>5. Tried(new) = Tried(q)
  BY <1>3 DEF Tried
<1>6. ASSUME ~q.disturbed
      PROVE  /\ Counted(new, n)
             /\ \A j \in Enabled(n.rows) : n.rows[j].id \in Tried(new) => j \in new.skip
  <2>1. Counted(q, m) /\ q.account \in Tried(q)
    BY <1>6 DEF Ongoing
  <2>2. \A j \in DOMAIN n.rows : j \in new.skip => n.rows[j].id \in Tried(new)
    BY <1>1, <1>3, <1>5, <2>1 DEF Counted
  <2>3. \A j \in Enabled(n.rows) : n.rows[j].id \in Tried(new) => j \in new.skip
    <3>1. SUFFICES ASSUME NEW j \in Enabled(n.rows), n.rows[j].id \in Tried(new)
                   PROVE  j \in new.skip
      OBVIOUS
    <3>2. j \in DOMAIN m.rows /\ j \in Enabled(m.rows)
      BY DEF Enabled
    <3>3. j \in q.skip \/ m.rows[j].id = q.account
      BY <1>5, <2>1, <3>1, <3>2 DEF Counted
    <3> QED
      BY <1>1, <1>3, <3>2, <3>3
  <2>4. Counted(new, n)
    BY <1>3, <1>5, <2>1, <2>2, <2>3 DEF Counted
  <2> QED
    BY <2>3, <2>4
<1>7. Ready(new, n)
  BY <1>3, <1>4, <1>6 DEF Ready
<1> QED
  BY <1>3, <1>7

LEMMA DisabledIsReady ==
    ASSUME NEW m, Manager(m), NEW q, Ongoing(q, m), q.result = "none",
           NEW n, n = Disabled(m, Position(m, q.account))
    PROVE  /\ Ready(q, n) /\ Manager(n) /\ IdsInOrder(n.rows) = IdsInOrder(m.rows)
           /\ Enabled(n.rows) \subseteq Enabled(m.rows)
<1>0. Rows(m.rows)
  BY DEF Manager
<1>1. PICK i : /\ i = Position(m, q.account) /\ i \in DOMAIN m.rows
               /\ m.rows[i].id = q.account
               /\ \A j \in DOMAIN m.rows : m.rows[j].id = q.account => j = i
  BY <1>0, PositionIs DEF Ongoing
<1>2. /\ Manager(n) /\ IdsInOrder(n.rows) = IdsInOrder(m.rows)
      /\ Enabled(n.rows) = Enabled(m.rows) \ {i}
  <2>1. n = Disabled(m, i)
    BY <1>1
  <2>2. /\ Manager(Disabled(m, i))
        /\ IdsInOrder(Disabled(m, i).rows) = IdsInOrder(m.rows)
        /\ Enabled(Disabled(m, i).rows) = Enabled(m.rows) \ {i}
    BY <1>1, DisabledIs
  <2> QED
    BY <2>1, <2>2
<1>3. Rows(n.rows)
  BY <1>2 DEF Manager
<1>4. /\ Ids(m.rows) \subseteq Ids(n.rows)
      /\ \A j \in DOMAIN m.rows : n.rows[j].id = m.rows[j].id
  BY <1>2, InPlace
<1>5. Ongoing(q, n)
  BY <1>0, <1>2, <1>3, <1>4, OngoingStays
<1>6. ASSUME ~q.disturbed, NEW j \in Enabled(n.rows), n.rows[j].id \in Tried(q)
      PROVE  j \in q.skip
  <2>1. Counted(q, n)
    BY <1>5, <1>6 DEF Ongoing
  <2>2. j \in DOMAIN m.rows /\ j # i
    BY <1>2, <1>6 DEF Enabled
  <2>3. n.rows[j].id = m.rows[j].id
    BY <1>4, <2>2
  <2> QED
    BY <1>1, <1>6, <2>1, <2>2, <2>3 DEF Counted
<1>7. Ready(q, n)
  BY <1>5, <1>6 DEF Ready, Ongoing
<1> QED
  BY <1>2, <1>7
\* A request goes on within its attempt, nearer to the end of it.
Within(q, new) ==
    /\ Shaped(new) /\ new.step \in LiveSteps
    /\ new.account = q.account /\ new.attempt = q.attempt /\ new.max = q.max
    /\ new.skip = q.skip /\ new.tried = q.tried
    /\ new.disturbed = q.disturbed /\ new.result = q.result
    /\ new.retries \in 0 .. MaxRetries
    /\ Stage(new) < Stage(q)

LEMMA WithinAttempt ==
    ASSUME NEW m, NEW q, Kept(q, m), q.step \in LiveSteps, NEW new, Within(q, new),
           NEW n
    PROVE  Kept(new, m) /\ Advances(q, new) /\ GivesUp(q, new, n)
<1>1. Ongoing(q, m) /\ q.result = "none"
  BY DEF Kept, LiveSteps
<1>2. Tried(new) = Tried(q)
  BY DEF Tried, Within
<1>3. Counted(q, m) => Counted(new, m)
  BY <1>2 DEF Counted, Within
<1>4. Typed(new)
  BY <1>1 DEF Ongoing, Typed, Within
<1>5. Ongoing(new, m)
  BY <1>1, <1>2, <1>3, <1>4 DEF Ongoing, Within
<1>6. Kept(new, m)
  BY <1>1, <1>5 DEF Kept, Within
<1>7. Variant(new) < Variant(q)
  <2>1. PICK x : x = (q.max - q.attempt) * Round
    OBVIOUS
  <2>2. /\ x \in Nat /\ Variant(q) = x + Stage(q) /\ Variant(new) = x + Stage(new)
    <3>1. new.step \in LiveSteps
      BY DEF Within
    <3>2. /\ (q.max - q.attempt) * Round \in Nat
          /\ Variant(q) = (q.max - q.attempt) * Round + Stage(q)
      BY <1>1, OngoingVariant
    <3>3. Variant(new) = (new.max - new.attempt) * Round + Stage(new)
      BY <1>5, <3>1, OngoingVariant
    <3> QED
      BY <2>1, <3>2, <3>3 DEF Within
  <2>3. Stage(q) \in Nat /\ Stage(new) \in Nat /\ Stage(new) < Stage(q)
    <3>1. q.retries \in 0 .. MaxRetries
      BY <1>1 DEF Ongoing, Typed
    <3> QED
      BY <3>1, StageIs DEF Within
  <2> QED
    BY <2>2, <2>3
<1>8. GivesUp(q, new, n)
  BY <1>1 DEF GivesUp, GaveUp, Within
<1> QED
  BY <1>6, <1>7, <1>8 DEF Advances

LEMMA EndsAttempt ==
    ASSUME NEW m, NEW q, Kept(q, m), q.step \in LiveSteps, NEW result, result \notin GaveUp,
           NEW n
    PROVE  /\ Kept(End(q, result), m) /\ Advances(q, End(q, result))
           /\ GivesUp(q, End(q, result), n)
<1>1. /\ Kept(End(q, result), m) /\ End(q, result).result = result
      /\ Variant(End(q, result)) = 0
  BY EndKept
<1>2. Ongoing(q, m)
  BY DEF Kept
<1>3. Variant(q) > 0
  <2>1. /\ (q.max - q.attempt) * Round \in Nat /\ Variant(q) \in Nat
        /\ Variant(q) > (q.max - q.attempt) * Round
    BY <1>2, OngoingVariant
  <2> QED
    BY <2>1
<1> QED
  BY <1>1, <1>3 DEF Advances, GivesUp

\* The rows stay as they are, and request r goes on or ends.
LEMMA QuietStep ==
    ASSUME Looping, NEW r \in Request, req[r].step \in LiveSteps,
           session' = session, Manager(mem'), Disk(file'), mem'.rows = mem.rows,
           NEW new, req' = [req EXCEPT ![r] = new],
           \/ Within(req[r], new)
           \/ \E result : result \notin GaveUp /\ new = End(req[r], result)
    PROVE  Looping' /\ Moves(req, req', mem')
<1>1. PICK n : n = mem'
  OBVIOUS
<1>2. PICK q : q = req[r] /\ Kept(q, mem)
  BY DEF Looping, Requests
<1>3. Kept(new, mem) /\ Advances(q, new) /\ GivesUp(q, new, n)
  <2>1. CASE Within(q, new)
    BY <1>2, <2>1, WithinAttempt
  <2>2. CASE \E result : result \notin GaveUp /\ new = End(q, result)
    <3>1. PICK result : result \notin GaveUp /\ new = End(q, result)
      BY <2>2
    <3> QED
      BY <1>2, <3>1, EndsAttempt
  <2> QED
    BY <1>2, <2>1, <2>2
<1>4. Kept(new, n)
  <2>1. Rows(mem.rows)
    BY DEF Looping, Manager
  <2> QED
    BY <1>1, <1>3, <2>1, SameRows
<1>5. IdsInOrder(n.rows) = IdsInOrder(mem.rows) /\ Enabled(n.rows) \subseteq Enabled(mem.rows)
  BY <1>1
<1> QED
  BY <1>1, <1>2, <1>3, <1>4, <1>5, OneMoves

\* A live request, its account, and where it is in its attempt.
LEMMA LiveRequest ==
    ASSUME Looping, NEW r \in Request, req[r].step \in LiveSteps
    PROVE  /\ Shaped(req[r]) /\ Ongoing(req[r], mem) /\ req[r].result = "none"
           /\ req[r].account \in Ids(mem.rows)
           /\ req[r].retries \in 0 .. MaxRetries /\ MaxRetries \in Nat
           /\ Manager(mem) /\ Disk(file) /\ Rows(mem.rows)
           /\ Position(mem, req[r].account) \in DOMAIN mem.rows
<1>1. Kept(req[r], mem) /\ Manager(mem) /\ Disk(file) /\ Rows(mem.rows)
  BY DEF Looping, Requests, Manager
<1>2. /\ Shaped(req[r]) /\ Ongoing(req[r], mem) /\ req[r].result = "none"
  BY <1>1 DEF Kept, LiveSteps
<1>3. /\ req[r].account \in Ids(mem.rows) /\ req[r].retries \in 0 .. MaxRetries
  BY <1>2 DEF Ongoing, Typed
<1>4. Position(mem, req[r].account) \in DOMAIN mem.rows
  BY <1>1, <1>3, PositionIs
<1> QED
  BY <1>1, <1>2, <1>3, <1>4, ConstantsOK

LEMMA MovesInRefresh ==
    ASSUME Looping, NEW r \in Request, RefreshEnds(r)
    PROVE  Looping' /\ Moves(req, req', mem')
<1>1. PICK q, a, i : q = req[r] /\ a = q.account /\ i = Position(mem, a)
  OBVIOUS
<1>2. q.step = "refreshing" /\ q.step \in LiveSteps /\ session' = session
  BY <1>1 DEF RefreshEnds, LiveSteps
<1>3. /\ Shaped(q) /\ Ongoing(q, mem) /\ q.result = "none" /\ a \in Ids(mem.rows)
      /\ q.retries \in 0 .. MaxRetries /\ MaxRetries \in Nat
      /\ Manager(mem) /\ Disk(file) /\ Rows(mem.rows) /\ i \in DOMAIN mem.rows
  BY <1>1, <1>2, LiveRequest
<1>4. PICK failed : /\ failed = MarkFailure(mem, a)
                    /\ Manager(failed) /\ failed.rows = mem.rows
  <2>1. 0 \in Nat
    OBVIOUS
  <2> QED
    BY <1>3, <2>1, MarkedManager
<1>5. CASE /\ req' = [req EXCEPT ![r] = [q EXCEPT !.step = "sent", !.without = excluded]]
           /\ mem' = [mem EXCEPT !.data[a].token = TRUE]
           /\ file' = IF mem' = mem THEN file ELSE Saved(mem')
  <2>1. PICK n, data, new : /\ n = mem' /\ data = mem.data
                            /\ new = [q EXCEPT !.step = "sent", !.without = excluded]
    OBVIOUS
  <2>2. Within(q, new)
    <3>1. /\ Shaped(new) /\ new.step = "sent"
          /\ new.account = q.account /\ new.attempt = q.attempt /\ new.max = q.max
          /\ new.skip = q.skip /\ new.tried = q.tried /\ new.retries = q.retries
          /\ new.disturbed = q.disturbed /\ new.result = q.result
      BY <1>3, <2>1 DEF Shaped, Fields
    <3>2. Stage(new) < Stage(q)
      BY <1>2, <1>3, <3>1 DEF Stage
    <3> QED
      BY <1>3, <3>1, <3>2 DEF Within, LiveSteps
  <2>3. /\ n = [f \in MemoryFields |-> n[f]] /\ n.rows = mem.rows
        /\ n.current = mem.current /\ n.cursor = mem.cursor
        /\ n.track = mem.track /\ n.earned = mem.earned
        /\ n.data = [data EXCEPT ![a].token = TRUE]
    BY <1>3, <1>5, <2>1 DEF Manager, MemoryFields
  <2>4. n.data \in [Account -> Data]
    <3>1. TRUE \in BOOLEAN /\ a \in Account /\ data \in [Account -> Data]
      BY <1>3, <2>1, RowsAre DEF Manager
    <3>2. [data EXCEPT ![a].token = TRUE] \in [Account -> Data]
      BY <3>1, FlagsAre
    <3> QED
      BY <2>3, <3>2
  <2>5. Manager(n)
    BY <1>3, <2>3, <2>4 DEF Manager
  <2>6. Disk(file')
    <3>1. Disk(Saved(n))
      BY <1>3, <2>5, SavedDisk
    <3>2. file' = file \/ file' = Saved(n)
      BY <1>5, <2>1
    <3> QED
      BY <1>3, <3>1, <3>2
  <2> QED
    BY <1>1, <1>2, <1>5, <2>1, <2>2, <2>3, <2>5, <2>6, QuietStep
<1>6. CASE /\ Attempt(r, req, [q EXCEPT !.skip = @ \cup {i}], failed)
           /\ UNCHANGED file
  <2>1. PICK new : new = [q EXCEPT !.skip = @ \cup {Position(mem, q.account)}]
    OBVIOUS
  <2>2. /\ Ready(new, failed) /\ new.attempt = q.attempt /\ new.max = q.max
        /\ new.tried = q.tried /\ new.disturbed = q.disturbed
    BY <1>3, <1>4, <2>1, SkippedIsReady
  <2>3. Attempt(r, req, new, failed)
    BY <1>1, <1>6, <2>1
  <2>4. IdsInOrder(failed.rows) = IdsInOrder(mem.rows)
        /\ Enabled(failed.rows) \subseteq Enabled(mem.rows)
    BY <1>4
  <2>5. Disk(file')
    BY <1>3, <1>6
  <2> QED
    BY <1>1, <1>2, <1>4, <2>2, <2>3, <2>4, <2>5, AttemptMoves
<1>7. CASE /\ Attempt(r, req, q, [failed EXCEPT
                  !.rows[i] = [RowOf(@.id) EXCEPT !.enabled = FALSE]])
           /\ UNCHANGED file
  <2>1. PICK n : n = Disabled(failed, Position(failed, q.account))
    OBVIOUS
  <2>2. Position(failed, q.account) = i
    BY <1>1, <1>4 DEF Position
  <2>3. Attempt(r, req, q, n)
    BY <1>7, <2>1, <2>2 DEF Disabled
  <2>4. Ongoing(q, failed)
    <3>1. Rows(failed.rows) /\ Ids(mem.rows) \subseteq Ids(failed.rows)
          /\ IdsInOrder(failed.rows) = IdsInOrder(mem.rows)
          /\ Enabled(failed.rows) \ Enabled(mem.rows) = {}
      BY <1>3, <1>4
    <3> QED
      BY <1>3, <3>1, OngoingStays
  <2>5. /\ Ready(q, n) /\ Manager(n) /\ IdsInOrder(n.rows) = IdsInOrder(failed.rows)
        /\ Enabled(n.rows) \subseteq Enabled(failed.rows)
    BY <1>3, <1>4, <2>1, <2>4, DisabledIsReady
  <2>6. IdsInOrder(n.rows) = IdsInOrder(mem.rows) /\ Enabled(n.rows) \subseteq Enabled(mem.rows)
    BY <1>4, <2>5
  <2>7. Disk(file')
    BY <1>3, <1>7
  <2> QED
    BY <1>1, <1>2, <2>3, <2>5, <2>6, <2>7, AttemptMoves
<1> QED
  BY <1>1, <1>4, <1>5, <1>6, <1>7 DEF RefreshEnds
LEMMA MovesInNetworkError ==
    ASSUME Looping, NEW r \in Request, NetworkError(r)
    PROVE  Looping' /\ Moves(req, req', mem')
<1>1. PICK q, a, i : q = req[r] /\ a = q.account /\ i = Position(mem, a)
  OBVIOUS
<1>2. q.step = "sent" /\ q.step \in LiveSteps /\ session' = session /\ UNCHANGED file
  BY <1>1 DEF NetworkError, LiveSteps
<1>3. /\ Shaped(q) /\ Ongoing(q, mem) /\ q.result = "none" /\ a \in Ids(mem.rows)
      /\ q.retries \in 0 .. MaxRetries /\ MaxRetries \in Nat
      /\ Manager(mem) /\ Disk(file) /\ Rows(mem.rows)
  BY <1>1, <1>2, LiveRequest
<1>4. Disk(file')
  BY <1>2, <1>3
<1>5. CASE /\ q.retries < MaxRetries /\ req' = [req EXCEPT ![r].retries = @ + 1]
           /\ UNCHANGED mem
  <2>1. PICK new : new = [q EXCEPT !.retries = q.retries + 1]
    OBVIOUS
  <2>2. Within(q, new)
    <3>1. /\ Shaped(new) /\ new.step = q.step
          /\ new.account = q.account /\ new.attempt = q.attempt /\ new.max = q.max
          /\ new.skip = q.skip /\ new.tried = q.tried /\ new.retries = q.retries + 1
          /\ new.disturbed = q.disturbed /\ new.result = q.result
      BY <1>3, <2>1 DEF Shaped, Fields
    <3>2. Stage(new) < Stage(q)
      BY <1>2, <1>3, <3>1 DEF Stage
    <3> QED
      BY <1>2, <1>3, <1>5, <3>1, <3>2 DEF Within
  <2>3. req' = [req EXCEPT ![r] = new]
    BY <1>1, <1>5, <2>1
  <2>4. Manager(mem') /\ mem'.rows = mem.rows
    BY <1>3, <1>5
  <2> QED
    BY <1>1, <1>2, <1>4, <2>2, <2>3, <2>4, QuietStep
<1>6. CASE Attempt(r, req, [q EXCEPT !.skip = @ \cup {i}], MarkFailure(mem, a))
  <2>1. PICK failed, new : /\ failed = MarkFailure(mem, a)
                           /\ Manager(failed) /\ failed.rows = mem.rows
                           /\ new = [q EXCEPT !.skip = @ \cup {Position(mem, q.account)}]
    <3>1. 0 \in Nat
      OBVIOUS
    <3> QED
      BY <1>3, <3>1, MarkedManager
  <2>2. /\ Ready(new, failed) /\ new.attempt = q.attempt /\ new.max = q.max
        /\ new.tried = q.tried /\ new.disturbed = q.disturbed
    BY <1>3, <2>1, SkippedIsReady
  <2>3. Attempt(r, req, new, failed)
    BY <1>1, <1>6, <2>1
  <2>4. IdsInOrder(failed.rows) = IdsInOrder(mem.rows)
        /\ Enabled(failed.rows) \subseteq Enabled(mem.rows)
    BY <2>1
  <2> QED
    BY <1>1, <1>2, <1>4, <2>1, <2>2, <2>3, <2>4, AttemptMoves
<1> QED
  BY <1>1, <1>5, <1>6 DEF NetworkError, RetriesError

LEMMA MovesInAccountError ==
    ASSUME Looping, NEW r \in Request, NEW answer \in Answers, AccountError(r, answer)
    PROVE  Looping' /\ Moves(req, req', mem')
<1>1. PICK q, a, reason, retryAfter :
         /\ q = req[r] /\ a = q.account
         /\ reason = ParseRateLimitReason(answer)
         /\ retryAfter = IF reason = "AUTH_FAILED" THEN 0 ELSE answer.retryAfter
  OBVIOUS
<1>2. q.step = "sent" /\ q.step \in LiveSteps /\ session' = session /\ UNCHANGED file
  BY <1>1 DEF AccountError, LiveSteps
<1>3. /\ Shaped(q) /\ Ongoing(q, mem) /\ q.result = "none" /\ a \in Ids(mem.rows)
      /\ Manager(mem) /\ Disk(file) /\ Rows(mem.rows)
  BY <1>1, <1>2, LiveRequest
<1>4. retryAfter \in Nat
  BY <1>1, AnswersOK
<1>5. PICK m, new : /\ m = Limited(mem, a, reason, retryAfter)
                    /\ Manager(m) /\ m.rows = mem.rows
                    /\ new = [q EXCEPT !.skip = @ \cup {Position(mem, q.account)}]
  BY <1>3, <1>4, MarkedManager
<1>6. /\ Ready(new, m) /\ new.attempt = q.attempt /\ new.max = q.max
      /\ new.tried = q.tried /\ new.disturbed = q.disturbed /\ new.account = a
  BY <1>1, <1>3, <1>5, SkippedIsReady
<1>7. Attempt(r, req, new, m)
  <2>1. new = [req[r] EXCEPT !.skip = @ \cup {Position(mem, req[r].account)}]
    BY <1>1, <1>5
  <2> QED
    BY <1>1, <1>5, <1>6, <2>1 DEF AccountError
<1>8. IdsInOrder(m.rows) = IdsInOrder(mem.rows) /\ Enabled(m.rows) \subseteq Enabled(mem.rows)
  BY <1>5
<1>9. Disk(file')
  BY <1>2, <1>3
<1> QED
  BY <1>1, <1>2, <1>5, <1>6, <1>7, <1>8, <1>9, AttemptMoves

LEMMA MovesInReceive ==
    ASSUME Looping, NEW r \in Request, NEW answer \in Answers, Receive(r, answer)
    PROVE  Looping' /\ Moves(req, req', mem')
<1>1. PICK q : q = req[r]
  OBVIOUS
<1>2. q.step \in LiveSteps /\ session' = session
  BY <1>1 DEF Receive, Success, AccountError, ServiceError, LongContextError,
              OtherError, LiveSteps
<1>3. /\ Shaped(q) /\ q.account \in Ids(mem.rows)
      /\ q.retries \in 0 .. MaxRetries /\ MaxRetries \in Nat
      /\ Manager(mem) /\ Disk(file)
  BY <1>1, <1>2, LiveRequest
<1>4. CASE Success(r, answer)
  <2>1. PICK new : new = [q EXCEPT !.step = "streaming"]
    OBVIOUS
  <2>2. Within(q, new)
    <3>1. /\ Shaped(new) /\ new.step = "streaming"
          /\ new.account = q.account /\ new.attempt = q.attempt /\ new.max = q.max
          /\ new.skip = q.skip /\ new.tried = q.tried /\ new.retries = q.retries
          /\ new.disturbed = q.disturbed /\ new.result = q.result
      BY <1>3, <2>1 DEF Shaped, Fields
    <3>2. q.step \in {"sent", "serviceRetry", "longRetry"}
      BY <1>1, <1>4 DEF Success
    <3>3. Stage(new) < Stage(q)
      BY <1>3, <3>1, <3>2 DEF Stage
    <3> QED
      BY <1>3, <3>1, <3>3 DEF Within, LiveSteps
  <2>3. PICK m : /\ m = MarkSuccess(mem, q.account)
                 /\ Manager(m) /\ m.rows = mem.rows
    <3>1. 0 \in Nat
      OBVIOUS
    <3> QED
      BY <1>3, <3>1, MarkedManager
  <2>4. /\ mem' = m /\ UNCHANGED file
        /\ req' = [req EXCEPT ![r] = new]
    BY <1>1, <1>4, <2>1, <2>3 DEF Success
  <2>5. Manager(mem') /\ mem'.rows = mem.rows /\ Disk(file')
    BY <1>3, <2>3, <2>4
  <2> QED
    BY <1>1, <1>2, <2>2, <2>4, <2>5, QuietStep
<1>5. CASE AccountError(r, answer)
  BY <1>5, MovesInAccountError
<1>6. CASE ServiceError(r, answer) \/ LongContextError(r, answer) \/ OtherError(r, answer)
  <2>1. UNCHANGED <<mem, file>>
    BY <1>6 DEF ServiceError, LongContextError, OtherError
  <2>2. Manager(mem') /\ mem'.rows = mem.rows /\ Disk(file')
    BY <1>3, <2>1
  <2>3. CASE req' = [req EXCEPT ![r] = End(q, "responded")]
    <3>1. PICK new : new = End(q, "responded")
      OBVIOUS
    <3>2. "responded" \notin GaveUp
      BY DEF GaveUp
    <3> QED
      BY <1>1, <1>2, <2>2, <2>3, <3>1, <3>2, QuietStep
  <2>4. CASE \E tries : /\ \/ q.step = "sent" /\ tries = 0
                           \/ q.step = "serviceRetry" /\ tries = q.retries
                        /\ tries < MaxRetries
                        /\ req' = [req EXCEPT ![r] = [q EXCEPT
                              !.step = "serviceRetry", !.retries = tries + 1]]
    <3>1. PICK tries : /\ \/ q.step = "sent" /\ tries = 0
                          \/ q.step = "serviceRetry" /\ tries = q.retries
                       /\ tries < MaxRetries
                       /\ req' = [req EXCEPT ![r] = [q EXCEPT
                             !.step = "serviceRetry", !.retries = tries + 1]]
      BY <2>4
    <3>2. PICK new : new = [q EXCEPT !.step = "serviceRetry", !.retries = tries + 1]
      OBVIOUS
    <3>3. /\ Shaped(new) /\ new.step = "serviceRetry"
          /\ new.account = q.account /\ new.attempt = q.attempt /\ new.max = q.max
          /\ new.skip = q.skip /\ new.tried = q.tried /\ new.retries = tries + 1
          /\ new.disturbed = q.disturbed /\ new.result = q.result
      BY <1>3, <3>2 DEF Shaped, Fields
    <3>4. Stage(new) < Stage(q) /\ new.retries \in 0 .. MaxRetries
      BY <1>3, <3>1, <3>3 DEF Stage
    <3>5. Within(q, new)
      BY <3>3, <3>4 DEF Within, LiveSteps
    <3>6. req' = [req EXCEPT ![r] = new]
      BY <3>1, <3>2
    <3> QED
      BY <1>1, <1>2, <2>2, <3>5, <3>6, QuietStep
  <2>5. CASE \E w : /\ q.step = "sent"
                    /\ req' = [req EXCEPT ![r] = [q EXCEPT
                          !.step = "longRetry", !.without = w]]
    <3>1. PICK w : /\ q.step = "sent"
                   /\ req' = [req EXCEPT ![r] = [q EXCEPT
                         !.step = "longRetry", !.without = w]]
      BY <2>5
    <3>2. PICK new : new = [q EXCEPT !.step = "longRetry", !.without = w]
      OBVIOUS
    <3>3. /\ Shaped(new) /\ new.step = "longRetry"
          /\ new.account = q.account /\ new.attempt = q.attempt /\ new.max = q.max
          /\ new.skip = q.skip /\ new.tried = q.tried /\ new.retries = q.retries
          /\ new.disturbed = q.disturbed /\ new.result = q.result
      BY <1>3, <3>2 DEF Shaped, Fields
    <3>4. Stage(new) < Stage(q)
      BY <1>3, <3>1, <3>3 DEF Stage
    <3>5. Within(q, new)
      BY <1>3, <3>3, <3>4 DEF Within, LiveSteps
    <3>6. req' = [req EXCEPT ![r] = new]
      BY <3>1, <3>2
    <3> QED
      BY <1>1, <1>2, <2>2, <3>5, <3>6, QuietStep
  <2>6. ServiceError(r, answer) =>
           \/ req' = [req EXCEPT ![r] = End(q, "responded")]
           \/ \E tries : /\ \/ q.step = "sent" /\ tries = 0
                            \/ q.step = "serviceRetry" /\ tries = q.retries
                         /\ tries < MaxRetries
                         /\ req' = [req EXCEPT ![r] = [q EXCEPT
                               !.step = "serviceRetry", !.retries = tries + 1]]
    <3>1. SUFFICES ASSUME ServiceError(r, answer)
                   PROVE  \/ req' = [req EXCEPT ![r] = End(q, "responded")]
                          \/ \E tries :
                                /\ \/ q.step = "sent" /\ tries = 0
                                   \/ q.step = "serviceRetry" /\ tries = q.retries
                                /\ tries < MaxRetries
                                /\ req' = [req EXCEPT ![r] = [q EXCEPT
                                      !.step = "serviceRetry", !.retries = tries + 1]]
      OBVIOUS
    <3>2. PICK tries : tries = IF q.step = "sent" THEN 0 ELSE q.retries
      OBVIOUS
    <3>3. \/ q.step = "sent" /\ tries = 0
          \/ q.step = "serviceRetry" /\ tries = q.retries
      BY <1>1, <3>1, <3>2 DEF ServiceError
    <3>4. req' = [req EXCEPT ![r] =
                     IF RetriesAnswer(tries, answer)
                     THEN [q EXCEPT !.step = "serviceRetry", !.retries = tries + 1]
                     ELSE End(q, "responded")]
      BY <1>1, <3>1, <3>2 DEF ServiceError
    <3>5. RetriesAnswer(tries, answer) => tries < MaxRetries
      BY DEF RetriesAnswer
    <3>6. CASE RetriesAnswer(tries, answer)
      BY <3>3, <3>4, <3>5, <3>6
    <3>7. CASE ~RetriesAnswer(tries, answer)
      BY <3>4, <3>7
    <3> QED
      BY <3>6, <3>7
  <2>7. LongContextError(r, answer) =>
           \/ req' = [req EXCEPT ![r] = End(q, "responded")]
           \/ \E w : /\ q.step = "sent"
                     /\ req' = [req EXCEPT ![r] = [q EXCEPT
                           !.step = "longRetry", !.without = w]]
    <3>1. SUFFICES ASSUME LongContextError(r, answer)
                   PROVE  \/ req' = [req EXCEPT ![r] = End(q, "responded")]
                          \/ \E w : /\ q.step = "sent"
                                    /\ req' = [req EXCEPT ![r] = [q EXCEPT
                                          !.step = "longRetry", !.without = w]]
      OBVIOUS
    <3>2. q.step = "sent"
      BY <1>1, <3>1 DEF LongContextError
    <3>3. CASE excluded < MaxBetas
      <4>1. req' = [req EXCEPT ![r] = [q EXCEPT !.step = "longRetry",
                                                !.without = excluded']]
        BY <1>1, <3>1, <3>3 DEF LongContextError
      <4> QED
        BY <3>2, <4>1
    <3>4. CASE ~(excluded < MaxBetas)
      BY <1>1, <3>1, <3>4 DEF LongContextError
    <3> QED
      BY <3>3, <3>4
  <2>8. OtherError(r, answer) => req' = [req EXCEPT ![r] = End(q, "responded")]
    BY <1>1 DEF OtherError
  <2>9. CASE ServiceError(r, answer)
    BY <2>3, <2>4, <2>6, <2>9, Zenon
  <2>10. CASE LongContextError(r, answer)
    BY <2>3, <2>5, <2>7, <2>10, Zenon
  <2>11. CASE OtherError(r, answer)
    BY <2>3, <2>8, <2>11, Zenon
  <2> QED
    BY <1>6, <2>9, <2>10, <2>11, Zenon
<1> QED
  BY <1>4, <1>5, <1>6 DEF Receive
LEMMA MovesInRetry ==
    ASSUME Looping, NEW r \in Request, RetryNetworkError(r)
    PROVE  Looping' /\ Moves(req, req', mem')
<1>1. PICK q : q = req[r]
  OBVIOUS
<1>2. /\ q.step \in {"serviceRetry", "longRetry"} /\ q.step \in LiveSteps
      /\ session' = session /\ UNCHANGED <<mem, file>>
  BY <1>1 DEF RetryNetworkError, LiveSteps
<1>3. /\ Shaped(q) /\ q.retries \in 0 .. MaxRetries /\ MaxRetries \in Nat
      /\ Manager(mem) /\ Disk(file)
  BY <1>1, <1>2, LiveRequest
<1>4. Manager(mem') /\ mem'.rows = mem.rows /\ Disk(file')
  BY <1>2, <1>3
<1>5. CASE /\ q.step = "serviceRetry" /\ q.retries < MaxRetries
           /\ req' = [req EXCEPT ![r].retries = @ + 1]
  <2>1. PICK new : new = [q EXCEPT !.retries = q.retries + 1]
    OBVIOUS
  <2>2. /\ Shaped(new) /\ new.step = q.step
        /\ new.account = q.account /\ new.attempt = q.attempt /\ new.max = q.max
        /\ new.skip = q.skip /\ new.tried = q.tried /\ new.retries = q.retries + 1
        /\ new.disturbed = q.disturbed /\ new.result = q.result
    BY <1>3, <2>1 DEF Shaped, Fields
  <2>3. Stage(new) < Stage(q)
    BY <1>3, <1>5, <2>2 DEF Stage
  <2>4. Within(q, new)
    BY <1>2, <1>3, <1>5, <2>2, <2>3 DEF Within
  <2>5. req' = [req EXCEPT ![r] = new]
    BY <1>1, <1>5, <2>1
  <2> QED
    BY <1>1, <1>2, <1>4, <2>4, <2>5, QuietStep
<1>6. CASE req' = [req EXCEPT ![r] = End(q, "threw")]
  <2>1. PICK new : new = End(q, "threw")
    OBVIOUS
  <2>2. "threw" \notin GaveUp
    BY DEF GaveUp
  <2> QED
    BY <1>1, <1>2, <1>4, <1>6, <2>1, <2>2, QuietStep
<1> QED
  BY <1>1, <1>5, <1>6 DEF RetryNetworkError, RetriesError

LEMMA MovesInStream ==
    ASSUME Looping, NEW r \in Request, StreamEnds(r)
    PROVE  Looping' /\ Moves(req, req', mem')
<1>1. PICK q, a : q = req[r] /\ a = q.account
  OBVIOUS
<1>2. /\ q.step \in LiveSteps /\ session' = session /\ UNCHANGED file
      /\ req' = [req EXCEPT ![r] = End(q, "responded")]
  BY <1>1 DEF StreamEnds, LiveSteps
<1>3. a \in Ids(mem.rows) /\ Manager(mem) /\ Disk(file)
  BY <1>1, <1>2, LiveRequest
<1>4. Manager(mem') /\ mem'.rows = mem.rows
  <2>1. CASE UNCHANGED mem
    BY <1>3, <2>1
  <2>2. CASE \E reason : mem' = Limited(mem, a, reason, 0)
    <3>1. PICK reason, m : m = Limited(mem, a, reason, 0) /\ mem' = m
      BY <2>2
    <3>2. 0 \in Nat
      OBVIOUS
    <3>3. Manager(m) /\ m.rows = mem.rows
      BY <1>3, <3>1, <3>2, MarkedManager
    <3> QED
      BY <3>1, <3>3
  <2> QED
    BY <1>1, <2>1, <2>2 DEF StreamEnds
<1>5. "responded" \notin GaveUp /\ Disk(file')
  BY <1>2, <1>3 DEF GaveUp
<1>6. PICK new : new = End(q, "responded")
  OBVIOUS
<1> QED
  BY <1>1, <1>2, <1>4, <1>5, <1>6, QuietStep

\* A sync disturbs the other requests, or leaves them what they count on.
LEMMA DisturbedKept ==
    ASSUME Looping, NEW m, Manager(m), Ids(mem.rows) \subseteq Ids(m.rows),
           NEW s \in Request, NEW new, new = Disturb(m)[s]
    PROVE  Kept(new, m) /\ Advances(req[s], new)
<1>1. PICK q : q = req[s] /\ Kept(q, mem)
  BY DEF Looping, Requests
<1>2. Rows(mem.rows) /\ Rows(m.rows)
  BY DEF Looping, Manager
<1>3. q.step \in LiveSteps \cup {"idle", "ended"}
  BY <1>1 DEF Kept
<1>4. Live(q) <=> q.step \in LiveSteps
  BY <1>3, LiveIs
<1>5. new = [q EXCEPT !.disturbed = @ \/
                /\ Live(q)
                /\ \/ IdsInOrder(m.rows) # IdsInOrder(mem.rows)
                   \/ \E i \in Enabled(m.rows) \ Enabled(mem.rows) :
                          q.tried[m.rows[i].id] > 0]
  BY <1>1 DEF Disturb
<1>6. PICK d : /\ new = [q EXCEPT !.disturbed = d]
               /\ d = (q.disturbed \/
                   /\ Live(q)
                   /\ \/ IdsInOrder(m.rows) # IdsInOrder(mem.rows)
                      \/ \E i \in Enabled(m.rows) \ Enabled(mem.rows) :
                             q.tried[m.rows[i].id] > 0)
  BY <1>5
<1>7. /\ Shaped(new) /\ new.step = q.step /\ new.result = q.result
      /\ new.account = q.account /\ new.attempt = q.attempt /\ new.max = q.max
      /\ new.skip = q.skip /\ new.tried = q.tried /\ new.retries = q.retries
      /\ new.disturbed = d
      /\ [new EXCEPT !.disturbed = FALSE] = [q EXCEPT !.disturbed = FALSE]
  BY <1>1, <1>6 DEF Kept, Shaped, Fields
<1>8. CASE q.step \notin LiveSteps
  BY <1>1, <1>7, <1>8 DEF Kept, Advances
<1>9. CASE q.step \in LiveSteps
  <2>1. Ongoing(q, mem) /\ q.disturbed \in BOOLEAN
    BY <1>1, <1>9 DEF Kept, Ongoing, Typed
  <2>2. Tried(new) = Tried(q)
    BY <1>7 DEF Tried
  <2>3. Ongoing(new, m)
    <3>1. CASE d
      <4>1. d = TRUE
        BY <1>6, <3>1, Zenon
      <4>2. Typed(new)
        BY <1>7, <2>1, <4>1 DEF Ongoing, Typed
      <4> QED
        BY <1>7, <2>1, <4>1, <4>2 DEF Ongoing
    <3>2. CASE ~d
      <4>1. /\ ~q.disturbed
            /\ IdsInOrder(m.rows) = IdsInOrder(mem.rows)
            /\ \A i \in Enabled(m.rows) \ Enabled(mem.rows) :
                   ~(q.tried[m.rows[i].id] > 0)
        BY <1>4, <1>6, <1>9, <3>2, Zenon
      <4>2. Ongoing(q, m)
        BY <1>2, <2>1, <4>1, OngoingStays
      <4>3. d = FALSE
        BY <1>6, <3>2, Zenon
      <4>4. Typed(new)
        BY <1>7, <2>1, <4>3 DEF Ongoing, Typed
      <4>5. Counted(q, m) => Counted(new, m)
        BY <1>7, <2>2 DEF Counted
      <4> QED
        BY <1>7, <2>2, <4>1, <4>2, <4>4, <4>5 DEF Ongoing
    <3> QED
      BY <3>1, <3>2
  <2> QED
    BY <1>1, <1>7, <1>9, <2>3 DEF Kept, Advances
<1> QED
  BY <1>1, <1>8, <1>9

\* What a request that begins brings to its first attempt.
LEMMA FirstIsReady ==
    ASSUME NEW m, Rows(m.rows), NEW q, q = [NotStarted EXCEPT !.max = Len(m.rows)]
    PROVE  /\ Ready(q, m) /\ q.attempt = 0 /\ q.max = Len(m.rows)
           /\ ~q.disturbed /\ Tried(q) = {}
           /\ \A a \in Account : q.tried[a] = 0
<1>1. Len(m.rows) \in Nat
  BY RowsAre
<1>2. PICK none : none = [a \in Account |-> 0]
  OBVIOUS
<1>3. none \in [Account -> Nat] /\ \A a \in Account : none[a] = 0
  BY <1>2
<1>4. /\ Shaped(q) /\ q.attempt = 0 /\ q.max = Len(m.rows) /\ q.retries = 0
      /\ q.skip = {} /\ q.result = "none" /\ q.tried = none /\ q.disturbed = FALSE
  BY <1>2 DEF NotStarted, Shaped, Fields
<1>5. Tried(q) = {} /\ Cardinality({}) = 0
  BY <1>3, <1>4, FS_EmptySet DEF Tried
<1>6. Typed(q)
  <2>1. MaxRetries \in Nat
    BY ConstantsOK
  <2>2. q.attempt \in Nat /\ q.max \in Nat /\ q.attempt <= q.max
    BY <1>1, <1>4
  <2>3. q.retries \in 0 .. MaxRetries
    BY <1>4, <2>1
  <2>4. q.tried \in [Account -> Nat] /\ q.disturbed \in BOOLEAN
    BY <1>3, <1>4
  <2> QED
    BY <1>4, <2>2, <2>3, <2>4 DEF Typed
<1>7. Counted(q, m)
  BY <1>3, <1>4, <1>5 DEF Counted
<1>8. Ready(q, m)
  BY <1>4, <1>5, <1>6, <1>7 DEF Ready
<1> QED
  BY <1>3, <1>4, <1>5, <1>8

LEMMA MovesInBegin ==
    ASSUME Looping, NEW r \in Request, NEW withFile \in BOOLEAN, Begin(r, withFile)
    PROVE  Looping' /\ Moves(req, req', mem')
<1>1. PICK m, q, reqs : /\ m = IF session.pinned THEN mem ELSE Sync(mem)
                        /\ q = [NotStarted EXCEPT !.max = Len(m.rows)]
                        /\ reqs = Disturb(m)
  OBVIOUS
<1>2. Manager(m) /\ Ids(mem.rows) \subseteq Ids(m.rows) /\ Rows(m.rows)
  <2>1. Manager(mem) /\ Disk(file)
    BY DEF Looping
  <2>2. Manager(Sync(mem)) /\ Ids(mem.rows) \subseteq Ids(Sync(mem).rows)
    BY <2>1, SyncedManager
  <2>3. m = mem \/ m = Sync(mem)
    BY <1>1
  <2>4. Manager(m) /\ Ids(mem.rows) \subseteq Ids(m.rows)
    BY <2>1, <2>2, <2>3
  <2> QED
    BY <2>4 DEF Manager
<1>3. /\ Ready(q, m) /\ q.attempt = 0 /\ q.max = Len(m.rows)
      /\ ~q.disturbed /\ Tried(q) = {}
      /\ \A a \in Account : q.tried[a] = 0
  BY <1>1, <1>2, FirstIsReady
<1>4. StrategyKnown /\ session' = session /\ UNCHANGED file /\ req[r].step = "idle"
  BY DEF Begin, Looping
<1>5. /\ Manager(mem') /\ mem'.rows = m.rows
      /\ \E new : /\ req' = [reqs EXCEPT ![r] = new] /\ Kept(new, m)
                  /\ new.result \in GaveUp => Used(q, mem')
  <2>1. CASE Attempt(r, reqs, q, m)
    <3>1. /\ Manager(mem') /\ mem'.rows = m.rows
          /\ \E new : /\ req' = [reqs EXCEPT ![r] = new] /\ Kept(new, m)
                      /\ Variant(new) \in Int
                      /\ Variant(new) <= (q.max - q.attempt) * Round
                      /\ new.result \in GaveUp => q.disturbed \/ Used(q, mem')
      BY <1>2, <1>3, <1>4, <2>1, AttemptOutcome
    <3>2. PICK new : /\ req' = [reqs EXCEPT ![r] = new] /\ Kept(new, m)
                     /\ new.result \in GaveUp => q.disturbed \/ Used(q, mem')
      BY <3>1
    <3> QED
      BY <1>3, <3>1, <3>2
  <2>2. CASE /\ mem' = m
             /\ \E a \in ResolvePinnedAccount(m) :
                    req' = [reqs EXCEPT ![r] = Trying(q, a, m)]
    <3>1. PICK a \in ResolvePinnedAccount(m) :
                  req' = [reqs EXCEPT ![r] = Trying(q, a, m)]
      BY <2>2
    <3>2. PICK i \in DOMAIN m.rows : a = m.rows[i].id
      BY DEF ResolvePinnedAccount, Enabled
    <3>3. a \in Ids(m.rows)
      BY <3>2 DEF Ids
    <3>4. q.attempt < q.max
      <4>1. Len(m.rows) \in Nat /\ i \in 1 .. Len(m.rows)
        BY <1>2, RowsAre
      <4> QED
        BY <1>3, <4>1
    <3>5. PICK new : new = Trying(q, a, m)
      OBVIOUS
    <3>6. Kept(new, m) /\ new.result = "none"
      <4>1. a \notin Tried(q)
        BY <1>3
      <4> QED
        BY <1>2, <1>3, <3>3, <3>4, <3>5, <4>1, TryingKept
    <3>7. new.result \notin GaveUp
      BY <3>6 DEF GaveUp
    <3>8. Manager(mem') /\ mem'.rows = m.rows
      BY <1>2, <2>2
    <3> QED
      BY <3>1, <3>5, <3>6, <3>7, <3>8
  <2>3. \/ Attempt(r, reqs, q, m)
        \/ /\ mem' = m
           /\ \E a \in ResolvePinnedAccount(m) :
                  req' = [reqs EXCEPT ![r] = Trying(q, a, m)]
    BY <1>1 DEF Begin
  <2> QED
    BY <2>1, <2>2, <2>3
<1>6. PICK new : /\ req' = [reqs EXCEPT ![r] = new] /\ Kept(new, m)
                 /\ new.result \in GaveUp => Used(q, mem')
  BY <1>5
<1>7. PICK n : n = mem'
  OBVIOUS
<1>8. Manager(n) /\ n.rows = m.rows
  BY <1>5, <1>7
<1>9. /\ req' = [s \in Request |-> req'[s]] /\ req'[r] = new
      /\ \A s \in Request : s # r => req'[s] = reqs[s]
  <2>1. reqs = [s \in Request |-> reqs[s]]
    BY <1>1 DEF Disturb
  <2> QED
    BY <1>6, <2>1
<1>10. ASSUME NEW s \in Request
       PROVE  /\ Kept(req'[s], n) /\ Advances(req[s], req'[s])
              /\ GivesUp(req[s], req'[s], n)
  <2>1. CASE s = r
    <3>1. Kept(new, n)
      BY <1>2, <1>6, <1>8, SameRows
    <3>2. Advances(req[r], new)
      BY <1>4 DEF Advances, LiveSteps
    <3>3. GivesUp(req[r], new, n)
      <4>1. \A a \in Account : req[r].tried[a] = q.tried[a]
        <5>1. Kept(req[r], mem) /\ req[r].step \notin LiveSteps
          BY <1>4 DEF Looping, Requests, LiveSteps
        <5> QED
          BY <1>3, <5>1 DEF Kept
      <4>2. \A i \in Enabled(n.rows) : n.rows[i].id \in Account
        <5>1. \A i \in DOMAIN m.rows : m.rows[i].id \in Account
          BY <1>2, RowsAre
        <5> QED
          BY <1>8, <5>1 DEF Enabled
      <4>3. Used(q, n) => Used(req[r], n)
        BY <4>1, <4>2 DEF Used
      <4> QED
        BY <1>6, <1>7, <4>3 DEF GivesUp
    <3> QED
      BY <1>9, <2>1, <3>1, <3>2, <3>3
  <2>2. CASE s # r
    <3>1. PICK other : other = Disturb(m)[s] /\ req'[s] = other
      BY <1>1, <1>9, <2>2
    <3>2. Kept(other, m) /\ Advances(req[s], other)
      BY <1>2, <3>1, DisturbedKept
    <3>3. Kept(other, n)
      BY <1>2, <1>8, <3>2, SameRows
    <3>4. GivesUp(req[s], other, n)
      <4>1. other.result = req[s].result
        <5>1. \E d : other = [req[s] EXCEPT !.disturbed = d]
          BY <3>1 DEF Disturb
        <5> QED
          BY <5>1
      <4>2. req[s].step # "ended" => req[s].result = "none"
        BY DEF Looping, Requests, Kept
      <4> QED
        BY <4>1, <4>2 DEF GivesUp, GaveUp
    <3> QED
      BY <3>1, <3>2, <3>3, <3>4
  <2> QED
    BY <2>1, <2>2
<1>11. Requests(req', n)
  BY <1>9, <1>10 DEF Requests
<1>12. Moves(req, req', n)
  BY <1>10 DEF Moves
<1>13. StrategyKnown'
  BY <1>4 DEF StrategyKnown
<1>14. Disk(file')
  BY <1>4 DEF Looping
<1> QED
  BY <1>7, <1>8, <1>11, <1>12, <1>13, <1>14 DEF Looping

\* The manager's rows and the requests stay as they are.
LEMMA NothingMoves ==
    ASSUME Looping, UNCHANGED <<req, session>>, Manager(mem'), Disk(file'),
           mem'.rows = mem.rows
    PROVE  Looping' /\ Moves(req, req', mem')
<1>1. PICK n : n = mem'
  OBVIOUS
<1>2. ASSUME NEW s \in Request
      PROVE  /\ Kept(req[s], n) /\ Advances(req[s], req[s])
             /\ GivesUp(req[s], req[s], n)
  <2>1. Kept(req[s], mem) /\ Rows(mem.rows)
    BY DEF Looping, Requests, Manager
  <2> QED
    BY <1>1, <2>1, SameRows, Unmoved
<1>3. Requests(req, n) /\ Moves(req, req, n)
  BY <1>2 DEF Requests, Moves, Looping
<1>4. StrategyKnown'
  BY DEF StrategyKnown, Looping
<1> QED
  BY <1>1, <1>3, <1>4 DEF Looping

LEMMA MovesInEveryStep ==
    ASSUME Looping, [Next]_vars
    PROVE  Looping' /\ Moves(req, req', mem')
<1>0. Manager(mem) /\ Disk(file)
  BY DEF Looping
<1>1. CASE \E r \in Request, withFile \in BOOLEAN : Begin(r, withFile)
  BY <1>1, MovesInBegin
<1>2. CASE \E r \in Request : Step(r)
  BY <1>2, MovesInRefresh, MovesInNetworkError, MovesInReceive, MovesInRetry,
     MovesInStream DEF Step
<1>3. CASE \E a \in Account : Expire(a)
  <2>1. Manager(mem') /\ Disk(file') /\ mem'.rows = mem.rows
    BY <1>0, <1>3, ManagerInExpire
  <2>2. UNCHANGED <<req, session>>
    BY <1>3 DEF Expire
  <2> QED
    BY <2>1, <2>2, NothingMoves
<1>4. CASE Save
  <2>1. UNCHANGED <<mem, req, session>> /\ file' = Saved(mem)
    BY <1>4 DEF Save
  <2>2. Disk(file') /\ Manager(mem') /\ mem'.rows = mem.rows
    BY <1>0, <2>1, SavedDisk
  <2> QED
    BY <2>1, <2>2, NothingMoves
<1>5. CASE OtherWrites
  <2>1. UNCHANGED <<mem, req, session>>
    BY <1>5 DEF OtherWrites
  <2>2. Disk(file') /\ Manager(mem') /\ mem'.rows = mem.rows
    BY <1>0, <1>5, <2>1, DiskInOtherWrites
  <2> QED
    BY <2>1, <2>2, NothingMoves
<1>6. CASE UNCHANGED vars
  BY <1>0, <1>6, NothingMoves DEF vars
<1> QED
  BY <1>1, <1>2, <1>3, <1>4, <1>5, <1>6 DEF Next

LEMMA LoopingAtFirst == Init => Looping
<1> SUFFICES ASSUME Init PROVE Looping
  OBVIOUS
<1>1. Manager(mem) /\ Disk(file)
  BY ManagerAtFirst
<1>2. StrategyKnown
  <2>1. session.strategy \in Strategies
    BY DEF Init
  <2> QED
    BY <2>1, ConstantsOK DEF StrategyKnown
<1>3. req = [r \in Request |-> NotStarted]
  BY DEF Init
<1>4. Kept(NotStarted, mem)
  <2>1. PICK q : q = NotStarted
    OBVIOUS
  <2>2. /\ Shaped(q) /\ q.step = "idle" /\ q.result = "none"
        /\ \A a \in Account : q.tried[a] = 0
    BY <2>1 DEF NotStarted, Shaped, Fields
  <2> QED
    BY <2>1, <2>2 DEF Kept, LiveSteps
<1>5. Requests(req, mem)
  BY <1>3, <1>4 DEF Requests
<1> QED
  BY <1>1, <1>2, <1>5 DEF Looping

LEMMA LoopingAlways == Spec => []Looping
<1>1. Looping /\ [Next]_vars => Looping'
  BY MovesInEveryStep
<1> QED
  BY <1>1, LoopingAtFirst, PTL DEF Spec

\* Health and tokens are kept by position and each position has what the account
\* that is now there earned (markSuccess, markFailure, markRateLimited,
\* syncActiveIndexFromDisk), however syncs move the rows and in whatever order
\* requests mark them.
THEOREM TrackersFollow == Spec => []TrackersFollowAccounts
<1>1. Looping => TrackersFollowAccounts
  BY DEF Looping, Manager, Tracks, TrackersFollowAccounts
<1> QED
  BY <1>1, LoopingAlways, PTL

\* "It tries each available account at most once per request" (README): by the
\* positions it skips, as long as no other request's sync moves the rows under it.
THEOREM TriedOnce == Spec => []AccountsTriedOnce
<1>1. Looping => AccountsTriedOnce
  <2>1. SUFFICES ASSUME Looping, NEW r \in Request, NEW a \in Account,
                        ~req[r].disturbed
                 PROVE  req[r].tried[a] <= 1
    BY DEF AccountsTriedOnce
  <2>2. Kept(req[r], mem)
    BY <2>1 DEF Looping, Requests
  <2>3. req[r].tried[a] \in {0, 1}
    BY <2>1, <2>2 DEF Kept, Ongoing, Counted
  <2> QED
    BY <2>3
<1> QED
  BY <1>1, LoopingAlways, PTL

\* A request that executeOAuthFetch gives up has tried every account that is
\* enabled and not resting, unless it was disturbed.
THEOREM GivesUpRightly == Spec => GivesUpForReason
<1>1. Looping /\ [Next]_vars =>
         [\A r \in Request :
            req[r].step # "ended" /\ req'[r].result \in GaveUp =>
                \/ req[r].disturbed
                \/ \A i \in Enabled(mem'.rows) :
                       \/ mem'.data[mem'.rows[i].id].limited > 0
                       \/ req[r].tried[mem'.rows[i].id] > 0]_vars
  <2>1. SUFFICES ASSUME Looping, [Next]_vars, NEW r \in Request,
                        req[r].step # "ended", req'[r].result \in GaveUp
                 PROVE  \/ req[r].disturbed
                        \/ \A i \in Enabled(mem'.rows) :
                               \/ mem'.data[mem'.rows[i].id].limited > 0
                               \/ req[r].tried[mem'.rows[i].id] > 0
    BY Zenon
  <2>2. Moves(req, req', mem')
    BY <2>1, MovesInEveryStep
  <2> QED
    BY <2>1, <2>2 DEF Moves, GivesUp, Used
<1> QED
  BY <1>1, LoopingAlways, PTL DEF Spec, GivesUpForReason

\* Every step of a request takes it nearer to its end: attempts, retries and
\* exclusions never go round in a circle (executeOAuthFetch, fetchWithRetry,
\* retryServiceWideResponse), whatever other requests do to the rows.
THEOREM RequestsAdvance == Spec => RequestAdvances
<1>1. Looping /\ [Next]_vars =>
         [\A r \in Request :
            Live(req[r]) =>
                \/ [req'[r] EXCEPT !.disturbed = FALSE]
                   = [req[r] EXCEPT !.disturbed = FALSE]
                \/ Variant(req'[r]) < Variant(req[r])]_vars
  <2>1. SUFFICES ASSUME Looping, [Next]_vars, NEW r \in Request, Live(req[r])
                 PROVE  \/ [req'[r] EXCEPT !.disturbed = FALSE]
                           = [req[r] EXCEPT !.disturbed = FALSE]
                        \/ Variant(req'[r]) < Variant(req[r])
    BY Zenon
  <2>2. Advances(req[r], req'[r])
    BY <2>1, MovesInEveryStep DEF Moves
  <2>3. req[r].step \in LiveSteps
    <3>1. req[r].step \in LiveSteps \cup {"idle", "ended"}
      BY <2>1 DEF Looping, Requests, Kept
    <3> QED
      BY <2>1, <3>1, LiveIs
  <2> QED
    BY <2>2, <2>3 DEF Advances
<1> QED
  BY <1>1, LoopingAlways, PTL DEF Spec, RequestAdvances
================================================================================
