-------------------------- MODULE HttpPipelineProofs --------------------------
(***************************************************************************)
(* Theorems about HttpPipeline, for every number of requests and retries,  *)
(* every timeout, deadline and window.                                     *)
(***************************************************************************)
EXTENDS HttpPipeline, FiniteSetTheorems, TLAPS

USE LimiterAssumption, PipelineAssumption

-------------------------------------------------------------------------------
(* The retry policy.                                                       *)

(* A request with effects is repeated on one occasion only: TestRail has   *)
(* limited it, which it does before it executes anything.                  *)
THEOREM EffectsRepeatedWhenLimited ==
  ASSUME NEW shape \in Shapes, HasEffects(shape)
  PROVE  LET policy == deriveRetryPolicy(shape)
         IN  /\ ~ isNetworkErrorRetryable(policy, shape.method)
             /\ \A status \in ErrorStatuses :
                  isStatusRetryable(policy, status, shape.method) => status = "limited"
BY DEF Shapes, HasEffects, deriveRetryPolicy, isNetworkErrorRetryable, isStatusRetryable,
       ErrorStatuses

-------------------------------------------------------------------------------
(* What becomes of one request.                                            *)

(* A phase is given some time, and no more than is left.                   *)
LEMMA AllowanceWithinDeadline ==
  ASSUME NEW call \in Call, NEW configured \in Nat, now \in Nat, ~ expired(call)
  PROVE  /\ allowanceFor(call, configured) \in Nat
         /\ call.deadlineAt # Never =>
              /\ allowanceFor(call, configured) # 0
              /\ now + allowanceFor(call, configured) <= call.deadlineAt
BY DEF Call, expired, expiredBy, allowanceFor, Least, Never

(* What the assignments of an ending leave is a call.                      *)
LEMMA EndedType ==
  ASSUME NEW call \in Call, NEW stage \in Stages \cup {"done"},
         NEW outcome \in Outcomes \cup {"none"}, NEW wakeAt \in Int,
         NEW fd \in {"none", "open", "closed"}
  PROVE  [call EXCEPT !.stage = stage, !.outcome = outcome, !.wakeAt = wakeAt, !.fd = fd]
           \in Call
BY DEF Call

(* A request that ends is sound, if the deadline it names is the right one.*)
LEMMA EndedSound ==
  ASSUME NEW call \in Call, NEW outcome \in Outcomes, now \in Nat,
         NamesDeadline(call, now), Clipped(call, now), call.stage \in Stages,
         outcome = "timeout" /\ call.deadlineAt # Never =>
           call.requestDeadlineAt < call.deadlineAt,
         outcome = "budget" => call.deadlineAt # Never /\ now >= call.deadlineAt - Early
  PROVE  /\ Sound(Ended(call, outcome), now)
         /\ Ended(call, outcome).stage = "done"
         /\ Ended(call, outcome).outcome = outcome
         /\ Ended(call, outcome).retryCount = call.retryCount
         /\ Ended(call, outcome).shape = call.shape
<1> DEFINE fd == IF call.fd = "open" THEN "closed" ELSE call.fd
           done == [call EXCEPT !.stage = "done", !.outcome = outcome, !.wakeAt = Never,
                                !.fd = fd]
<1>1. Ended(call, outcome) = done
  BY DEF Ended, Call
<1>2. fd \in {"none", "closed"}
  BY DEF Call
<1> HIDE DEF fd
<1>3. done \in Call
  <2>1. Never \in Int
    BY DEF Never
  <2>2. "done" \in Stages \cup {"done"} /\ fd \in {"none", "open", "closed"}
    BY <1>2
  <2>3. QED
    BY <2>1, <2>2, EndedType
<1>4. /\ done.stage = "done" /\ done.outcome = outcome /\ done.fd = fd
      /\ done.retryCount = call.retryCount /\ done.shape = call.shape
      /\ done.deadlineAt = call.deadlineAt /\ done.requestDeadlineAt = call.requestDeadlineAt
      /\ done.aborted = call.aborted
  BY DEF Call
<1> HIDE DEF done
<1>5. HoldsDescriptor(done) /\ HoldsCredential(done)
  BY <1>2, <1>4 DEF HoldsDescriptor, HoldsCredential, Stages
<1>6. Clipped(done, now)
  BY <1>4 DEF Clipped, Stages
<1>7. NamesDeadline(done, now)
  BY <1>4 DEF NamesDeadline
<1>8. QED
  BY <1>1, <1>3, <1>4, <1>5, <1>6, <1>7 DEF Sound

(* What the preamble of an attempt leaves is a call.                       *)
LEMMA AttemptedType ==
  ASSUME NEW call \in Call, NEW stage \in Stages \cup {"done"}, NEW n \in Nat,
         NEW auth \in BOOLEAN, NEW at \in Nat, NEW wakeAt \in Int, NEW aborted \in BOOLEAN,
         NEW status \in ErrorStatuses \cup {"none"}
  PROVE  [call EXCEPT !.stage = stage, !.retryCount = n, !.auth = auth,
                      !.requestDeadlineAt = at, !.wakeAt = wakeAt, !.aborted = aborted,
                      !.status = status] \in Call
BY DEF Call

(* The preamble of an attempt either ends the request or starts an attempt *)
(* with the credential and a timer within the deadline.                    *)
LEMMA AttemptedSound ==
  ASSUME NEW call \in Call, NEW n \in Nat, now \in Nat, isDestroyed \in BOOLEAN,
         NamesDeadline(call, now), Clipped(call, now),
         call.stage \in Stages \ {"building"}, call.fd # "closed"
  PROVE  /\ Sound(Attempted(call, n), now)
         /\ Attempted(call, n).stage \in {"done", "dns"}
         /\ Attempted(call, n).stage = "done" =>
              Attempted(call, n).outcome \in {"destroyed", "budget"}
<1>1. CASE isDestroyed
  BY <1>1, EndedSound DEF Attempted, Outcomes
<1>2. CASE ~ isDestroyed /\ expired(call)
  <2>1. call.deadlineAt # Never /\ now >= call.deadlineAt - Early
    BY <1>2 DEF expired, expiredBy, Call, Never
  <2>2. QED
    BY <1>2, <2>1, EndedSound DEF Attempted, Outcomes
<1>3. CASE ~ isDestroyed /\ ~ expired(call)
  <2> DEFINE at == now + allowanceFor(call, Timeout)
             new == [call EXCEPT !.stage = "dns", !.retryCount = n, !.auth = TRUE,
                                 !.requestDeadlineAt = at, !.wakeAt = Never,
                                 !.aborted = FALSE, !.status = "none"]
  <2>1. at \in Nat
    BY <1>3, AllowanceWithinDeadline
  <2>2. call.deadlineAt # Never => now <= call.deadlineAt
    BY <1>3 DEF expired, expiredBy, Call, Never
  <2>3. Attempted(call, n) = new
    BY <1>3 DEF Attempted
  <2> HIDE DEF at
  <2>4. new \in Call
    <3>1. /\ "dns" \in Stages \cup {"done"} /\ Never \in Int
          /\ "none" \in ErrorStatuses \cup {"none"}
          /\ TRUE \in BOOLEAN /\ FALSE \in BOOLEAN
      BY DEF Stages, Never
    <3>2. QED
      BY <2>1, <3>1, AttemptedType
  <2>5. /\ new.stage = "dns" /\ new.auth = TRUE /\ new.aborted = FALSE
        /\ new.fd = call.fd /\ new.shape = call.shape /\ new.deadlineAt = call.deadlineAt
    BY DEF Call
  <2> HIDE DEF new
  <2>6. HoldsDescriptor(new) /\ HoldsCredential(new)
    BY <2>5 DEF HoldsDescriptor, HoldsCredential
  <2>7. Clipped(new, now) /\ NamesDeadline(new, now)
    BY <2>2, <2>5 DEF Clipped, NamesDeadline
  <2>8. QED
    BY <2>3, <2>4, <2>5, <2>6, <2>7 DEF Sound
<1>4. QED
  BY <1>1, <1>2, <1>3

(* A new stage, the status it is in for, and its timer.                    *)
Staged(call, stage, status, wakeAt) ==
  [call EXCEPT !.stage = stage, !.status = status, !.wakeAt = wakeAt]

(* These leave a call.                                                     *)
LEMMA StagedType ==
  ASSUME NEW call \in Call, NEW stage \in Stages, NEW wakeAt \in Int,
         NEW status \in ErrorStatuses \cup {"none"}
  PROVE  Staged(call, stage, status, wakeAt) \in Call
BY DEF Call, Staged

(* A request goes on in a stage that needs no credential, with a timer     *)
(* within its deadline.                                                    *)
LEMMA StagedSound ==
  ASSUME NEW call \in Call, NEW stage \in {"reading", "errbody", "backoff"},
         NEW wakeAt \in Int, NEW status \in ErrorStatuses \cup {"none"},
         now \in Nat, Sound(call, now), call.stage \in Stages,
         stage = "errbody" => status # "none",
         stage # "backoff" /\ call.deadlineAt # Never =>
           wakeAt # Never /\ wakeAt <= call.deadlineAt
  PROVE  /\ Sound(Staged(call, stage, status, wakeAt), now)
         /\ Staged(call, stage, status, wakeAt).stage = stage
         /\ Staged(call, stage, status, wakeAt).retryCount = call.retryCount
         /\ Staged(call, stage, status, wakeAt).shape = call.shape
         /\ Staged(call, stage, status, wakeAt).status = status
<1> DEFINE new == Staged(call, stage, status, wakeAt)
<1>1. stage \in Stages
  BY DEF Stages
<1>2. new \in Call
  BY <1>1, StagedType
<1>3. /\ new.stage = stage /\ new.retryCount = call.retryCount /\ new.wakeAt = wakeAt
      /\ new.shape = call.shape /\ new.status = status /\ new.aborted = call.aborted
      /\ new.fd = call.fd /\ new.deadlineAt = call.deadlineAt
      /\ new.requestDeadlineAt = call.requestDeadlineAt
  BY DEF Call, Staged
<1> HIDE DEF new
<1>4. HoldsDescriptor(new) /\ HoldsCredential(new)
  BY <1>1, <1>3 DEF Sound, HoldsDescriptor, HoldsCredential
<1>5. Clipped(new, now)
  BY <1>1, <1>3 DEF Sound, Clipped
<1>6. NamesDeadline(new, now)
  BY <1>3 DEF Sound, NamesDeadline
<1>7. QED
  BY <1>2, <1>3, <1>4, <1>5, <1>6 DEF Sound, new

(* An attempt moves on to body construction, or is sent, or is aborted.    *)
LEMMA MovedSound ==
  ASSUME NEW call \in Call, Sound(call, now), now \in Nat, call.stage \in {"dns", "building"}
  PROVE  /\ LET new == [call EXCEPT !.stage = "sent"]
            IN  Sound(new, now) /\ new.stage = "sent" /\ new.retryCount = call.retryCount
                /\ new.shape = call.shape
         /\ LET new == [call EXCEPT !.stage = "building"]
            IN  (call.shape.body = "multipart" => Sound(new, now)) /\ new.stage = "building"
         /\ LET new == [call EXCEPT !.aborted = TRUE]
            IN  (now >= call.requestDeadlineAt - Early => Sound(new, now))
                /\ new.stage = call.stage
<1>1. ASSUME NEW stage \in {"sent", "building"},
             stage = "building" => call.shape.body = "multipart"
      PROVE  Sound([call EXCEPT !.stage = stage], now)
  <2> DEFINE new == [call EXCEPT !.stage = stage]
  <2>1. new \in Call
    BY DEF Call, Stages
  <2>2. /\ new.stage = stage /\ new.auth = call.auth /\ new.aborted = call.aborted
        /\ new.fd = call.fd /\ new.shape = call.shape /\ new.deadlineAt = call.deadlineAt
        /\ new.requestDeadlineAt = call.requestDeadlineAt
    BY DEF Call
  <2> HIDE DEF new
  <2>3. HoldsDescriptor(new) /\ HoldsCredential(new)
    BY <2>2 DEF Sound, HoldsDescriptor, HoldsCredential, Stages
  <2>4. Clipped(new, now) /\ NamesDeadline(new, now)
    BY <1>1, <2>2 DEF Sound, Clipped, NamesDeadline, Stages
  <2>5. QED
    BY <2>1, <2>3, <2>4 DEF Sound, new
<1>2. ASSUME now >= call.requestDeadlineAt - Early
      PROVE  Sound([call EXCEPT !.aborted = TRUE], now)
  <2> DEFINE new == [call EXCEPT !.aborted = TRUE]
  <2>1. new \in Call
    BY DEF Call
  <2>2. /\ new.stage = call.stage /\ new.auth = call.auth /\ new.fd = call.fd
        /\ new.shape = call.shape /\ new.deadlineAt = call.deadlineAt
        /\ new.requestDeadlineAt = call.requestDeadlineAt
    BY DEF Call
  <2> HIDE DEF new
  <2>3. HoldsDescriptor(new) /\ HoldsCredential(new)
    BY <2>2 DEF Sound, HoldsDescriptor, HoldsCredential, Stages
  <2>4. Clipped(new, now) /\ NamesDeadline(new, now)
    BY <1>2, <2>2 DEF Sound, Clipped, NamesDeadline, Stages
  <2>5. QED
    BY <2>1, <2>3, <2>4 DEF Sound, new
<1>3. QED
  BY <1>1, <1>2 DEF Call

(* The wait before a retry is cut by the budget.                           *)
LEMMA DelayedSound ==
  ASSUME NEW call \in Call, NEW delay \in Int, now \in Nat, Sound(call, now),
         call.stage \in Stages
  PROVE  LET new == Delayed(call, delay)
         IN  /\ Sound(new, now)
             /\ \/ new.stage = "backoff"
                \/ new = Ended(call, "budget") /\ expired(call)
<1>1. CASE expired(call)
  <2>1. call.deadlineAt # Never /\ now >= call.deadlineAt - Early
    BY <1>1 DEF expired, expiredBy, Call, Never
  <2>2. QED
    BY <1>1, <2>1, EndedSound DEF Delayed, Outcomes, Sound
<1>2. CASE ~ expired(call)
  <2> DEFINE new == Staged(call, "backoff", call.status, now + delay)
  <2>1. Delayed(call, delay) = new
    BY <1>2 DEF Delayed, Staged, Call
  <2>2. now + delay \in Int /\ call.status \in ErrorStatuses \cup {"none"}
    BY DEF Call
  <2>3. Sound(new, now) /\ new.stage = "backoff"
    BY <2>2, StagedSound
  <2>4. QED
    BY <2>1, <2>3
<1>3. QED
  BY <1>1, <1>2

-------------------------------------------------------------------------------
(* What becomes of a request and of its copies.                            *)

(* What the invariant says of one request, given the copies that may still *)
(* be executed, those that have been, and who invalidated the cache.       *)
Holds(r, call, onWire, done, invalidators) ==
  /\ call = Idle \/ Sound(call, now)
  /\ \A n \in Nat : <<r, n>> \in onWire \cup done => MayHaveCopy(call, n)
  /\ Accepted(call) =>
       /\ HasEffects(call.shape) => <<r, call.retryCount>> \in done
       /\ cacheInvalidationHook(call.shape) => r \in invalidators

HoldsNow(r) == Holds(r, req[r], wire, executed, invalidated)

(* A request that is not idle is a sound call.                             *)
LEMMA StagedCall ==
  ASSUME NEW r \in Requests, HoldsNow(r), req[r].stage # "idle"
  PROVE  req[r] \in Call /\ Sound(req[r], now)
BY DEF HoldsNow, Holds, Idle, Sound

(* Ending a request is right when a refusal leaves no copy behind.         *)
LEMMA EndedHolds ==
  ASSUME NEW r \in Requests, HoldsNow(r), now \in Nat, NEW outcome \in Outcomes,
         req[r].stage \in Stages, NEW onWire \in SUBSET wire,
         NEW invalidators, invalidated \subseteq invalidators,
         outcome = "timeout" /\ req[r].deadlineAt # Never =>
           req[r].requestDeadlineAt < req[r].deadlineAt,
         outcome = "budget" =>
           req[r].deadlineAt # Never /\ now >= req[r].deadlineAt - Early,
         outcome \in Refusals => \A n \in Nat : <<r, n>> \notin onWire \cup executed,
         outcome \in {"answered", "unreadable"} => req[r].stage = "reading"
  PROVE  Holds(r, Ended(req[r], outcome), onWire, executed, invalidators)
<1> DEFINE call == req[r]
           new == Ended(call, outcome)
<1>1. req[r].stage # "idle"
  BY DEF Stages
<1>2. call \in Call /\ Sound(call, now)
  BY <1>1, StagedCall
<1>3. /\ Sound(new, now) /\ new.stage = "done" /\ new.outcome = outcome
      /\ new.retryCount = call.retryCount /\ new.shape = call.shape
  BY <1>2, EndedSound DEF Sound
<1> HIDE DEF new
<1>4. \A n \in Nat : <<r, n>> \in onWire \cup executed => MayHaveCopy(new, n)
  BY <1>3 DEF HoldsNow, Holds, MayHaveCopy
<1>5. Accepted(new) => Accepted(call)
  BY <1>3 DEF Accepted
<1>6. QED
  BY <1>3, <1>4, <1>5 DEF HoldsNow, Holds, new

(* Nothing has been sent of an attempt that is being prepared or awaited.  *)
LEMMA NotYetSent ==
  ASSUME NEW r \in Requests, HoldsNow(r),
         req[r].stage \in {"idle", "dns", "building", "backoff"}
                         \/ (req[r].stage = "errbody" /\ req[r].status # "failed")
                         \/ (req[r].stage \in Stages /\ ~ HasEffects(req[r].shape))
  PROVE  \A n \in Nat : <<r, n>> \notin wire \cup executed
BY DEF HoldsNow, Holds, MayHaveCopy

(* A call that is being prepared or awaited may do without copies.         *)
LEMMA FreshHolds ==
  ASSUME NEW r \in Requests, NEW new, Sound(new, now),
         \A n \in Nat : <<r, n>> \notin wire \cup executed, ~ Accepted(new)
  PROVE  Holds(r, new, wire, executed, invalidated)
BY DEF Holds

-------------------------------------------------------------------------------
(* What each step of a request does to it.                                 *)

(* A step of r touches no other request, and no copy of another.           *)
Isolated(r) ==
  /\ req' = [req EXCEPT ![r] = req'[r]]
  /\ now' = now
  /\ executed' = executed
  /\ wire' \subseteq wire \cup ({r} \X Nat)
  /\ invalidated' \in {invalidated, invalidated \cup {r}}

StepHolds(r) == Holds(r, req'[r], wire', executed', invalidated') /\ Isolated(r)

(* A step that changes the request only.                                   *)
LEMMA BecomeHolds ==
  ASSUME TypeOK, NEW r \in Requests, NEW new, Become(r, new), StepOnly,
         Holds(r, new, wire, executed, invalidated)
  PROVE  StepHolds(r)
BY DEF TypeOK, Become, StepOnly, NetworkUnchanged, OthersUnchanged, StepHolds, Isolated

(* A timeout is attributed to the deadline that came first.                *)
LEMMA TimeoutErrorNames ==
  ASSUME NEW call \in Call, now \in Nat, now >= call.requestDeadlineAt - Early
  PROVE  LET outcome == timeoutError(call, TRUE)
         IN  /\ outcome \in {"timeout", "budget"}
             /\ outcome = "timeout" /\ call.deadlineAt # Never =>
                  call.requestDeadlineAt < call.deadlineAt
             /\ outcome = "budget" =>
                  call.deadlineAt # Never /\ now >= call.deadlineAt - Early
BY DEF Call, timeoutError, aggregateOwnsTimeout, expired, expiredBy, Never

(* Whatever timer or clock ends an attempt, the request ends well.         *)
LEMMA TimedOutHolds ==
  ASSUME TypeOK, NEW r \in Requests, HoldsNow(r), req[r].stage \in Stages,
         now >= req[r].requestDeadlineAt - Early
  PROVE  Holds(r, Ended(req[r], timeoutError(req[r], TRUE)), wire, executed, invalidated)
<1>1. req[r] \in Call
  BY StagedCall DEF Stages
<1>2. now \in Nat
  BY DEF TypeOK
<1> DEFINE outcome == timeoutError(req[r], TRUE)
<1>3. /\ outcome \in {"timeout", "budget"}
      /\ outcome = "timeout" /\ req[r].deadlineAt # Never =>
           req[r].requestDeadlineAt < req[r].deadlineAt
      /\ outcome = "budget" => req[r].deadlineAt # Never /\ now >= req[r].deadlineAt - Early
  BY <1>1, <1>2, TimeoutErrorNames
<1> HIDE DEF outcome
<1>4. outcome \in Outcomes /\ outcome \notin Refusals \cup {"answered", "unreadable"}
  BY <1>3 DEF Outcomes, Refusals
<1>5. Holds(r, Ended(req[r], outcome), wire, executed, invalidated)
  BY <1>2, <1>3, <1>4, EndedHolds
<1>6. QED
  BY <1>5 DEF outcome

(* An expired budget ends the request.                                     *)
LEMMA ExpiredHolds ==
  ASSUME TypeOK, NEW r \in Requests, HoldsNow(r), req[r].stage \in Stages,
         req[r].deadlineAt # Never, now >= req[r].deadlineAt - Early,
         NEW onWire \in SUBSET wire, NEW invalidators, invalidated \subseteq invalidators
  PROVE  Holds(r, Ended(req[r], "budget"), onWire, executed, invalidators)
<1>1. now \in Nat
  BY DEF TypeOK
<1>2. "budget" \in Outcomes /\ "budget" \notin Refusals
  BY DEF Outcomes, Refusals
<1>3. QED
  BY <1>1, <1>2, EndedHolds

(* expired() is an expired deadline.                                       *)
LEMMA ExpiredDeadline ==
  ASSUME TypeOK, NEW call \in Call, expired(call)
  PROVE  call.deadlineAt # Never /\ now >= call.deadlineAt - Early
BY DEF TypeOK, Call, expired, expiredBy, Never

(* Admission and fetch.                                                    *)
LEMMA SendHolds ==
  ASSUME TypeOK, NEW r \in Requests, HoldsNow(r), req[r].stage \in {"dns", "building"}, Send(r)
  PROVE  StepHolds(r)
<1> DEFINE call == req[r]
           late == call.aborted \/ now >= call.requestDeadlineAt
<1>1. call \in Call /\ Sound(call, now) /\ call.stage \in Stages /\ now \in Nat
  BY StagedCall DEF Stages, TypeOK
<1>2. \A n \in Nat : <<r, n>> \notin wire \cup executed
  BY NotYetSent
<1>3. CASE expired(call)
  <2>1. Holds(r, Ended(call, "budget"), wire, executed, invalidated)
    BY <1>1, <1>3, ExpiredDeadline, ExpiredHolds
  <2>2. Become(r, Ended(call, "budget")) /\ StepOnly
    BY <1>3 DEF Send, End, StepOnly
  <2>3. QED
    BY <2>1, <2>2, BecomeHolds
<1>4. CASE ~ expired(call) /\ late
  <2>1. now >= call.requestDeadlineAt - Early
    BY <1>1, <1>4 DEF Sound, NamesDeadline, Call
  <2>2. Holds(r, Ended(call, timeoutError(call, TRUE)), wire, executed, invalidated)
    BY <1>1, <2>1, TimedOutHolds
  <2>3. Become(r, Ended(call, timeoutError(call, TRUE))) /\ StepOnly
    BY <1>4 DEF Send, End, StepOnly
  <2>4. QED
    BY <2>2, <2>3, BecomeHolds
<1>5. CASE ~ expired(call) /\ ~ late /\ Rejects(call.retryCount = 0, now)
  <2>1. "localLimit" \in Outcomes
    BY DEF Outcomes
  <2>2. Holds(r, Ended(call, "localLimit"), wire, executed, invalidated)
    BY <1>1, <1>2, <2>1, EndedHolds
  <2>3. Become(r, Ended(call, "localLimit")) /\ UNCHANGED <<wire, executed>> /\ OthersUnchanged
    BY <1>5 DEF Send, End
  <2>4. QED
    BY <2>2, <2>3 DEF TypeOK, Become, OthersUnchanged, StepHolds, Isolated
<1>6. CASE ~ expired(call) /\ ~ late /\ ~ Rejects(call.retryCount = 0, now)
  <2> DEFINE new == [call EXCEPT !.stage = "sent"]
  <2>1. /\ Sound(new, now) /\ new.stage = "sent"
        /\ new.retryCount = call.retryCount /\ new.shape = call.shape
    BY <1>1, MovedSound
  <2>2. /\ Become(r, new) /\ OthersUnchanged /\ UNCHANGED executed
        /\ wire' = IF HasEffects(call.shape) THEN wire \cup {<<r, call.retryCount>>} ELSE wire
    BY <1>6 DEF Send
  <2> HIDE DEF new
  <2>3. \A n \in Nat : <<r, n>> \in wire' \cup executed => n = call.retryCount /\ HasEffects(call.shape)
    BY <1>2, <2>2
  <2>4. Holds(r, new, wire', executed, invalidated)
    BY <2>1, <2>3 DEF Holds, MayHaveCopy, Accepted
  <2>5. call.retryCount \in Nat
    BY <1>1 DEF Call
  <2>6. Isolated(r) /\ req'[r] = new
    BY <2>2, <2>5 DEF TypeOK, Become, OthersUnchanged, Isolated
  <2>7. QED
    BY <2>2, <2>4, <2>6 DEF OthersUnchanged, StepHolds
<1>7. QED
  BY <1>3, <1>4, <1>5, <1>6

(* A request begins, unless the client is destroyed.                       *)
LEMMA RequestHolds ==
  ASSUME TypeOK, NEW r \in Requests, HoldsNow(r), NEW shape \in Wanted,
         NEW deadline \in Deadlines, Request(r, shape, deadline)
  PROVE  StepHolds(r)
<1> DEFINE call == [stage |-> "dns", shape |-> shape,
                    deadlineAt |-> IF deadline = Never THEN Never ELSE now + deadline,
                    retryCount |-> 0, auth |-> FALSE, requestDeadlineAt |-> now,
                    wakeAt |-> Never, aborted |-> FALSE, status |-> "none",
                    fd |-> IF shape.body = "multipart" THEN "open" ELSE "none",
                    outcome |-> "none"]
           refused == [call EXCEPT !.stage = "done", !.outcome = "destroyed"]
           new == IF isDestroyed THEN refused ELSE Attempted(call, 0)
<1>1. now \in Nat /\ isDestroyed \in BOOLEAN
  BY DEF TypeOK
<1>2. shape \in Shapes
  OBVIOUS
<1>3. call.deadlineAt \in Nat \cup {Never} /\ Never \in Int
  BY <1>1 DEF Never
<1>4. call \in Call
  BY <1>1, <1>2, <1>3 DEF Call, Stages
<1>5. /\ call.deadlineAt # Never => call.shape.body # "multipart" /\ now <= call.deadlineAt
      /\ call.fd \in {"open", "none"}
  BY <1>1 DEF Request, Never
<1>6. Clipped(call, now) /\ NamesDeadline(call, now)
  BY <1>5 DEF Clipped, NamesDeadline
<1>7. CASE isDestroyed
  <2>1. refused \in Call
    <3> HIDE DEF call
    <3>1. QED
      BY <1>4 DEF Call, Outcomes
  <2>2. Sound(refused, now) /\ ~ Accepted(refused)
    BY <1>5, <2>1 DEF Sound, HoldsDescriptor, HoldsCredential, Clipped, NamesDeadline, Stages,
                      Accepted
  <2>3. QED
    BY <1>7, <2>2
       , <1>1, NotYetSent, FreshHolds, BecomeHolds DEF Request
<1>8. CASE ~ isDestroyed
  <2>1. call.stage \in Stages \ {"building"} /\ call.fd # "closed"
    BY <1>5 DEF Stages
  <2> HIDE DEF call
  <2>2. /\ Sound(Attempted(call, 0), now)
        /\ Attempted(call, 0).stage \in {"done", "dns"}
        /\ Attempted(call, 0).stage = "done" =>
             Attempted(call, 0).outcome \in {"destroyed", "budget"}
    BY <1>1, <1>4, <1>6, <2>1, AttemptedSound
  <2>3. ~ Accepted(Attempted(call, 0))
    BY <2>2 DEF Accepted
  <2>4. \A n \in Nat : <<r, n>> \notin wire \cup executed
    BY NotYetSent DEF Request
  <2>5. Become(r, Attempted(call, 0)) /\ StepOnly
    BY <1>8 DEF Request, call
  <2>6. QED
    BY <2>2, <2>3, <2>4, <2>5, FreshHolds, BecomeHolds
<1>9. QED
  BY <1>1, <1>7, <1>8

(* The end of the lookup, and of body construction.                        *)
LEMMA PreparedHolds ==
  ASSUME TypeOK, NEW r \in Requests, HoldsNow(r),
         DnsResolves(r) \/ DnsFails(r) \/ Built(r)
  PROVE  StepHolds(r)
<1>1. /\ req[r].stage \in {"dns", "building"} /\ req[r].stage \in Stages
      /\ req[r] \in Call /\ Sound(req[r], now) /\ now \in Nat
  BY StagedCall DEF DnsResolves, DnsFails, Built, Stages, TypeOK
<1>2. \A n \in Nat : <<r, n>> \notin wire \cup executed
  BY <1>1, NotYetSent
<1>3. CASE DnsResolves(r) /\ req[r].shape.body = "multipart"
  <2> DEFINE new == [req[r] EXCEPT !.stage = "building"]
  <2>1. Sound(new, now) /\ new.stage = "building"
    BY <1>1, <1>3, MovedSound
  <2>2. Become(r, new) /\ StepOnly
    BY <1>3 DEF DnsResolves
  <2> HIDE DEF new
  <2>3. QED
    BY <1>2, <2>1, <2>2, FreshHolds, BecomeHolds DEF Accepted
<1>4. CASE (DnsResolves(r) /\ req[r].shape.body # "multipart") \/ Built(r)
  BY <1>1, <1>4, SendHolds DEF DnsResolves, Built
<1>5. CASE DnsFails(r)
  <2>1. "dns" \in Outcomes
    BY DEF Outcomes
  <2>2. Holds(r, Ended(req[r], "dns"), wire, executed, invalidated)
    BY <1>1, <1>2, <2>1, EndedHolds
  <2>3. QED
    BY <1>5, <2>2, BecomeHolds DEF DnsFails, End
<1>6. QED
  BY <1>3, <1>4, <1>5

(* build() or fetch() fails; what has effects is not repeated.             *)
LEMMA DisconnectedHolds ==
  ASSUME TypeOK, NEW r \in Requests, HoldsNow(r), BuildFails(r) \/ NetworkError(r)
  PROVE  StepHolds(r)
<1> DEFINE call == req[r]
           repeat == /\ isNetworkErrorRetryable(deriveRetryPolicy(call.shape), call.shape.method)
                     /\ call.retryCount < MaxRetries
           delay == getRetryDelay(call.retryCount)
<1>1. /\ call.stage \in {"building", "sent"} /\ call.stage \in Stages
      /\ call \in Call /\ Sound(call, now) /\ now \in Nat
  BY StagedCall DEF BuildFails, NetworkError, Stages, TypeOK
<1>2. Become(r, Disconnected(call)) /\ StepOnly
  BY DEF BuildFails, NetworkError
<1>3. CASE repeat
  <2>1. \A n \in Nat : <<r, n>> \notin wire \cup executed
    BY <1>1, <1>3, NotYetSent, EffectsRepeatedWhenLimited DEF Call
  <2>2. delay \in Int
    BY <1>1 DEF getRetryDelay, Least, Call
  <2>3. Disconnected(call) = Delayed(call, delay)
    BY <1>3 DEF Disconnected
  <2> HIDE DEF delay
  <2>4. /\ Sound(Delayed(call, delay), now)
        /\ \/ Delayed(call, delay).stage = "backoff"
           \/ Delayed(call, delay) = Ended(call, "budget") /\ expired(call)
    BY <1>1, <2>2, DelayedSound
  <2>5. CASE Delayed(call, delay).stage = "backoff"
    <3>1. ~ Accepted(Delayed(call, delay))
      BY <2>5 DEF Accepted
    <3>2. QED
      BY <1>2, <2>1, <2>3, <2>4, <3>1, FreshHolds, BecomeHolds
  <2>6. CASE Delayed(call, delay) = Ended(call, "budget") /\ expired(call)
    <3>1. Holds(r, Ended(call, "budget"), wire, executed, invalidated)
      BY <1>1, <2>6, ExpiredDeadline, ExpiredHolds
    <3>2. QED
      BY <1>2, <2>3, <2>6, <3>1, BecomeHolds
  <2>7. QED
    BY <2>4, <2>5, <2>6
<1>4. CASE ~ repeat
  <2>1. "network" \in Outcomes /\ "network" \notin Refusals
    BY DEF Outcomes, Refusals
  <2>2. Disconnected(call) = Ended(call, "network")
    BY <1>4 DEF Disconnected
  <2>3. Holds(r, Ended(call, "network"), wire, executed, invalidated)
    BY <1>1, <2>1, EndedHolds
  <2>4. QED
    BY <1>2, <2>2, <2>3, BecomeHolds
<1>5. QED
  BY <1>3, <1>4

(* The timer of a body read is within the deadline.                        *)
LEMMA BodyTimerClipped ==
  ASSUME NEW call \in Call, now \in Nat, ~ expired(call)
  PROVE  LET wakeAt == IF allowanceFor(call, BodyTimeout) = 0 THEN Never
                       ELSE now + allowanceFor(call, BodyTimeout)
         IN  wakeAt \in Int
             /\ (call.deadlineAt # Never => wakeAt # Never /\ wakeAt <= call.deadlineAt)
<1>1. BodyTimeout \in Nat
  OBVIOUS
<1>2. /\ allowanceFor(call, BodyTimeout) \in Nat
      /\ call.deadlineAt # Never =>
           /\ allowanceFor(call, BodyTimeout) # 0
           /\ now + allowanceFor(call, BodyTimeout) <= call.deadlineAt
  BY <1>1, AllowanceWithinDeadline
<1>3. QED
  BY <1>2 DEF Never

(* Ok headers: TestRail has executed the request, and the cache has been   *)
(* invalidated if it was a write.                                          *)
LEMMA OkHolds ==
  ASSUME TypeOK, NEW r \in Requests, HoldsNow(r), OkArrives(r)
  PROVE  StepHolds(r)
<1> DEFINE call == req[r]
           wakeAt == IF allowanceFor(call, BodyTimeout) = 0 THEN Never
                     ELSE now + allowanceFor(call, BodyTimeout)
<1>1. /\ call.stage = "sent" /\ call.stage \in Stages
      /\ call \in Call /\ Sound(call, now) /\ now \in Nat
  BY StagedCall DEF OkArrives, Stages, TypeOK
<1>2. /\ wire' = wire /\ executed' = executed /\ now' = now
      /\ invalidated' = IF cacheInvalidationHook(call.shape) THEN invalidated \cup {r}
                        ELSE invalidated
      /\ HasEffects(call.shape) => <<r, call.retryCount>> \in executed
  BY DEF OkArrives, NetworkUnchanged
<1>3. CASE expired(call)
  <2>1. Become(r, Ended(call, "budget"))
    BY <1>3 DEF OkArrives
  <2>2. invalidated \subseteq invalidated'
    BY <1>2
  <2>3. Holds(r, Ended(call, "budget"), wire, executed, invalidated')
    BY <1>1, <1>3, <2>2, ExpiredDeadline, ExpiredHolds
  <2>4. QED
    BY <1>2, <2>1, <2>3 DEF TypeOK, Become, StepHolds, Isolated
<1>4. CASE ~ expired(call)
  <2> DEFINE new == Staged(call, "reading", call.status, wakeAt)
  <2>1. Become(r, new)
    BY <1>1, <1>4 DEF OkArrives, Staged, Call
  <2>2. wakeAt \in Int /\ (call.deadlineAt # Never => wakeAt # Never /\ wakeAt <= call.deadlineAt)
    BY <1>1, <1>4, BodyTimerClipped
  <2> HIDE DEF wakeAt
  <2>3. call.status \in ErrorStatuses \cup {"none"}
    BY <1>1 DEF Call
  <2>4. /\ Sound(new, now) /\ new.stage = "reading"
        /\ new.retryCount = call.retryCount /\ new.shape = call.shape
    BY <1>1, <2>2, <2>3, StagedSound
  <2> HIDE DEF new
  <2>5. \A n \in Nat : <<r, n>> \in wire \cup executed => MayHaveCopy(new, n)
    BY <2>4 DEF HoldsNow, Holds, MayHaveCopy
  <2>6. Holds(r, new, wire, executed, invalidated')
    BY <1>2, <2>4, <2>5 DEF Holds
  <2>7. QED
    BY <1>2, <2>1, <2>6 DEF TypeOK, Become, StepHolds, Isolated
<1>5. QED
  BY <1>3, <1>4

(* The headers of an error: a refusal leaves no copy.                      *)
LEMMA ErrorHolds ==
  ASSUME TypeOK, NEW r \in Requests, HoldsNow(r), NEW status \in ErrorStatuses,
         ErrorArrives(r, status)
  PROVE  StepHolds(r)
<1> DEFINE call == req[r]
           wakeAt == IF allowanceFor(call, BodyTimeout) = 0 THEN Never
                     ELSE now + allowanceFor(call, BodyTimeout)
<1>1. /\ call.stage = "sent" /\ call.stage \in Stages
      /\ call \in Call /\ Sound(call, now) /\ now \in Nat
  BY StagedCall DEF ErrorArrives, Stages, TypeOK
<1>2. /\ executed' = executed /\ now' = now /\ invalidated' = invalidated
      /\ wire' = IF status = "failed" THEN wire ELSE wire \ {<<r, call.retryCount>>}
      /\ status # "failed" => <<r, call.retryCount>> \notin executed
  BY DEF ErrorArrives, OthersUnchanged
<1>3. wire' \in SUBSET wire
  BY <1>2
<1>4. CASE expired(call)
  <2>1. Become(r, Ended(call, "budget"))
    BY <1>4 DEF ErrorArrives
  <2>2. Holds(r, Ended(call, "budget"), wire', executed, invalidated)
    BY <1>1, <1>3, <1>4, ExpiredDeadline, ExpiredHolds
  <2>3. QED
    BY <1>2, <1>3, <2>1, <2>2 DEF TypeOK, Become, StepHolds, Isolated
<1>5. CASE ~ expired(call)
  <2> DEFINE new == Staged(call, "errbody", status, wakeAt)
  <2>1. Become(r, new)
    BY <1>1, <1>5 DEF ErrorArrives, Staged
  <2>2. wakeAt \in Int /\ (call.deadlineAt # Never => wakeAt # Never /\ wakeAt <= call.deadlineAt)
    BY <1>1, <1>5, BodyTimerClipped
  <2> HIDE DEF wakeAt
  <2>3. status \in ErrorStatuses \cup {"none"} /\ status # "none"
    BY DEF ErrorStatuses
  <2>4. /\ Sound(new, now) /\ new.stage = "errbody" /\ new.status = status
        /\ new.retryCount = call.retryCount /\ new.shape = call.shape
    BY <1>1, <2>2, <2>3, StagedSound
  <2> HIDE DEF new
  <2>5. \A n \in Nat : <<r, n>> \in wire' \cup executed => MayHaveCopy(new, n)
    BY <1>2, <2>4 DEF HoldsNow, Holds, MayHaveCopy
  <2>6. Holds(r, new, wire', executed, invalidated)
    BY <2>4, <2>5 DEF Holds, Accepted
  <2>7. QED
    BY <1>2, <1>3, <2>1, <2>6 DEF TypeOK, Become, StepHolds, Isolated
<1>6. QED
  BY <1>4, <1>5

(* A redirect: the request was not passed on.                              *)
LEMMA RedirectedHolds ==
  ASSUME TypeOK, NEW r \in Requests, HoldsNow(r), Redirected(r)
  PROVE  StepHolds(r)
<1>1. req[r].stage \in Stages /\ now \in Nat /\ req[r].stage = "sent" /\ "redirect" \in Outcomes
  BY DEF Redirected, Stages, TypeOK, Outcomes
<1>2. wire' \in SUBSET wire
  BY DEF Redirected
<1>3. \A n \in Nat : <<r, n>> \notin wire' \cup executed
  BY DEF Redirected, HoldsNow, Holds, MayHaveCopy
<1>4. Holds(r, Ended(req[r], "redirect"), wire', executed, invalidated)
  BY <1>1, <1>2, <1>3, EndedHolds
<1>5. QED
  BY <1>2, <1>4 DEF Redirected, End, TypeOK, Become, OthersUnchanged, StepHolds, Isolated

(* The body of a response, and its timer.                                  *)
LEMMA BodyHolds ==
  ASSUME TypeOK, NEW r \in Requests, HoldsNow(r),
         BodyRead(r) \/ BodyUnreadable(r) \/ ErrorUnreadable(r) \/ BodyTimer(r)
  PROVE  StepHolds(r)
<1>1. PICK outcome \in {"answered", "unreadable", "errorUnreadable"} :
        /\ Become(r, Ended(req[r], outcome)) /\ StepOnly
        /\ req[r].stage = IF outcome = "errorUnreadable" THEN "errbody" ELSE "reading"
  BY DEF BodyRead, BodyUnreadable, ErrorUnreadable, BodyTimer, End
<1>2. /\ req[r].stage \in Stages /\ now \in Nat
      /\ outcome \in Outcomes /\ outcome \notin Refusals \cup {"timeout", "budget"}
  BY <1>1 DEF Stages, TypeOK, Outcomes, Refusals
<1>3. Holds(r, Ended(req[r], outcome), wire, executed, invalidated)
  BY <1>1, <1>2, EndedHolds
<1>4. QED
  BY <1>1, <1>3, BecomeHolds

(* The body of an error: what is repeated has no copy, what is surfaced as *)
(* a refusal has none either.                                              *)
LEMMA ErrorReadHolds ==
  ASSUME TypeOK, NEW r \in Requests, HoldsNow(r), NEW retryAfter \in RetryAfters,
         ErrorRead(r, retryAfter)
  PROVE  StepHolds(r)
<1> DEFINE call == req[r]
           repeat == /\ isStatusRetryable(deriveRetryPolicy(call.shape), call.status,
                                          call.shape.method)
                     /\ call.retryCount < MaxRetries
           delay == IF retryAfter = 0 THEN getRetryDelay(call.retryCount)
                    ELSE Least(retryAfter, MaxDelay)
<1>1. /\ call.stage = "errbody" /\ call.stage \in Stages
      /\ call \in Call /\ Sound(call, now) /\ now \in Nat
  BY StagedCall DEF ErrorRead, Stages, TypeOK
<1>2. call.status \in ErrorStatuses
  BY <1>1 DEF Sound, Call
<1>3. StepOnly
  BY DEF ErrorRead
<1>4. CASE repeat
  <2>1. \A n \in Nat : <<r, n>> \notin wire \cup executed
    BY <1>1, <1>2, <1>4, NotYetSent, EffectsRepeatedWhenLimited DEF Call
  <2>2. delay \in Int
    <3>1. getRetryDelay(call.retryCount) \in Int
      BY <1>1 DEF getRetryDelay, Least, Call
    <3>2. retryAfter \in Nat /\ MaxDelay \in Nat
      OBVIOUS
    <3>3. QED
      BY <3>1, <3>2 DEF Least
  <2>3. Become(r, Delayed(call, delay))
    BY <1>4 DEF ErrorRead
  <2> HIDE DEF delay
  <2>4. /\ Sound(Delayed(call, delay), now)
        /\ \/ Delayed(call, delay).stage = "backoff"
           \/ Delayed(call, delay) = Ended(call, "budget") /\ expired(call)
    BY <1>1, <2>2, DelayedSound
  <2>5. CASE Delayed(call, delay).stage = "backoff"
    <3>1. ~ Accepted(Delayed(call, delay))
      BY <2>5 DEF Accepted
    <3>2. QED
      BY <1>3, <2>1, <2>3, <2>4, <3>1, FreshHolds, BecomeHolds
  <2>6. CASE Delayed(call, delay) = Ended(call, "budget") /\ expired(call)
    <3>1. Holds(r, Ended(call, "budget"), wire, executed, invalidated)
      BY <1>1, <2>6, ExpiredDeadline, ExpiredHolds
    <3>2. QED
      BY <1>3, <2>3, <2>6, <3>1, BecomeHolds
  <2>7. QED
    BY <2>4, <2>5, <2>6
<1>5. CASE ~ repeat
  <2>1. call.status \in Outcomes /\ call.status \notin {"timeout", "budget", "answered", "unreadable"}
    BY <1>2 DEF ErrorStatuses, Outcomes
  <2>2. call.status \in Refusals => call.status # "failed"
    BY DEF Refusals
  <2>3. call.status \in Refusals => \A n \in Nat : <<r, n>> \notin wire \cup executed
    BY <1>1, <2>2, NotYetSent
  <2>4. Holds(r, Ended(call, call.status), wire, executed, invalidated)
    BY <1>1, <2>1, <2>3, EndedHolds
  <2>5. Become(r, Ended(call, call.status))
    BY <1>5 DEF ErrorRead
  <2>6. QED
    BY <1>3, <2>4, <2>5, BecomeHolds
<1>6. QED
  BY <1>4, <1>5

(* The timers of an attempt and of the budget.                             *)
LEMMA TimerHolds ==
  ASSUME TypeOK, NEW r \in Requests, HoldsNow(r), AttemptTimer(r) \/ BudgetTimer(r)
  PROVE  StepHolds(r)
<1> DEFINE call == req[r]
<1>1. /\ call.stage \in Stages /\ call \in Call /\ Sound(call, now) /\ now \in Nat
  BY StagedCall DEF AttemptTimer, BudgetTimer, Stages, TypeOK
<1>2. CASE AttemptTimer(r) /\ call.stage = "building"
  <2> DEFINE new == [call EXCEPT !.aborted = TRUE]
  <2>1. now >= call.requestDeadlineAt - Early
    BY <1>2 DEF AttemptTimer, Fires
  <2>2. Sound(new, now) /\ new.stage = "building"
    BY <1>1, <1>2, <2>1, MovedSound
  <2>3. Become(r, new) /\ StepOnly
    BY <1>2 DEF AttemptTimer
  <2> HIDE DEF new
  <2>4. \A n \in Nat : <<r, n>> \notin wire \cup executed
    BY <1>2, NotYetSent
  <2>5. QED
    BY <2>2, <2>3, <2>4, FreshHolds, BecomeHolds DEF Accepted
<1>3. CASE AttemptTimer(r) /\ call.stage # "building"
  <2>1. now >= call.requestDeadlineAt - Early
    BY <1>3 DEF AttemptTimer, Fires
  <2>2. Holds(r, Ended(call, timeoutError(call, TRUE)), wire, executed, invalidated)
    BY <1>1, <2>1, TimedOutHolds
  <2>3. QED
    BY <1>3, <2>2, BecomeHolds DEF AttemptTimer, End
<1>4. CASE BudgetTimer(r)
  <2>1. call.deadlineAt # Never /\ now >= call.deadlineAt - Early
    BY <1>4 DEF BudgetTimer, Fires
  <2>2. Holds(r, Ended(call, "budget"), wire, executed, invalidated)
    BY <1>1, <2>1, ExpiredHolds
  <2>3. QED
    BY <1>4, <2>2, BecomeHolds DEF BudgetTimer, End
<1>5. QED
  BY <1>2, <1>3, <1>4

(* The next attempt.                                                       *)
LEMMA DelayEndsHolds ==
  ASSUME TypeOK, NEW r \in Requests, HoldsNow(r), DelayEnds(r)
  PROVE  StepHolds(r)
<1> DEFINE call == req[r]
           n == call.retryCount + 1
           new == Attempted(call, n)
<1>1. /\ call.stage = "backoff" /\ call.stage \in Stages \ {"building"}
      /\ call \in Call /\ Sound(call, now) /\ now \in Nat /\ isDestroyed \in BOOLEAN
  BY StagedCall DEF DelayEnds, Stages, TypeOK
<1>2. /\ n \in Nat /\ call.fd # "closed"
      /\ NamesDeadline(call, now) /\ Clipped(call, now)
  BY <1>1 DEF Call, Sound, HoldsDescriptor
<1>3. Become(r, new) /\ StepOnly
  BY DEF DelayEnds
<1> HIDE DEF n
<1>4. /\ Sound(new, now) /\ new.stage \in {"done", "dns"}
      /\ new.stage = "done" => new.outcome \in {"destroyed", "budget"}
  BY <1>1, <1>2, AttemptedSound
<1> HIDE DEF new
<1>5. ~ Accepted(new)
  BY <1>4 DEF Accepted
<1>6. \A m \in Nat : <<r, m>> \notin wire \cup executed
  BY <1>1, NotYetSent
<1>7. QED
  BY <1>3, <1>4, <1>5, <1>6, FreshHolds, BecomeHolds

-------------------------------------------------------------------------------
(* Every step.                                                             *)

RequestStep(r) ==
  \/ \E shape \in Wanted, deadline \in Deadlines : Request(r, shape, deadline)
  \/ DnsResolves(r) \/ DnsFails(r)
  \/ Built(r) \/ BuildFails(r)
  \/ NetworkError(r) \/ OkArrives(r) \/ Redirected(r)
  \/ \E status \in ErrorStatuses : ErrorArrives(r, status)
  \/ BodyRead(r) \/ BodyUnreadable(r)
  \/ \E retryAfter \in RetryAfters : ErrorRead(r, retryAfter)
  \/ ErrorUnreadable(r)
  \/ AttemptTimer(r) \/ BudgetTimer(r) \/ BodyTimer(r) \/ DelayEnds(r)

(* The steps of a request, and those of the world around it.               *)
LEMMA NextCases ==
  ASSUME [Next]_vars
  PROVE  \/ \E r \in Requests : RequestStep(r)
         \/ \E attempt \in wire : Execute(attempt)
         \/ Destroy \/ Tick \/ UNCHANGED vars
BY DEF Next, RequestStep

(* Every step of a request keeps what the invariant says of it.            *)
LEMMA RequestStepHolds ==
  ASSUME TypeOK, NEW r \in Requests, HoldsNow(r), RequestStep(r)
  PROVE  StepHolds(r)
BY RequestHolds, PreparedHolds, DisconnectedHolds, OkHolds, ErrorHolds, RedirectedHolds,
   BodyHolds, ErrorReadHolds, TimerHolds, DelayEndsHolds DEF RequestStep

(* Time passes only when no timer is due, so it overtakes no deadline.     *)
LEMMA TickSound ==
  ASSUME TypeOK, NEW r \in Requests, req[r] # Idle, Sound(req[r], now), ~ Overdue(r)
  PROVE  Sound(req[r], now + 1)
<1> DEFINE call == req[r]
<1>1. call \in Call /\ now \in Nat /\ call.deadlineAt \in Nat \cup {Never}
      /\ call.requestDeadlineAt \in Nat /\ call.wakeAt \in Int /\ Early \in Nat
  BY DEF Sound, Call, TypeOK
<1>2. ASSUME call.deadlineAt # Never, call.stage \in Stages
      PROVE  now + 1 <= call.deadlineAt
  <2>1. call.stage \in {"dns", "sent", "backoff"} => ~ (now >= call.deadlineAt)
    BY <1>2 DEF Overdue, expired, expiredBy
  <2>2. call.stage \in {"reading", "errbody"} =>
          ~ (now >= call.wakeAt) /\ call.wakeAt <= call.deadlineAt
    BY <1>2 DEF Overdue, Sound, Clipped
  <2>3. call.stage # "building"
    BY <1>2 DEF Sound, Clipped
  <2>4. QED
    BY <1>1, <1>2, <2>1, <2>2, <2>3 DEF Stages, Never
<1>3. Clipped(call, now + 1)
  BY <1>2 DEF Sound, Clipped
<1>4. NamesDeadline(call, now + 1)
  BY <1>1 DEF Sound, NamesDeadline, Never
<1>5. QED
  BY <1>3, <1>4 DEF Sound

AllHold == \A r \in Requests : HoldsNow(r)

(* Every step keeps what the invariant says of every request.              *)
LEMMA AllHoldNext ==
  ASSUME TypeOK, AllHold, [Next]_vars
  PROVE  AllHold'
<1>1. ASSUME NEW r \in Requests, RequestStep(r)
      PROVE  AllHold'
  <2>1. StepHolds(r)
    BY <1>1, RequestStepHolds DEF AllHold
  <2>2. ASSUME NEW q \in Requests PROVE HoldsNow(q)'
    <3>1. CASE q = r
      BY <2>1, <3>1 DEF StepHolds, Isolated, HoldsNow, Holds
    <3>2. CASE q # r
      <4>1. /\ req'[q] = req[q] /\ now' = now /\ executed' = executed
            /\ \A n \in Nat : <<q, n>> \in wire' => <<q, n>> \in wire
            /\ q \in invalidated => q \in invalidated'
        BY <2>1, <3>2 DEF StepHolds, Isolated, TypeOK
      <4>2. HoldsNow(q)
        BY DEF AllHold
      <4>3. QED
        BY <4>1, <4>2 DEF HoldsNow, Holds
    <3>3. QED
      BY <3>1, <3>2
  <2>3. QED
    BY <2>2 DEF AllHold
<1>2. ASSUME NEW attempt \in wire, Execute(attempt)
      PROVE  AllHold'
  <2>1. /\ wire' \cup executed' = wire \cup executed /\ executed \subseteq executed'
        /\ req' = req /\ now' = now /\ invalidated' = invalidated
    BY <1>2 DEF Execute, OthersUnchanged
  <2>2. QED
    BY <2>1 DEF AllHold, HoldsNow, Holds
<1>3. CASE Destroy \/ UNCHANGED vars
  <2>1. UNCHANGED <<wire, executed, req, now, invalidated>>
    BY <1>3 DEF Destroy, NetworkUnchanged, vars
  <2>2. QED
    BY <2>1 DEF AllHold, HoldsNow, Holds
<1>4. CASE Tick
  <2>1. UNCHANGED <<wire, executed, req, invalidated>> /\ now' = now + 1
    BY <1>4 DEF Tick, NetworkUnchanged
  <2>2. ASSUME NEW r \in Requests PROVE HoldsNow(r)'
    <3>1. req[r] = Idle \/ Sound(req[r], now + 1)
      BY <1>4, TickSound DEF AllHold, HoldsNow, Holds, Tick
    <3>2. QED
      BY <2>1, <3>1 DEF AllHold, HoldsNow, Holds
  <2>3. QED
    BY <2>2 DEF AllHold
<1>5. QED
  BY <1>1, <1>2, <1>3, <1>4, NextCases

(* A step of a request leaves the window and its history alone, or asks    *)
(* for admission now.                                                      *)
Admission(r) ==
  \E n \in Nat :
    LET slot == [of |-> <<r, n>>, at |-> now]
    IN  /\ checkRateLimit(n = 0, slot)
        /\ sends' = IF Rejects(n = 0, now) THEN sends ELSE sends \cup {slot}

LEMMA AdmissionOrNot ==
  ASSUME TypeOK, NEW r \in Requests, HoldsNow(r), RequestStep(r)
  PROVE  UNCHANGED <<requests, sends>> \/ Admission(r)
<1>1. CASE Send(r) /\ req[r].stage \in {"dns", "building"}
  <2>1. req[r].retryCount \in Nat
    BY <1>1, StagedCall DEF Call
  <2>2. QED
    BY <1>1, <2>1 DEF Send, Admission, NetworkUnchanged
<1>2. CASE ~ (Send(r) /\ req[r].stage \in {"dns", "building"})
  BY <1>2 DEF RequestStep, Request, DnsResolves, DnsFails, Built, BuildFails, NetworkError,
      OkArrives, Redirected, ErrorArrives, BodyRead, BodyUnreadable, ErrorRead, ErrorUnreadable,
      AttemptTimer, BudgetTimer, BodyTimer, DelayEnds, StepOnly, NetworkUnchanged
<1>3. QED
  BY <1>1, <1>2

WindowInv == SlotsArePast /\ SlotsAreSends

(* Forgetting what left the window loses nothing that a later window sees. *)
LEMMA WindowShrinks ==
  ASSUME NEW slots, NEW others, NEW at \in Nat, InWindow(slots, at) = InWindow(others, at),
         \A slot \in slots \cup others : slot.at \in Nat
  PROVE  InWindow(slots, at + 1) = InWindow(others, at + 1)
<1>1. Window \in Nat
  OBVIOUS
<1>2. ASSUME NEW s, \A slot \in s : slot.at \in Nat
      PROVE  InWindow(s, at + 1) = {slot \in InWindow(s, at) : slot.at > at + 1 - Window}
  BY <1>1, <1>2 DEF InWindow
<1>3. QED
  BY <1>2

(* The window keeps counting what was sent.                                *)
LEMMA WindowNext ==
  ASSUME TypeOK, AllHold, WindowInv, [Next]_vars
  PROVE  WindowInv'
<1>1. ASSUME NEW r \in Requests, RequestStep(r), Admission(r)
      PROVE  WindowInv'
  <2>1. HoldsNow(r)
    BY DEF AllHold
  <2>2. now' = now /\ now \in Nat /\ Window \in Nat \ {0}
    BY <1>1, <2>1, RequestStepHolds DEF StepHolds, Isolated, TypeOK
  <2>3. PICK n \in Nat :
          /\ checkRateLimit(n = 0, [of |-> <<r, n>>, at |-> now])
          /\ sends' = IF Rejects(n = 0, now) THEN sends
                      ELSE sends \cup {[of |-> <<r, n>>, at |-> now]}
    BY <1>1 DEF Admission
  <2> DEFINE slot == [of |-> <<r, n>>, at |-> now]
             added == IF Rejects(n = 0, now) THEN {} ELSE {slot}
  <2>4. requests' = InWindow(requests, now) \cup added /\ sends' = sends \cup added
    BY <2>3 DEF checkRateLimit
  <2>5. \A s \in added : s.at = now
    OBVIOUS
  <2>6. IsFiniteSet(added)
    BY FS_EmptySet, FS_Singleton
  <2> HIDE DEF added
  <2>7. InWindow(requests, now) \subseteq requests
    BY DEF InWindow
  <2>8. IsFiniteSet(requests')
    BY <2>4, <2>6, <2>7, FS_Subset, FS_Union DEF WindowInv, SlotsArePast
  <2>9. SlotsArePast'
    BY <2>2, <2>4, <2>5, <2>7, <2>8 DEF WindowInv, SlotsArePast
  <2>10. InWindow(requests', now) = InWindow(sends', now)
    <3>1. \A s \in added : s.at > now - Window
      BY <2>2, <2>5
    <3>2. InWindow(requests', now) = InWindow(requests, now) \cup added
      BY <2>4, <3>1 DEF InWindow
    <3>3. InWindow(sends', now) = InWindow(sends, now) \cup added
      BY <2>4, <3>1 DEF InWindow
    <3>4. QED
      BY <3>2, <3>3 DEF WindowInv, SlotsAreSends
  <2>11. SlotsAreSends'
    BY <2>2, <2>10 DEF SlotsAreSends
  <2>12. QED
    BY <2>9, <2>11 DEF WindowInv
<1>2. CASE UNCHANGED <<requests, sends, now>>
  BY <1>2 DEF WindowInv, SlotsArePast, SlotsAreSends, InWindow
<1>3. CASE Tick
  <2>1. now \in Nat /\ now' = now + 1 /\ UNCHANGED <<requests, sends>>
    BY <1>3 DEF Tick, NetworkUnchanged, TypeOK
  <2>2. \A slot \in requests \cup sends : slot.at \in Nat
    BY DEF TypeOK, Slot
  <2>3. SlotsArePast'
    BY <2>1, <2>2 DEF WindowInv, SlotsArePast
  <2>4. InWindow(requests, now + 1) = InWindow(sends, now + 1)
    BY <2>1, <2>2, WindowShrinks DEF WindowInv, SlotsAreSends
  <2>5. SlotsAreSends'
    BY <2>1, <2>4 DEF SlotsAreSends
  <2>6. QED
    BY <2>3, <2>5 DEF WindowInv
<1>4. ASSUME NEW r \in Requests, RequestStep(r)
      PROVE  UNCHANGED <<requests, sends, now>> \/ Admission(r)
  BY <1>4, AdmissionOrNot, RequestStepHolds DEF AllHold, StepHolds, Isolated
<1>5. CASE (\E attempt \in wire : Execute(attempt)) \/ Destroy \/ UNCHANGED vars
  BY <1>2, <1>5 DEF Execute, Destroy, OthersUnchanged, NetworkUnchanged, vars
<1>6. QED
  BY <1>1, <1>2, <1>3, <1>4, <1>5, NextCases

(* An initial attempt is sent only when the window has room.               *)
AdmittedStep ==
  \A slot \in sends' \ sends :
    slot.of[2] = 0 => Cardinality(InWindow(sends, slot.at)) < MaxRequests

LEMMA AdmittedNext ==
  ASSUME TypeOK, AllHold, WindowInv, [Next]_vars
  PROVE  AdmittedStep
<1>1. ASSUME NEW r \in Requests, Admission(r)
      PROVE  AdmittedStep
  <2>1. PICK n \in Nat :
          sends' = IF Rejects(n = 0, now) THEN sends
                   ELSE sends \cup {[of |-> <<r, n>>, at |-> now]}
    BY <1>1 DEF Admission
  <2>2. IsFiniteSet(InWindow(requests, now))
    BY FS_Subset DEF WindowInv, SlotsArePast, InWindow
  <2>3. Cardinality(InWindow(requests, now)) \in Nat /\ MaxRequests \in Nat
    BY <2>2, FS_CardinalityType
  <2>4. ASSUME NEW slot \in sends' \ sends, slot.of[2] = 0
        PROVE  Cardinality(InWindow(sends, slot.at)) < MaxRequests
    <3>1. slot = [of |-> <<r, n>>, at |-> now] /\ ~ Rejects(n = 0, now)
      BY <2>1
    <3>2. n = 0 /\ slot.at = now
      BY <2>4, <3>1
    <3>3. Cardinality(InWindow(requests, now)) < MaxRequests
      BY <2>3, <3>1, <3>2 DEF Rejects
    <3>4. QED
      BY <3>2, <3>3 DEF WindowInv, SlotsAreSends
  <2>5. QED
    BY <2>4 DEF AdmittedStep
<1>2. CASE UNCHANGED sends
  BY <1>2 DEF AdmittedStep
<1>3. CASE (\E attempt \in wire : Execute(attempt)) \/ Destroy \/ Tick \/ UNCHANGED vars
  BY <1>2, <1>3 DEF Execute, Destroy, Tick, NetworkUnchanged, vars
<1>4. QED
  BY <1>1, <1>2, <1>3, NextCases, AdmissionOrNot DEF AllHold

(* Every step keeps the types.                                             *)
LEMMA TypeNext ==
  ASSUME TypeOK, AllHold, [Next]_vars
  PROVE  TypeOK'
<1>1. ASSUME NEW r \in Requests, RequestStep(r)
      PROVE  TypeOK'
  <2>1. StepHolds(r) /\ HoldsNow(r)
    BY <1>1, RequestStepHolds DEF AllHold
  <2>2. req'[r] \in Call \cup {Idle}
    BY <2>1 DEF StepHolds, Holds, Sound
  <2>3. /\ now' \in Nat /\ req' \in [Requests -> Call \cup {Idle}]
        /\ invalidated' \subseteq Requests
        /\ wire' \subseteq Requests \X Nat /\ executed' \subseteq Requests \X Nat
    BY <2>1, <2>2 DEF StepHolds, Isolated, TypeOK
  <2>4. requests' \subseteq Slot /\ sends' \subseteq Slot
    <3>1. CASE UNCHANGED <<requests, sends>>
      BY <3>1 DEF TypeOK
    <3>2. CASE Admission(r)
      BY <3>2 DEF Admission, checkRateLimit, InWindow, TypeOK, Slot
    <3>3. QED
      BY <1>1, <2>1, <3>1, <3>2, AdmissionOrNot
  <2>5. isDestroyed' = isDestroyed
    BY <1>1 DEF RequestStep, Request, DnsResolves, DnsFails, Built, BuildFails, NetworkError,
      OkArrives, Redirected, ErrorArrives, BodyRead, BodyUnreadable, ErrorRead, ErrorUnreadable,
      AttemptTimer, BudgetTimer, BodyTimer, DelayEnds, StepOnly, OthersUnchanged, Send
  <2>6. QED
    BY <2>3, <2>4, <2>5 DEF TypeOK
<1>2. ASSUME NEW attempt \in wire, Execute(attempt)
      PROVE  TypeOK'
  BY <1>2 DEF Execute, OthersUnchanged, TypeOK
<1>3. CASE Destroy
  BY <1>3 DEF Destroy, NetworkUnchanged, TypeOK
<1>4. CASE Tick
  BY <1>4 DEF Tick, NetworkUnchanged, TypeOK
<1>5. CASE UNCHANGED vars
  BY <1>5 DEF vars, TypeOK
<1>6. QED
  BY <1>1, <1>2, <1>3, <1>4, <1>5, NextCases

-------------------------------------------------------------------------------
(* The theorems.                                                           *)

PipelineInv == TypeOK /\ AllHold /\ WindowInv

(* The inductive invariant, request by request; every property follows.    *)
THEOREM PipelineInvariant == Spec => []PipelineInv
<1>1. Init => PipelineInv
  <2> SUFFICES ASSUME Init PROVE PipelineInv
    OBVIOUS
  <2>1. TypeOK
    BY DEF Init, LimiterInit, TypeOK
  <2>2. AllHold
    BY DEF Init, AllHold, HoldsNow, Holds, Accepted, Idle
  <2>3. WindowInv
    BY FS_EmptySet DEF Init, LimiterInit, WindowInv, SlotsArePast, SlotsAreSends, InWindow
  <2>4. QED
    BY <2>1, <2>2, <2>3 DEF PipelineInv
<1>2. PipelineInv /\ [Next]_vars => PipelineInv'
  BY TypeNext, AllHoldNext, WindowNext DEF PipelineInv
<1>3. QED
  BY <1>1, <1>2, PTL DEF Spec

(* The invariant of HttpPipeline, which TLC checks part by part.           *)
THEOREM Inductive == Spec => []IInv
<1>1. ASSUME PipelineInv PROVE IInv
  <2>1. TypeOK /\ WindowInv /\ \A r \in Requests : HoldsNow(r)
    BY <1>1 DEF PipelineInv, AllHold
  <2>2. EveryCallSound
    BY <2>1 DEF EveryCallSound, HoldsNow, Holds
  <2>3. CopiesAreCurrent
    <3>1. \A attempt \in wire \cup executed :
            \E r \in Requests, n \in Nat : attempt = <<r, n>>
      BY <2>1 DEF TypeOK
    <3>2. ASSUME NEW attempt \in wire \cup executed
          PROVE  MayHaveCopy(req[attempt[1]], attempt[2])
      <4>1. PICK r \in Requests, n \in Nat : attempt = <<r, n>>
        BY <3>1
      <4>2. MayHaveCopy(req[r], n)
        BY <2>1, <4>1 DEF HoldsNow, Holds
      <4>3. QED
        BY <4>1, <4>2
    <3>3. QED
      BY <3>2 DEF CopiesAreCurrent
  <2>4. AcceptedIsExecuted /\ AcceptedIsInvalidated
    BY <2>1 DEF AcceptedIsExecuted, AcceptedIsInvalidated, HoldsNow, Holds
  <2>5. QED
    BY <2>1, <2>2, <2>3, <2>4 DEF IInv, WindowInv
<1>2. PipelineInv => IInv
  BY <1>1
<1>3. QED
  BY <1>2, PipelineInvariant, PTL

(* Every reachable state has its type.                                     *)
THEOREM TypeCorrect == Spec => []TypeOK
<1>1. PipelineInv => TypeOK
  BY DEF PipelineInv
<1>2. QED
  BY <1>1, PipelineInvariant, PTL

(* Nothing with effects is executed twice: only the current attempt may    *)
(* have a copy, and it is abandoned only when it has none.                 *)
THEOREM AtMostOnce == Spec => []ExecutedAtMostOnce
<1>1. PipelineInv => ExecutedAtMostOnce
  <2> SUFFICES ASSUME PipelineInv, NEW r \in Requests,
                      NEW m \in 0 .. MaxRetries, NEW n \in 0 .. MaxRetries,
                      <<r, m>> \in executed, <<r, n>> \in executed
               PROVE  m = n
    BY DEF ExecutedAtMostOnce
  <2>1. m \in Nat /\ n \in Nat /\ HoldsNow(r)
    BY DEF PipelineInv, AllHold
  <2>2. QED
    BY <2>1 DEF HoldsNow, Holds, MayHaveCopy
<1>2. QED
  BY <1>1, PipelineInvariant, PTL

(* What the caller is told is true of what TestRail did.                   *)
THEOREM Truthful == Spec => []OutcomesAreTruthful
<1>1. ASSUME PipelineInv, NEW r \in Requests, Done(r), HasEffects(req[r].shape)
      PROVE  /\ req[r].outcome \in {"answered", "unreadable"} =>
                  <<r, req[r].retryCount>> \in executed
             /\ req[r].outcome \in Refusals => Attempts(r) = {}
  <2>1. HoldsNow(r) /\ wire \cup executed \subseteq Requests \X Nat
    BY <1>1 DEF PipelineInv, AllHold, TypeOK
  <2>2. req[r].outcome \in {"answered", "unreadable"} => <<r, req[r].retryCount>> \in executed
    BY <1>1, <2>1 DEF HoldsNow, Holds, Accepted, Done
  <2>3. ASSUME req[r].outcome \in Refusals, NEW attempt \in Attempts(r)
        PROVE  FALSE
    <3>1. PICK n \in Nat : attempt = <<r, n>>
      BY <2>1 DEF Attempts
    <3>2. QED
      BY <1>1, <2>1, <2>3, <3>1 DEF Attempts, HoldsNow, Holds, MayHaveCopy, Done
  <2>4. QED
    BY <2>2, <2>3
<1>2. PipelineInv => OutcomesAreTruthful
  BY <1>1 DEF OutcomesAreTruthful, Refusals
<1>3. QED
  BY <1>2, PipelineInvariant, PTL

(* A committed write has invalidated the cache, whatever became of its     *)
(* body.                                                                   *)
THEOREM Committed == Spec => []CommittedIsInvalidated
<1>1. PipelineInv => CommittedIsInvalidated
  BY DEF PipelineInv, AllHold, HoldsNow, Holds, Accepted, cacheInvalidationHook,
         CommittedIsInvalidated, Done
<1>2. QED
  BY <1>1, PipelineInvariant, PTL

(* Descriptors, credentials and deadlines of every request.                *)
LEMMA SoundCalls ==
  ASSUME PipelineInv, NEW r \in Requests, req[r].stage # "idle"
  PROVE  Sound(req[r], now)
BY StagedCall DEF PipelineInv, AllHold

(* The descriptor of an upload is open until the request ends, and closed  *)
(* when it has ended.                                                      *)
THEOREM Released == Spec => []DescriptorReleased
<1>1. PipelineInv => DescriptorReleased
  BY SoundCalls DEF Sound, HoldsDescriptor, DescriptorReleased, Running, Done, Stages
<1>2. QED
  BY <1>1, PipelineInvariant, PTL

(* Whatever is sent carries the credential.                                *)
THEOREM Credential == Spec => []CredentialSent
<1>1. PipelineInv => CredentialSent
  BY SoundCalls DEF Sound, HoldsCredential, CredentialSent
<1>2. QED
  BY <1>1, PipelineInvariant, PTL

(* No request outlives its deadline.                                       *)
THEOREM Deadline == Spec => []EndsByDeadline
<1>1. PipelineInv => EndsByDeadline
  BY SoundCalls DEF Sound, Clipped, EndsByDeadline, Running, Stages
<1>2. QED
  BY <1>1, PipelineInvariant, PTL

(* A timeout names the deadline that caused it.                            *)
THEOREM Attribution == Spec => []TimeoutNamesItsDeadline
<1>1. PipelineInv => TimeoutNamesItsDeadline
  BY SoundCalls DEF Sound, NamesDeadline, TimeoutNamesItsDeadline, Done
<1>2. QED
  BY <1>1, PipelineInvariant, PTL

(* The window counts what was sent, no more and no less.                   *)
THEOREM Slots == Spec => []SlotsAreSends
<1>1. PipelineInv => SlotsAreSends
  BY DEF PipelineInv, WindowInv
<1>2. QED
  BY <1>1, PipelineInvariant, PTL

(* No initial attempt is sent into a full window.                          *)
THEOREM Admitted == Spec => AdmissionWithinWindow
<1>1. PipelineInv /\ [Next]_vars => AdmittedStep
  BY AdmittedNext DEF PipelineInv
<1>2. AdmittedStep =>
        \A slot \in sends' \ sends :
          slot.of[2] = 0 => Cardinality(InWindow(sends, slot.at)) < MaxRequests
  BY DEF AdmittedStep
<1>3. QED
  BY <1>1, <1>2, PipelineInvariant, PTL DEF Spec, AdmissionWithinWindow
-------------------------------------------------------------------------------
(* The exchange that the pipeline implements.                              *)

(* A request is repeated maxRetries times at most.                         *)
Bounded(call) ==
  call.stage # "idle" =>
    /\ call.retryCount \in 0 .. MaxRetries
    /\ call.stage = "backoff" => call.retryCount < MaxRetries

(* What no step of a request in progress changes.                          *)
Onward(call, new) ==
  /\ new.stage \in Stages \cup {"done"}
  /\ new.shape = call.shape
  /\ Bounded(call) => Bounded(new)

LEMMA EndedOnward ==
  ASSUME NEW call \in Call, NEW outcome
  PROVE  Onward(call, Ended(call, outcome))
<1>1. /\ Ended(call, outcome).stage = "done" /\ Ended(call, outcome).shape = call.shape
      /\ Ended(call, outcome).retryCount = call.retryCount
  BY DEF Ended, Call
<1>2. call.stage # "idle"
  BY DEF Call, Stages
<1>3. QED
  BY <1>1, <1>2 DEF Onward, Bounded

LEMMA DelayedOnward ==
  ASSUME NEW call \in Call, NEW delay, call.retryCount < MaxRetries
  PROVE  Onward(call, Delayed(call, delay))
<1>1. CASE expired(call)
  BY <1>1, EndedOnward DEF Delayed
<1>2. CASE ~ expired(call)
  <2>1. /\ Delayed(call, delay).stage = "backoff"
        /\ Delayed(call, delay).shape = call.shape
        /\ Delayed(call, delay).retryCount = call.retryCount
    BY <1>2 DEF Delayed, Call
  <2>2. call.stage # "idle"
    BY DEF Call, Stages
  <2>3. QED
    BY <2>1, <2>2 DEF Onward, Bounded, Stages
<1>3. QED
  BY <1>1, <1>2

(* A delay is waited for by a request that has retries left, so the attempt*)
(* after it is one of them.                                                *)
LEMMA AttemptedOnward ==
  ASSUME NEW call \in Call, call.stage = "backoff"
  PROVE  Onward(call, Attempted(call, call.retryCount + 1))
<1> DEFINE n == call.retryCount + 1
<1>1. CASE isDestroyed \/ expired(call)
  BY <1>1, EndedOnward DEF Attempted
<1>2. CASE ~ isDestroyed /\ ~ expired(call)
  <2>1. /\ Attempted(call, n).shape = call.shape /\ Attempted(call, n).retryCount = n
        /\ Attempted(call, n).stage = "dns"
    BY <1>2 DEF Attempted, Call
  <2>2. call.retryCount \in Nat
    BY DEF Call
  <2>3. Bounded(call) => n \in 0 .. MaxRetries
    BY <2>2 DEF Bounded
  <2>4. QED
    BY <2>1, <2>3 DEF Onward, Bounded, Stages
<1>3. QED
  BY <1>1, <1>2

(* A stage that is not a delay.                                            *)
LEMMA MovedOnward ==
  ASSUME NEW call \in Call, NEW new, new.shape = call.shape,
         new.retryCount = call.retryCount, new.stage \in Stages \ {"backoff"}
  PROVE  Onward(call, new)
<1>1. call.stage # "idle"
  BY DEF Call, Stages
<1>2. QED
  BY <1>1 DEF Onward, Bounded, Stages

(* The steps of a request that has begun.                                  *)
LEMMA StepOnward ==
  ASSUME TypeOK, NEW r \in Requests, HoldsNow(r), RequestStep(r), req[r].stage # "idle"
  PROVE  req[r].stage \in Stages /\ Onward(req[r], req'[r])
<1> DEFINE call == req[r]
<1>1. call \in Call
  BY StagedCall
<1>2. ASSUME NEW new, Become(r, new) PROVE req'[r] = new
  BY <1>2 DEF Become, TypeOK
<1>3. ASSUME NEW outcome, End(r, outcome) PROVE Onward(call, req'[r])
  BY <1>1, <1>2, <1>3, EndedOnward DEF End
<1>4. CASE Send(r) /\ call.stage \in {"dns", "building"}
  <2>1. CASE Become(r, [call EXCEPT !.stage = "sent"])
    <3> DEFINE new == [call EXCEPT !.stage = "sent"]
    <3>1. new.shape = call.shape /\ new.retryCount = call.retryCount /\ new.stage = "sent"
      BY <1>1 DEF Call
    <3> HIDE DEF new
    <3>2. QED
      BY <1>1, <1>2, <1>4, <2>1, <3>1, MovedOnward DEF new, Stages
  <2>2. CASE \E outcome : End(r, outcome)
    BY <1>3, <1>4, <2>2 DEF Stages
  <2>3. QED
    BY <1>4, <2>1, <2>2, Zenon DEF Send
<1>5. CASE DnsFails(r) \/ Redirected(r) \/ BodyRead(r) \/ BodyUnreadable(r) \/ ErrorUnreadable(r)
           \/ BudgetTimer(r) \/ BodyTimer(r)
  BY <1>3, <1>5 DEF DnsFails, Redirected, BodyRead, BodyUnreadable, ErrorUnreadable,
                    BudgetTimer, BodyTimer, Stages
<1>6. CASE DnsResolves(r) \/ Built(r)
  <2>1. CASE Become(r, [call EXCEPT !.stage = "building"]) /\ call.stage = "dns"
    <3> DEFINE new == [call EXCEPT !.stage = "building"]
    <3>1. new.shape = call.shape /\ new.retryCount = call.retryCount /\ new.stage = "building"
      BY <1>1 DEF Call
    <3> HIDE DEF new
    <3>2. QED
      BY <1>1, <1>2, <2>1, <3>1, MovedOnward DEF new, Stages
  <2>2. QED
    BY <1>4, <1>6, <2>1 DEF DnsResolves, Built
<1>7. CASE BuildFails(r) \/ NetworkError(r)
  <2>1. call.stage \in Stages /\ req'[r] = Disconnected(call)
    BY <1>2, <1>7 DEF BuildFails, NetworkError, Stages
  <2>2. QED
    BY <1>1, <2>1, EndedOnward, DelayedOnward DEF Disconnected
<1>8. CASE OkArrives(r)
  <2> DEFINE wakeAt == IF allowanceFor(call, BodyTimeout) = 0 THEN Never
                       ELSE now + allowanceFor(call, BodyTimeout)
             new == [call EXCEPT !.stage = "reading", !.wakeAt = wakeAt]
  <2>1. call.stage = "sent" /\ (req'[r] = Ended(call, "budget") \/ req'[r] = new)
    BY <1>2, <1>8 DEF OkArrives
  <2>2. new.shape = call.shape /\ new.retryCount = call.retryCount /\ new.stage = "reading"
    BY <1>1 DEF Call
  <2> HIDE DEF new
  <2>3. QED
    BY <1>1, <2>1, <2>2, EndedOnward, MovedOnward DEF Stages
<1>9. ASSUME NEW status \in ErrorStatuses, ErrorArrives(r, status)
      PROVE  call.stage \in Stages /\ Onward(call, req'[r])
  <2> DEFINE wakeAt == IF allowanceFor(call, BodyTimeout) = 0 THEN Never
                       ELSE now + allowanceFor(call, BodyTimeout)
             new == [call EXCEPT !.stage = "errbody", !.status = status, !.wakeAt = wakeAt]
  <2>1. call.stage = "sent" /\ (req'[r] = Ended(call, "budget") \/ req'[r] = new)
    BY <1>2, <1>9 DEF ErrorArrives
  <2>2. new.shape = call.shape /\ new.retryCount = call.retryCount /\ new.stage = "errbody"
    BY <1>1 DEF Call
  <2> HIDE DEF new
  <2>3. QED
    BY <1>1, <2>1, <2>2, EndedOnward, MovedOnward DEF Stages
<1>10. ASSUME NEW retryAfter \in RetryAfters, ErrorRead(r, retryAfter)
       PROVE  call.stage \in Stages /\ Onward(call, req'[r])
  <2>1. call.stage = "errbody"
    BY <1>10 DEF ErrorRead
  <2>2. \/ req'[r] = Ended(call, call.status)
        \/ call.retryCount < MaxRetries /\ \E delay : req'[r] = Delayed(call, delay)
    BY <1>2, <1>10 DEF ErrorRead
  <2>3. QED
    BY <1>1, <2>1, <2>2, EndedOnward, DelayedOnward DEF Stages
<1>11. CASE AttemptTimer(r)
  <2>1. CASE Become(r, [call EXCEPT !.aborted = TRUE]) /\ call.stage = "building"
    <3> DEFINE new == [call EXCEPT !.aborted = TRUE]
    <3>1. new.shape = call.shape /\ new.retryCount = call.retryCount /\ new.stage = call.stage
      BY <1>1 DEF Call
    <3> HIDE DEF new
    <3>2. QED
      BY <1>1, <1>2, <2>1, <3>1, MovedOnward DEF new, Stages
  <2>2. QED
    BY <1>3, <1>11, <2>1 DEF AttemptTimer, Stages
<1>12. CASE DelayEnds(r)
  <2>1. call.stage = "backoff" /\ req'[r] = Attempted(call, call.retryCount + 1)
    BY <1>2, <1>12 DEF DelayEnds
  <2>2. QED
    BY <1>1, <2>1, AttemptedOnward DEF Stages
<1>13. QED
  BY <1>4, <1>5, <1>6, <1>7, <1>8, <1>9, <1>10, <1>11, <1>12 DEF RequestStep, Request

(* The first step of a request: it is prepared, or has ended.              *)
LEMMA RequestBegins ==
  ASSUME TypeOK, NEW r \in Requests, RequestStep(r), req[r].stage = "idle"
  PROVE  LET new == req'[r]
         IN  /\ req[r] = Idle
             /\ new.retryCount = 0
             /\ \/ new.stage = "dns"
                \/ new.stage = "done" /\ new.outcome \in {"destroyed", "budget"}
             /\ UNCHANGED <<executed, invalidated>>
<1>1. PICK shape \in Wanted, deadline \in Deadlines : Request(r, shape, deadline)
  BY DEF RequestStep, DnsResolves, DnsFails, Built, BuildFails, NetworkError, OkArrives,
     Redirected, ErrorArrives, BodyRead, BodyUnreadable, ErrorRead, ErrorUnreadable,
     AttemptTimer, BudgetTimer, BodyTimer, DelayEnds
<1> DEFINE call == [stage |-> "dns", shape |-> shape,
                    deadlineAt |-> IF deadline = Never THEN Never ELSE now + deadline,
                    retryCount |-> 0, auth |-> FALSE, requestDeadlineAt |-> now,
                    wakeAt |-> Never, aborted |-> FALSE, status |-> "none",
                    fd |-> IF shape.body = "multipart" THEN "open" ELSE "none",
                    outcome |-> "none"]
<1>2. /\ req'[r] = IF isDestroyed THEN [call EXCEPT !.stage = "done", !.outcome = "destroyed"]
                   ELSE Attempted(call, 0)
      /\ UNCHANGED <<executed, invalidated>>
  BY <1>1 DEF Request, Become, TypeOK, StepOnly, NetworkUnchanged, OthersUnchanged
<1>3. req[r] = Idle
  BY DEF TypeOK, Call, Stages, Idle
<1>4. CASE isDestroyed
  BY <1>2, <1>3, <1>4
<1>5. CASE ~ isDestroyed
  BY <1>2, <1>3, <1>5 DEF Attempted, Ended
<1>6. QED
  BY <1>4, <1>5
-------------------------------------------------------------------------------
AllBounded == \A r \in Requests : Bounded(req[r])

LEMMA BoundedNext ==
  ASSUME TypeOK, AllHold, AllBounded, [Next]_vars
  PROVE  AllBounded'
<1>1. ASSUME NEW r \in Requests, RequestStep(r)
      PROVE  AllBounded'
  <2>1. HoldsNow(r) /\ Isolated(r)
    BY <1>1, RequestStepHolds DEF AllHold, StepHolds
  <2>2. MaxRetries \in Nat
    OBVIOUS
  <2>3. Bounded(req'[r])
    <3>1. CASE req[r].stage = "idle"
      BY <1>1, <2>2, <3>1, RequestBegins DEF Bounded
    <3>2. CASE req[r].stage # "idle"
      BY <1>1, <2>1, <3>2, StepOnward DEF AllBounded, Onward
    <3>3. QED
      BY <3>1, <3>2
  <2>4. ASSUME NEW q \in Requests, q # r PROVE req'[q] = req[q]
    BY <2>1, <2>4 DEF Isolated, TypeOK
  <2>5. QED
    BY <2>3, <2>4 DEF AllBounded, Bounded
<1>2. CASE (\E attempt \in wire : Execute(attempt)) \/ Destroy \/ Tick \/ UNCHANGED vars
  <2>1. req' = req
    BY <1>2 DEF Execute, Destroy, Tick, OthersUnchanged, vars
  <2>2. QED
    BY <2>1 DEF AllBounded, Bounded
<1>3. QED
  BY <1>1, <1>2, NextCases

ExchangeInv == PipelineInv /\ AllBounded

(* A request is sent maxRetries + 1 times at most, whatever fails          *)
(* (attemptPipeline).                                                      *)
THEOREM RetriesBounded == Spec => []AllBounded
<1>1. Init => AllBounded
  BY DEF Init, AllBounded, Bounded, Idle
<1>2. PipelineInv /\ AllBounded /\ [Next]_vars => AllBounded'
  BY BoundedNext DEF PipelineInv
<1>3. QED
  BY <1>1, <1>2, PipelineInvariant, PTL DEF Spec

(* TestRail has executed a request when it has executed one of its tries.  *)
LEMMA TriesOf ==
  ASSUME TypeOK, AllHold, AllBounded, NEW r \in Requests, NEW n, <<r, n>> \in wire \cup executed
  PROVE  /\ n \in 0 .. MaxRetries
         /\ MayHaveCopy(req[r], n)
<1>1. n \in Nat
  BY DEF TypeOK
<1>2. MayHaveCopy(req[r], n)
  BY <1>1 DEF AllHold, HoldsNow, Holds
<1>3. QED
  BY <1>2 DEF MayHaveCopy, AllBounded, Bounded

(* Only the headers of an ok response invalidate, and only those of a      *)
(* write that was executed.                                                *)
LEMMA InvalidatedByOk ==
  ASSUME NEW r \in Requests, RequestStep(r)
  PROVE  \/ invalidated' = invalidated
         \/ /\ OkArrives(r) /\ invalidated' = invalidated \cup {r}
            /\ cacheInvalidationHook(req[r].shape)
            /\ <<r, req[r].retryCount>> \in executed
<1>1. CASE OkArrives(r)
  BY <1>1 DEF OkArrives, cacheInvalidationHook, HasEffects
<1>2. CASE ~ OkArrives(r)
  BY <1>2 DEF RequestStep, Request, DnsResolves, DnsFails, Built, BuildFails, NetworkError,
      Redirected, ErrorArrives, BodyRead, BodyUnreadable, ErrorRead, ErrorUnreadable,
      AttemptTimer, BudgetTimer, BodyTimer, DelayEnds, StepOnly, OthersUnchanged, Send
<1>3. QED
  BY <1>1, <1>2

(* A step of r tells the caller of r only.                                 *)
LEMMA TellsOne ==
  ASSUME NEW r \in Requests, TypeOK, Isolated(r)
  PROVE  exchange' = [exchange EXCEPT ![r] = exchangeOf(req'[r])]
<1>1. \A q \in Requests : req'[q] = IF q = r THEN req'[r] ELSE req[q]
  BY DEF Isolated, TypeOK
<1>2. exchange' = [q \in Requests |-> exchangeOf(req'[q])]
  BY DEF exchange
<1>3. QED
  BY <1>1, <1>2 DEF exchange

(* The first step of a request with effects asks.                          *)
LEMMA BeginsAsking ==
  ASSUME TypeOK, AllHold, NEW r \in Requests, RequestStep(r), req[r].stage = "idle",
         HasEffects(req'[r].shape)
  PROVE  Promise!Next
<1> DEFINE new == req'[r]
           told == toldOf(new)
           writes == new.shape.method # "GET" \/ new.shape.body = "multipart"
<1>1. /\ UNCHANGED <<executed, invalidated>>
      /\ new.stage = "dns" \/ (new.stage = "done" /\ new.outcome \in {"destroyed", "budget"})
  BY RequestBegins
<1>2. exchange' = [exchange EXCEPT ![r] = exchangeOf(new)]
  BY RequestStepHolds, TellsOne DEF AllHold, StepHolds
<1>3. exchange[r] = Promise!Unasked
  BY DEF exchange, exchangeOf, Promise!Unasked
<1>4. exchangeOf(new) = [told |-> told, writes |-> writes]
  BY <1>1 DEF exchangeOf
<1>5. told \in {"waiting", "refused", "unknown"}
  BY <1>1 DEF toldOf, Refusals
<1>6. writes \in BOOLEAN
  OBVIOUS
<1> HIDE DEF told, writes, new
<1>7. Promise!Ask(r, writes)
  BY <1>1, <1>2, <1>3, <1>4, <1>5 DEF Promise!Ask
<1>8. QED
  BY <1>6, <1>7 DEF Promise!Next

(* What the caller of a request in progress is told when it ends is true.  *)
LEMMA ToldTruly ==
  ASSUME TypeOK, AllHold, AllBounded, NEW r \in Requests, RequestStep(r),
         req[r].stage \in Stages, HasEffects(req[r].shape)
  PROVE  /\ toldOf(req'[r]) \in {"waiting", "committed", "refused", "unknown"}
         /\ toldOf(req'[r]) = "committed" =>
              /\ Promise!Executed(r)
              /\ exchange[r].writes => r \in invalidated'
         /\ toldOf(req'[r]) = "refused" => ~ Promise!Executed(r)
<1> DEFINE new == req'[r]
<1>1. /\ StepHolds(r) /\ executed' = executed
      /\ new.shape = req[r].shape
      /\ Bounded(new)
  BY RequestStepHolds, StepOnward DEF AllHold, StepHolds, Isolated, Onward, Stages, AllBounded
<1>2. ASSUME toldOf(new) = "committed"
      PROVE  Promise!Executed(r) /\ (exchange[r].writes => r \in invalidated')
  <2>1. new.stage = "done" /\ new.outcome \in {"answered", "unreadable"}
    BY <1>2 DEF toldOf
  <2>2. Accepted(new)
    BY <2>1 DEF Accepted
  <2>3. /\ <<r, new.retryCount>> \in executed
        /\ cacheInvalidationHook(new.shape) => r \in invalidated'
    BY <1>1, <2>2 DEF StepHolds, Holds
  <2>4. new.retryCount \in 0 .. MaxRetries
    BY <1>1, <2>1 DEF Bounded
  <2>5. exchange[r].writes => cacheInvalidationHook(new.shape)
    BY <1>1 DEF exchange, exchangeOf, cacheInvalidationHook
  <2>6. QED
    BY <2>3, <2>4, <2>5 DEF Promise!Executed
<1>3. ASSUME toldOf(new) = "refused"
      PROVE  ~ Promise!Executed(r)
  <2>1. new.stage = "done" /\ new.outcome \in Refusals
    BY <1>3 DEF toldOf
  <2>2. ASSUME NEW n \in 0 .. MaxRetries, <<r, n>> \in executed PROVE FALSE
    BY <1>1, <2>1, <2>2 DEF StepHolds, Holds, MayHaveCopy
  <2>3. QED
    BY <2>2 DEF Promise!Executed
<1>4. toldOf(new) \in {"waiting", "committed", "refused", "unknown"}
  BY DEF toldOf
<1>5. QED
  BY <1>2, <1>3, <1>4

(* A later step of a request with effects leaves its caller waiting or     *)
(* tells it how it ended.                                                  *)
LEMMA GoesOnAsking ==
  ASSUME TypeOK, AllHold, AllBounded, NEW r \in Requests, RequestStep(r),
         req[r].stage # "idle", HasEffects(req[r].shape)
  PROVE  [Promise!Next]_(Promise!vars)
<1> DEFINE new == req'[r]
           told == toldOf(new)
<1>1. /\ req[r].stage \in Stages /\ new.stage \in Stages \cup {"done"}
      /\ new.shape = req[r].shape /\ Isolated(r) /\ executed' = executed
  BY RequestStepHolds, StepOnward DEF AllHold, StepHolds, Isolated, Onward
<1>2. exchange[r] = [told |-> "waiting",
                     writes |-> req[r].shape.method # "GET" \/ req[r].shape.body = "multipart"]
  BY <1>1 DEF exchange, exchangeOf, toldOf, Stages
<1>3. new.stage # "idle"
  BY <1>1 DEF Stages
<1>4. Promise!Tell(r, told)
  <2>1. exchangeOf(new) = [exchange[r] EXCEPT !.told = told]
    BY <1>1, <1>2, <1>3 DEF exchangeOf
  <2>2. exchange' = [exchange EXCEPT ![r] = exchangeOf(new)]
    BY <1>1, TellsOne
  <2> HIDE DEF told, new
  <2>3. exchange' = [exchange EXCEPT ![r] = [exchange[r] EXCEPT !.told = told]]
    BY <2>1, <2>2
  <2>4. QED
    BY <2>3 DEF Promise!Tell
<1>5. CASE invalidated' # invalidated
  <2>1. /\ OkArrives(r) /\ invalidated' = invalidated \cup {r}
        /\ cacheInvalidationHook(req[r].shape) /\ <<r, req[r].retryCount>> \in executed
    BY <1>5, InvalidatedByOk
  <2>2. req[r].retryCount \in 0 .. MaxRetries
    BY <1>1 DEF AllBounded, Bounded, Stages
  <2>3. Promise!Executed(r) /\ exchange[r].writes /\ exchange[r].told = "waiting"
    <3>1. Promise!Executed(r) /\ exchange[r].told = "waiting"
      BY <1>2, <2>1, <2>2 DEF Promise!Executed
    <3>2. exchange[r].writes = (req[r].shape.method # "GET" \/ req[r].shape.body = "multipart")
      BY <1>2
    <3>3. QED
      BY <2>1, <3>1, <3>2, Zenon DEF cacheInvalidationHook
  <2>4. told \in {"waiting", "unknown"}
    <3>1. req[r] \in Call
      BY <1>1, StagedCall DEF AllHold, Stages
    <3>2. new = Ended(req[r], "budget") \/ new.stage = "reading"
      BY <2>1, <3>1 DEF OkArrives, Become, TypeOK, Call
    <3>3. new.stage = "reading" \/ (new.stage = "done" /\ new.outcome = "budget")
      BY <3>1, <3>2 DEF Ended, Call
    <3>4. QED
      BY <3>3 DEF toldOf, Refusals
  <2> HIDE DEF told, new
  <2>5. Promise!Tell(r, "waiting") \/ Promise!Tell(r, "unknown")
    BY <1>4, <2>4
  <2>6. Promise!Invalidate(r)
    BY <1>1, <2>1, <2>3, <2>5 DEF Promise!Invalidate
  <2>7. QED
    BY <2>6 DEF Promise!Next
<1>6. CASE invalidated' = invalidated
  <2>1. /\ told \in {"waiting", "committed", "refused", "unknown"}
        /\ told = "committed" =>
             Promise!Executed(r) /\ (exchange[r].writes => r \in invalidated)
        /\ told = "refused" => ~ Promise!Executed(r)
    BY <1>1, <1>6, ToldTruly
  <2>2. exchange[r].told = "waiting"
    BY <1>2
  <2> HIDE DEF told, new
  <2>3. CASE told = "waiting"
    <3>1. [exchange[r] EXCEPT !.told = told] = exchange[r]
      BY <1>2, <2>3
    <3>2. exchange' = exchange
      BY <1>4, <3>1 DEF Promise!Tell, exchange
    <3>3. QED
      BY <1>1, <1>6, <3>2 DEF Promise!vars
  <2>4. CASE told = "committed"
    BY <1>1, <1>4, <1>6, <2>1, <2>2, <2>4 DEF Promise!Commit, Promise!Next
  <2>5. CASE told = "refused"
    BY <1>1, <1>4, <1>6, <2>1, <2>2, <2>5 DEF Promise!Refuse, Promise!Next
  <2>6. CASE told = "unknown"
    BY <1>1, <1>4, <1>6, <2>1, <2>2, <2>6 DEF Promise!GiveUp, Promise!Next
  <2>7. QED
    BY <2>1, <2>3, <2>4, <2>5, <2>6
<1>7. QED
  BY <1>5, <1>6

(* A read is no exchange.                                                  *)
LEMMA ReadsAside ==
  ASSUME TypeOK, AllHold, NEW r \in Requests, RequestStep(r), ~ HasEffects(req'[r].shape)
  PROVE  UNCHANGED Promise!vars
<1>1. Isolated(r) /\ executed' = executed
  BY RequestStepHolds DEF AllHold, StepHolds, Isolated
<1>2. req[r].stage # "idle" => ~ HasEffects(req[r].shape)
  BY StepOnward DEF AllHold, Onward
<1>3. exchangeOf(req'[r]) = exchange[r]
  BY <1>2 DEF exchange, exchangeOf
<1>4. exchange' = exchange
  BY <1>1, <1>3, TellsOne DEF exchange
<1>5. invalidated' = invalidated
  <2>1. ASSUME OkArrives(r), cacheInvalidationHook(req[r].shape) PROVE FALSE
    BY <1>2, <2>1 DEF OkArrives, cacheInvalidationHook, HasEffects
  <2>2. QED
    BY <2>1, InvalidatedByOk
<1>6. QED
  BY <1>1, <1>4, <1>5 DEF Promise!vars

(* TestRail executes a try: the first of its request, or one it had.       *)
LEMMA ExecutesOnce ==
  ASSUME TypeOK, AllHold, AllBounded, NEW attempt \in wire, Execute(attempt)
  PROVE  [Promise!Next]_(Promise!vars)
<1>1. PICK r \in Requests, n \in Nat : attempt = <<r, n>>
  BY DEF TypeOK
<1>2. /\ <<r, n>> \in wire /\ executed' = executed \cup {<<r, n>>}
      /\ UNCHANGED <<req, invalidated>>
  BY <1>1 DEF Execute, OthersUnchanged
<1>3. exchange' = exchange
  BY <1>2 DEF exchange
<1>4. CASE <<r, n>> \in executed
  BY <1>2, <1>3, <1>4 DEF Promise!vars
<1>5. CASE <<r, n>> \notin executed
  <2>1. n \in 0 .. MaxRetries /\ MayHaveCopy(req[r], n)
    BY <1>2, TriesOf
  <2>2. ~ Promise!Executed(r)
    <3>1. ASSUME NEW m \in 0 .. MaxRetries, <<r, m>> \in executed PROVE FALSE
      <4>1. MayHaveCopy(req[r], m)
        BY <3>1, TriesOf
      <4>2. QED
        BY <1>5, <2>1, <3>1, <4>1 DEF MayHaveCopy
    <3>2. QED
      BY <3>1 DEF Promise!Executed
  <2>3. ~ Accepted(req[r])
    <3>1. ASSUME Accepted(req[r]) PROVE FALSE
      <4>1. HasEffects(req[r].shape) /\ req[r].retryCount = n
        BY <2>1 DEF MayHaveCopy
      <4>2. <<r, n>> \in executed
        BY <3>1, <4>1 DEF AllHold, HoldsNow, Holds
      <4>3. QED
        BY <1>5, <4>2
    <3>2. QED
      BY <3>1
  <2>4. exchange[r].told \in {"waiting", "unknown"}
    <3>1. exchange[r].told = toldOf(req[r])
      BY <2>1 DEF exchange, exchangeOf, MayHaveCopy
    <3>2. QED
      BY <2>1, <2>3, <3>1 DEF toldOf, MayHaveCopy, Accepted
  <2>5. Promise!Execute(r, n)
    BY <1>2, <1>3, <2>2, <2>4 DEF Promise!Execute
  <2>6. QED
    BY <2>1, <2>5 DEF Promise!Next
<1>6. QED
  BY <1>4, <1>5

(* Every step of the pipeline is a step of the exchange, or none.          *)
LEMMA StepOfExchange ==
  ASSUME ExchangeInv, [Next]_vars
  PROVE  [Promise!Next]_(Promise!vars)
<1>1. TypeOK /\ AllHold /\ AllBounded
  BY DEF ExchangeInv, PipelineInv
<1>2. ASSUME NEW r \in Requests, RequestStep(r)
      PROVE  [Promise!Next]_(Promise!vars)
  <2>1. CASE ~ HasEffects(req'[r].shape)
    BY <1>1, <1>2, <2>1, ReadsAside
  <2>2. CASE HasEffects(req'[r].shape) /\ req[r].stage = "idle"
    BY <1>1, <1>2, <2>2, BeginsAsking
  <2>3. CASE HasEffects(req'[r].shape) /\ req[r].stage # "idle"
    <3>1. req'[r].shape = req[r].shape
      BY <1>1, <1>2, <2>3, StepOnward DEF AllHold, Onward
    <3>2. QED
      BY <1>1, <1>2, <2>3, <3>1, GoesOnAsking
  <2>4. QED
    BY <2>1, <2>2, <2>3
<1>3. ASSUME NEW attempt \in wire, Execute(attempt)
      PROVE  [Promise!Next]_(Promise!vars)
  BY <1>1, <1>3, ExecutesOnce
<1>4. CASE Destroy \/ Tick \/ UNCHANGED vars
  <2>1. UNCHANGED <<req, executed, invalidated>>
    BY <1>4 DEF Destroy, Tick, NetworkUnchanged, vars
  <2>2. QED
    BY <2>1 DEF Promise!vars, exchange
<1>5. QED
  BY <1>2, <1>3, <1>4, NextCases

(* The pipeline implements Exchange: of all that attempts, timers and      *)
(* destroy() do, a caller sees one request, executed once at most, and one *)
(* true answer (executePipeline, attemptPipeline, cacheInvalidationHook).  *)
THEOREM ImplementsExchange == Spec => KeepsPromise
<1>1. Init => Promise!Init
  BY DEF Init, Idle, Promise!Init, Promise!Unasked, exchange, exchangeOf
<1>2. ExchangeInv /\ [Next]_vars => [Promise!Next]_(Promise!vars)
  BY StepOfExchange
<1>3. QED
  BY <1>1, <1>2, PipelineInvariant, RetriesBounded, PTL
     DEF Spec, ExchangeInv, KeepsPromise, Promise!Spec
===============================================================================
