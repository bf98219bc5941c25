----------------------------- MODULE HttpPipeline -----------------------------
(***************************************************************************)
(* The HTTP pipeline of src/client-core.ts (executePipeline,               *)
(* attemptPipeline) with the allowance of src/request-budget.ts, the       *)
(* descriptor of src/upload-source.ts, the policy of RetryPolicy and the   *)
(* admission of RateLimiter: what one request does between the cache and   *)
(* the network, attempt after attempt, while others do the same.           *)
(*                                                                         *)
(* A step is what the event loop runs without interruption.  Time passes   *)
(* only when no timer is due: an idle event loop runs a due timer at once. *)
(* A timer may fire up to Early ahead of Date.now().                       *)
(***************************************************************************)
EXTENDS RetryPolicy, RateLimiter

CONSTANTS
  Requests,       (* requests, each made once                              *)
  Wanted,         (* the shapes of request that are made                   *)
  Deadlines,      (* allowances of a bounded request, Never for none       *)
  MaxRetries,     (* maxRetries                                            *)
  Timeout,        (* timeout: bounds DNS, body construction and headers    *)
  BodyTimeout,    (* bodyTimeout: bounds the body; 0 does not              *)
  RetryAfters,    (* delays a server asks for, 0 when it does not          *)
  BaseDelay, MaxDelay, (* BASE_RETRY_DELAY_MS, MAX_RETRY_DELAY_MS          *)
  Early,          (* how early a timer may fire                            *)
  LastStart,      (* bound of the model: no request is made later          *)
  MaxTime         (* bound of the model: the clock stops                   *)

Never == -1       (* no deadline, no timer                                 *)

ASSUME PipelineAssumption ==
  /\ Wanted \subseteq Shapes
  /\ MaxRetries \in Nat /\ Timeout \in Nat \ {0} /\ BodyTimeout \in Nat
  /\ BaseDelay \in Nat \ {0} /\ MaxDelay \in Nat \ {0} /\ RetryAfters \subseteq Nat
  /\ Deadlines \subseteq Nat \cup {Never}
  /\ Early \in {0, 1} /\ LastStart \in Nat /\ MaxTime \in Nat

VARIABLES
  now,            (* Date.now()                                            *)
  req,            (* what each request is doing                            *)
  isDestroyed,
  invalidated,    (* requests whose success invalidated the cache          *)
  wire,           (* attempts <<r, n>> with effects TestRail may execute   *)
  executed,       (* attempts with effects TestRail has executed           *)
  sends           (* history: the slots of all fetches                     *)

vars == <<requests, now, req, isDestroyed, invalidated, wire, executed, sends>>

(* stage  "dns", "building" a multipart body, "sent", "reading" the body   *)
(*        of an ok response, "errbody" that of an error, "backoff"         *)
(* auth   the attempt holds the credential                                 *)
(* wakeAt the timer of the body read or of the delay                       *)
(* fd     the descriptor of an upload                                      *)
Stages == {"dns", "building", "sent", "reading", "errbody", "backoff"}

Outcomes == {"answered", "unreadable", "limited", "failed", "rejected", "errorUnreadable",
             "redirect", "localLimit", "timeout", "budget", "network", "dns", "destroyed"}

Call ==
  [stage : Stages \cup {"done"}, shape : Shapes, deadlineAt : Nat \cup {Never},
   retryCount : Nat, auth : BOOLEAN, requestDeadlineAt : Nat, wakeAt : Int,
   aborted : BOOLEAN, status : ErrorStatuses \cup {"none"},
   fd : {"none", "open", "closed"}, outcome : Outcomes \cup {"none"}]

Idle == [stage |-> "idle"]

Slot == [of : Requests \X Nat, at : Nat]

TypeOK ==
  /\ requests \subseteq Slot
  /\ now \in Nat
  /\ req \in [Requests -> Call \cup {Idle}]
  /\ isDestroyed \in BOOLEAN
  /\ invalidated \subseteq Requests
  /\ wire \subseteq Requests \X Nat
  /\ executed \subseteq Requests \X Nat
  /\ sends \subseteq Slot

Init ==
  /\ LimiterInit
  /\ now = 0
  /\ req = [r \in Requests |-> Idle]
  /\ isDestroyed = FALSE
  /\ invalidated = {}
  /\ wire = {} /\ executed = {}
  /\ sends = {}

Running(r) == req[r].stage \in Stages
Done(r) == req[r].stage = "done"
-------------------------------------------------------------------------------
(* The request budget.                                                     *)

Least(a, b) == IF a < b THEN a ELSE b

expiredBy(call, instant) == call.deadlineAt # Never /\ instant >= call.deadlineAt
expired(call) == expiredBy(call, now)

(* A mutated form: every phase gets what is configured, whatever is left.  *)
allowanceRefunded(call, configured) == configured

(* What a phase may take; only asked when the budget has not expired.      *)
allowanceFor(call, configured) ==
  IF call.deadlineAt = Never THEN configured
  ELSE IF configured = 0 THEN call.deadlineAt - now
  ELSE Least(configured, call.deadlineAt - now)

aggregateOwnsTimeout(call) == expiredBy(call, call.requestDeadlineAt)

(* A mutated form: the clock alone tells which deadline passed.            *)
timeoutErrorByClock(call, aborted) == IF expired(call) THEN "budget" ELSE "timeout"

timeoutError(call, aborted) ==
  IF (aborted /\ aggregateOwnsTimeout(call)) \/ expired(call) THEN "budget" ELSE "timeout"
-------------------------------------------------------------------------------
(* Ends and beginnings of attempts.                                        *)

(* A mutated form: the descriptor is only released once build() ran.       *)
EndedBuilt(call, outcome) ==
  [call EXCEPT !.stage = "done", !.outcome = outcome, !.wakeAt = Never,
               !.fd = IF @ = "open" /\ call.stage # "dns" THEN "closed" ELSE @]

(* The pipeline returns or throws; cleanup or release() closes the         *)
(* descriptor.                                                             *)
Ended(call, outcome) ==
  [call EXCEPT !.stage = "done", !.outcome = outcome, !.wakeAt = Never,
               !.fd = IF @ = "open" THEN "closed" ELSE @]

(* A mutated form: only request() looks whether the client is destroyed.   *)
AttemptedUnguarded(call, n) ==
  IF expired(call) THEN Ended(call, "budget")
  ELSE [call EXCEPT !.stage = "dns", !.retryCount = n, !.auth = ~ isDestroyed,
                    !.requestDeadlineAt = now + allowanceFor(call, Timeout),
                    !.wakeAt = Never, !.aborted = FALSE, !.status = "none"]

(* The preamble of attempt n: it takes the credential and starts the       *)
(* timer, then the host is looked up.                                      *)
Attempted(call, n) ==
  IF isDestroyed THEN Ended(call, "destroyed")
  ELSE IF expired(call) THEN Ended(call, "budget")
  ELSE [call EXCEPT !.stage = "dns", !.retryCount = n, !.auth = ~ isDestroyed,
                    !.requestDeadlineAt = now + allowanceFor(call, Timeout),
                    !.wakeAt = Never, !.aborted = FALSE, !.status = "none"]

Become(r, call) == req' = [req EXCEPT ![r] = call]
End(r, outcome) == Become(r, Ended(req[r], outcome))

NetworkUnchanged == UNCHANGED <<requests, wire, executed, sends>>
OthersUnchanged == UNCHANGED <<now, isDestroyed, invalidated>>
StepOnly == NetworkUnchanged /\ OthersUnchanged

(* request(): a destroyed client refuses before anything looks at the      *)
(* body, so nothing closes the descriptor of an upload.                    *)
Request(r, shape, deadline) ==
  /\ req[r].stage = "idle"
  /\ now <= LastStart
  /\ deadline # Never => shape.intent = "fresh-read" /\ shape.body # "multipart"
  /\ LET call == [stage |-> "dns", shape |-> shape,
                  deadlineAt |-> IF deadline = Never THEN Never ELSE now + deadline,
                  retryCount |-> 0, auth |-> FALSE, requestDeadlineAt |-> now,
                  wakeAt |-> Never, aborted |-> FALSE, status |-> "none",
                  fd |-> IF shape.body = "multipart" THEN "open" ELSE "none",
                  outcome |-> "none"]
     IN  Become(r, IF isDestroyed
                   THEN [call EXCEPT !.stage = "done", !.outcome = "destroyed"]
                   ELSE Attempted(call, 0))
  /\ StepOnly

-------------------------------------------------------------------------------
(* One attempt.                                                            *)

(* Admission and fetch, in one step: no slot without a fetch.              *)
Send(r) ==
  LET call == req[r]
      slot == [of |-> <<r, call.retryCount>>, at |-> now]
      initial == call.retryCount = 0
      late == call.aborted \/ now >= call.requestDeadlineAt
  IN  /\ OthersUnchanged
      /\ \/ /\ expired(call)
            /\ End(r, "budget")
            /\ NetworkUnchanged
         \/ /\ ~ expired(call) /\ late
            /\ End(r, timeoutError(call, TRUE))
            /\ NetworkUnchanged
         \/ /\ ~ expired(call) /\ ~ late /\ Rejects(initial, now)
            /\ checkRateLimit(initial, slot)
            /\ End(r, "localLimit")
            /\ UNCHANGED <<wire, executed, sends>>
         \/ /\ ~ expired(call) /\ ~ late /\ ~ Rejects(initial, now)
            /\ checkRateLimit(initial, slot)
            /\ Become(r, [call EXCEPT !.stage = "sent"])
            /\ wire' = IF HasEffects(call.shape) THEN wire \cup {<<r, call.retryCount>>}
                       ELSE wire
            /\ sends' = sends \cup {slot}
            /\ UNCHANGED executed

(* The host is public: a multipart body is built, any other is ready.      *)
DnsResolves(r) ==
  /\ req[r].stage = "dns"
  /\ IF req[r].shape.body = "multipart"
     THEN Become(r, [req[r] EXCEPT !.stage = "building"]) /\ StepOnly
     ELSE Send(r)

(* The lookup fails or finds a private address.                            *)
DnsFails(r) == req[r].stage = "dns" /\ End(r, "dns") /\ StepOnly

Built(r) == req[r].stage = "building" /\ Send(r)

(* The wait before a retry, cut by the budget.                             *)
getRetryDelay(n) == Least(BaseDelay * 2 ^ n, MaxDelay)

Delayed(call, delay) ==
  IF expired(call) THEN Ended(call, "budget")
  ELSE [call EXCEPT !.stage = "backoff", !.wakeAt = now + delay]

(* A failure that is not a status, from build() or from fetch.             *)
Disconnected(call) ==
  IF isNetworkErrorRetryable(deriveRetryPolicy(call.shape), call.shape.method)
       /\ call.retryCount < MaxRetries
  THEN Delayed(call, getRetryDelay(call.retryCount))
  ELSE Ended(call, "network")

BuildFails(r) ==
  req[r].stage = "building" /\ Become(r, Disconnected(req[r])) /\ StepOnly

(* fetch rejects; what was sent may still be executed.                     *)
NetworkError(r) ==
  req[r].stage = "sent" /\ Become(r, Disconnected(req[r])) /\ StepOnly

(* A mutated form: only a write with a JSON body invalidates.              *)
invalidatesJsonOnly(shape) == shape.method # "GET" /\ shape.body = "json"

cacheInvalidationHook(shape) == shape.method # "GET" \/ shape.body = "multipart"

(* The headers of an ok response; the cache is invalidated before the      *)
(* body allowance or the body can fail.                                    *)
OkArrives(r) ==
  /\ req[r].stage = "sent"
  /\ HasEffects(req[r].shape) => <<r, req[r].retryCount>> \in executed
  /\ invalidated' = IF cacheInvalidationHook(req[r].shape) THEN invalidated \cup {r}
                    ELSE invalidated
  /\ Become(r, IF expired(req[r]) THEN Ended(req[r], "budget")
               ELSE [req[r] EXCEPT !.stage = "reading",
                       !.wakeAt = IF allowanceFor(req[r], BodyTimeout) = 0 THEN Never
                                  ELSE now + allowanceFor(req[r], BodyTimeout)])
  /\ NetworkUnchanged /\ UNCHANGED <<now, isDestroyed>>

(* The headers of an error.  TestRail has not executed what it limits or   *)
(* rejects; a 5xx says nothing about it.                                   *)
ErrorArrives(r, status) ==
  /\ req[r].stage = "sent"
  /\ status # "failed" => <<r, req[r].retryCount>> \notin executed
  /\ wire' = IF status = "failed" THEN wire ELSE wire \ {<<r, req[r].retryCount>>}
  /\ Become(r, IF expired(req[r]) THEN Ended(req[r], "budget")
               ELSE [req[r] EXCEPT !.stage = "errbody", !.status = status,
                       !.wakeAt = IF allowanceFor(req[r], BodyTimeout) = 0 THEN Never
                                  ELSE now + allowanceFor(req[r], BodyTimeout)])
  /\ UNCHANGED <<requests, executed, sends>> /\ OthersUnchanged

(* assertNotRedirect; a proxy redirects what it does not pass on.          *)
Redirected(r) ==
  /\ req[r].stage = "sent"
  /\ <<r, req[r].retryCount>> \notin executed
  /\ wire' = wire \ {<<r, req[r].retryCount>>}
  /\ End(r, "redirect")
  /\ UNCHANGED <<requests, executed, sends>> /\ OthersUnchanged

BodyRead(r) == req[r].stage = "reading" /\ End(r, "answered") /\ StepOnly

(* Too large, not JSON, or the stream failed: never repeated.              *)
BodyUnreadable(r) == req[r].stage = "reading" /\ End(r, "unreadable") /\ StepOnly

(* The error's body has been read, or could not be decoded: repeat, after  *)
(* the server's delay or the client's, or surface the status.              *)
ErrorRead(r, retryAfter) ==
  /\ req[r].stage = "errbody"
  /\ LET call == req[r]
         repeat == /\ isStatusRetryable(deriveRetryPolicy(call.shape), call.status,
                                        call.shape.method)
                   /\ call.retryCount < MaxRetries
         delay == IF retryAfter = 0 THEN getRetryDelay(call.retryCount)
                  ELSE Least(retryAfter, MaxDelay)
     IN  Become(r, IF repeat THEN Delayed(call, delay) ELSE Ended(call, call.status))
  /\ StepOnly

(* The error's body exceeds a limit.                                       *)
ErrorUnreadable(r) == req[r].stage = "errbody" /\ End(r, "errorUnreadable") /\ StepOnly

-------------------------------------------------------------------------------
(* Timers.                                                                 *)

Fires(instant) == instant # Never /\ now >= instant - Early

(* A mutated form: the timer is started after the lookup.                  *)
AttemptTimerAfterDns(r) ==
  /\ req[r].stage \in {"building", "sent"} /\ ~ req[r].aborted
  /\ Fires(req[r].requestDeadlineAt)
  /\ IF req[r].stage = "building"
     THEN Become(r, [req[r] EXCEPT !.aborted = TRUE])
     ELSE End(r, timeoutError(req[r], TRUE))
  /\ StepOnly

(* The timer of the attempt aborts it: the lookup and the fetch give up;   *)
(* the construction of a body goes on, and is found late when it ends.     *)
AttemptTimer(r) ==
  /\ req[r].stage \in {"dns", "building", "sent"} /\ ~ req[r].aborted
  /\ Fires(req[r].requestDeadlineAt)
  /\ IF req[r].stage = "building"
     THEN Become(r, [req[r] EXCEPT !.aborted = TRUE])
     ELSE End(r, timeoutError(req[r], TRUE))
  /\ StepOnly

(* The budget's own timer, around the lookup, the fetch and the delay.     *)
BudgetTimer(r) ==
  /\ req[r].stage \in {"dns", "sent", "backoff"}
  /\ Fires(req[r].deadlineAt)
  /\ End(r, "budget")
  /\ StepOnly

BodyTimer(r) ==
  /\ req[r].stage \in {"reading", "errbody"}
  /\ Fires(req[r].wakeAt)
  /\ End(r, IF req[r].stage = "reading" THEN "unreadable" ELSE "errorUnreadable")
  /\ StepOnly

(* The delay is over: the next attempt.                                    *)
DelayEnds(r) ==
  /\ req[r].stage = "backoff"
  /\ Fires(req[r].wakeAt)
  /\ Become(r, Attempted(req[r], req[r].retryCount + 1))
  /\ StepOnly

-------------------------------------------------------------------------------
(* The world.                                                              *)

Execute(attempt) ==
  /\ attempt \in wire
  /\ wire' = wire \ {attempt}
  /\ executed' = executed \cup {attempt}
  /\ UNCHANGED <<requests, req, sends>> /\ OthersUnchanged

(* destroy(): the requests in flight are not cancelled.                    *)
Destroy ==
  /\ ~ isDestroyed
  /\ isDestroyed' = TRUE
  /\ UNCHANGED <<now, req, invalidated>> /\ NetworkUnchanged

Overdue(r) ==
  \/ /\ req[r].stage \in {"dns", "building", "sent"} /\ ~ req[r].aborted
     /\ now >= req[r].requestDeadlineAt
  \/ /\ req[r].stage \in {"dns", "sent", "backoff"}
     /\ expired(req[r])
  \/ /\ req[r].stage \in {"reading", "errbody", "backoff"}
     /\ req[r].wakeAt # Never /\ now >= req[r].wakeAt

Tick ==
  /\ now < MaxTime
  /\ \A r \in Requests : ~ Overdue(r)
  /\ now' = now + 1
  /\ UNCHANGED <<req, isDestroyed, invalidated>> /\ NetworkUnchanged

Next ==
  \/ \E r \in Requests :
       \/ \E shape \in Wanted, deadline \in Deadlines : Request(r, shape, deadline)
       \/ DnsResolves(r) \/ DnsFails(r)
       \/ Built(r) \/ BuildFails(r)
       \/ NetworkError(r) \/ OkArrives(r) \/ Redirected(r)
       \/ \E status \in ErrorStatuses : ErrorArrives(r, status)
       \/ BodyRead(r) \/ BodyUnreadable(r)
       \/ \E retryAfter \in RetryAfters : ErrorRead(r, retryAfter)
       \/ ErrorUnreadable(r)
       \/ AttemptTimer(r) \/ BudgetTimer(r) \/ BodyTimer(r) \/ DelayEnds(r)
  \/ \E attempt \in wire : Execute(attempt)
  \/ Destroy
  \/ Tick

Spec == Init /\ [][Next]_vars

(* Timers fire and files can be opened; nothing is assumed of the network, *)
(* of the resolver or of TestRail.                                         *)
Fairness ==
  /\ WF_vars(Tick)
  /\ \A r \in Requests :
       /\ WF_vars(AttemptTimer(r)) /\ WF_vars(BudgetTimer(r)) /\ WF_vars(BodyTimer(r))
       /\ WF_vars(DelayEnds(r))
       /\ WF_vars(Built(r) \/ BuildFails(r))

FairSpec == Spec /\ Fairness
-------------------------------------------------------------------------------
(* Safety.                                                                 *)

(* However often a request is repeated, and whenever TestRail gets to the  *)
(* copies of it that were sent, a write, an upload or a report is executed *)
(* at most once.                                                           *)
ExecutedAtMostOnce ==
  \A r \in Requests :
    \A m, n \in 0 .. MaxRetries : <<r, m>> \in executed /\ <<r, n>> \in executed => m = n

(* What the caller is told is true of what TestRail did: a request that    *)
(* was answered was executed; one that was refused, by TestRail or by the  *)
(* client, has not been and will not be.                                   *)
Attempts(r) == {attempt \in wire \cup executed : attempt[1] = r}

OutcomesAreTruthful ==
  \A r \in Requests :
    Done(r) /\ HasEffects(req[r].shape) =>
      /\ req[r].outcome \in {"answered", "unreadable"} => <<r, req[r].retryCount>> \in executed
      /\ req[r].outcome \in {"limited", "rejected", "redirect", "localLimit", "dns", "destroyed"}
           => Attempts(r) = {}

(* No initial attempt is sent when MaxRequests attempts, retries included, *)
(* were sent in the window before it.                                      *)
AdmissionWithinWindow ==
  [][\A slot \in sends' \ sends :
       slot.of[2] = 0 => Cardinality(InWindow(sends, slot.at)) < MaxRequests]_vars

(* The window counts what was sent, no more and no less: a rejected        *)
(* request, an expired one or one whose body could not be built takes no   *)
(* slot, and a retry takes one.                                            *)
SlotsAreSends == InWindow(requests, now) = InWindow(sends, now)

(* Attempts, delays and body reads together stay within the allowance of   *)
(* the request: time already spent is never refunded.                      *)
EndsByDeadline ==
  \A r \in Requests :
    Running(r) /\ req[r].deadlineAt # Never => now <= req[r].deadlineAt

(* A timeout is attributed to the deadline that caused it, although timers *)
(* may fire before the clock agrees.                                       *)
TimeoutNamesItsDeadline ==
  \A r \in Requests :
    /\ Done(r) /\ req[r].outcome = "timeout" /\ req[r].deadlineAt # Never =>
         req[r].requestDeadlineAt < req[r].deadlineAt
    /\ Done(r) /\ req[r].outcome = "budget" =>
         req[r].deadlineAt # Never /\ now >= req[r].deadlineAt - Early

(* Whatever is sent carries the credential: destroy() erases it, and no    *)
(* attempt begun later reaches the network.                                *)
CredentialSent == \A r \in Requests : req[r].stage = "sent" => req[r].auth

(* A write that TestRail has committed has invalidated the cache, also     *)
(* when its body could not be read and the caller was told of a failure.   *)
CommittedIsInvalidated ==
  \A r \in Requests :
    /\ Done(r) /\ req[r].outcome \in {"answered", "unreadable"}
    /\ (req[r].shape.method # "GET" \/ req[r].shape.body = "multipart")
    => r \in invalidated

(* The descriptor of an upload the pipeline took is open until the request *)
(* ends, because the body is read lazily while it is sent, and closed then *)
(* on every path.                                                          *)
DescriptorReleased ==
  \A r \in Requests :
    /\ Running(r) => req[r].fd # "closed"
    /\ Done(r) /\ req[r].outcome # "destroyed" => req[r].fd # "open"

(* Every request ends, whatever the network, the resolver and TestRail do. *)
EveryRequestEnds == \A r \in Requests : Running(r) ~> Done(r)

-------------------------------------------------------------------------------
(* Why it is safe: the parts of the inductive invariant.                   *)

(* Until the request ends, whatever body it has is open.                   *)
HoldsDescriptor(call) ==
  /\ call.stage \in Stages => call.fd # "closed"
  /\ call.stage = "done" /\ call.outcome # "destroyed" => call.fd # "open"

(* An attempt that has not been sent yet holds the credential.             *)
HoldsCredential(call) == call.stage \in {"dns", "building", "sent"} => call.auth

(* Every timer of a bounded request is within its deadline.                *)
Clipped(call, instant) ==
  call.deadlineAt # Never =>
    /\ call.shape.body # "multipart" /\ call.stage # "building"
    /\ call.stage \in Stages => instant <= call.deadlineAt
    /\ call.stage \in {"reading", "errbody"} =>
         call.wakeAt # Never /\ call.wakeAt <= call.deadlineAt

(* An attempt is aborted, and a request ends in a timeout, by the deadline *)
(* that did it.                                                            *)
NamesDeadline(call, instant) ==
  /\ call.aborted => instant >= call.requestDeadlineAt - Early
  /\ call.stage = "done" /\ call.outcome = "timeout" /\ call.deadlineAt # Never =>
       call.requestDeadlineAt < call.deadlineAt
  /\ call.stage = "done" /\ call.outcome = "budget" =>
       call.deadlineAt # Never /\ instant >= call.deadlineAt - Early

Sound(call, instant) ==
  /\ call \in Call
  /\ call.stage = "errbody" => call.status # "none"
  /\ HoldsDescriptor(call) /\ HoldsCredential(call)
  /\ Clipped(call, instant) /\ NamesDeadline(call, instant)

EveryCallSound == \A r \in Requests : req[r] = Idle \/ Sound(req[r], now)

(* Only the current attempt can have a copy at TestRail or on its way, and *)
(* only if nothing said that it was refused.                               *)
Refusals == {"limited", "rejected", "redirect", "localLimit", "dns", "destroyed"}

MayHaveCopy(call, n) ==
  /\ call.stage \in {"sent", "reading", "errbody", "done"}
  /\ call.retryCount = n
  /\ HasEffects(call.shape)
  /\ call.stage = "errbody" => call.status = "failed"
  /\ call.stage = "done" => call.outcome \notin Refusals

CopiesAreCurrent == \A attempt \in wire \cup executed : MayHaveCopy(req[attempt[1]], attempt[2])

(* Ok headers have arrived.                                                *)
Accepted(call) ==
  \/ call.stage = "reading"
  \/ call.stage = "done" /\ call.outcome \in {"answered", "unreadable"}

AcceptedIsExecuted ==
  \A r \in Requests :
    Accepted(req[r]) /\ HasEffects(req[r].shape) => <<r, req[r].retryCount>> \in executed

AcceptedIsInvalidated ==
  \A r \in Requests : Accepted(req[r]) /\ cacheInvalidationHook(req[r].shape) => r \in invalidated

(* The window and its history are the past.                                *)
SlotsArePast ==
  /\ IsFiniteSet(requests)
  /\ \A slot \in requests \cup sends : slot.at <= now

IInv ==
  /\ TypeOK /\ EveryCallSound
  /\ CopiesAreCurrent /\ AcceptedIsExecuted /\ AcceptedIsInvalidated
  /\ SlotsArePast /\ SlotsAreSends

-------------------------------------------------------------------------------
(* What the pipeline is to its callers.                                    *)

toldOf(call) ==
  IF call.stage # "done" THEN "waiting"
  ELSE IF call.outcome \in {"answered", "unreadable"} THEN "committed"
  ELSE IF call.outcome \in Refusals THEN "refused"
  ELSE "unknown"

(* Only a request with effects is asked for in the sense of Exchange.      *)
exchangeOf(call) ==
  IF call.stage # "idle" /\ HasEffects(call.shape)
  THEN [told |-> toldOf(call),
        writes |-> call.shape.method # "GET" \/ call.shape.body = "multipart"]
  ELSE [told |-> "unasked", writes |-> FALSE]

exchange == [r \in Requests |-> exchangeOf(req[r])]

Promise == INSTANCE Exchange WITH Tries <- 0 .. MaxRetries, effects <- executed

(* The pipeline is an exchange: whatever is lost, late or repeated, each   *)
(* request with effects is executed once at most, its caller is told once, *)
(* and truly, and the cache is invalidated after TestRail has executed the *)
(* write and before its caller hears of it.                                *)
KeepsPromise == Promise!Spec

-------------------------------------------------------------------------------
(* What a document says, and the code does not do.                         *)

(* src/types.ts, UploadFilePathInput: the descriptor is consumed by the    *)
(* upload.                                                                 *)
DescriptorConsumed == \A r \in Requests : Done(r) => req[r].fd # "open"
===============================================================================
