------------------------------- MODULE RunWatch -------------------------------
(***************************************************************************)
(* handleRunWatch of src/cli/handlers/run-watch.ts: the loop of polls,     *)
(* timers and one signal that watches a test run until it is completed.    *)
(*                                                                         *)
(* A step is one turn of the event loop: a promise that a callback settles *)
(* has run its continuations, the finally block included, before anything  *)
(* else happens.                                                           *)
(***************************************************************************)
EXTENDS Integers

CONSTANTS
  Counts,                (* what the counters of a run may say              *)
  Undefined,             (* no snapshot, no answer                          *)
  MaxFailures            (* bound of the model: how many polls fail         *)

(* What a poll shows of a run: the watched fields.                          *)
Snapshot == [is_completed : BOOLEAN, counts : Counts]

ASSUME WatchAssumption ==
  /\ Undefined \notin Snapshot
  /\ MaxFailures \in Nat

(* Why a poll fails: what TestRail or the network did, as getRun reports    *)
(* it.  "timeout" is the 408 of the pipeline's own timer, "unresolved" a    *)
(* host name that could not be looked up.                                   *)
Failures == {"network", "unreadable", "limited", "server", "timeout", "unresolved", "refused"}

VARIABLES
  args,           (* --once, and registerProcessHandlers, which cli.ts sets *)
  run,            (* the run at TestRail                                    *)
  poll,           (* the getRun() in flight                                 *)
  armed,          (* the timer is armed                                     *)
  pendingTimer,   (* a handle is kept of it                                 *)
  cancelled,
  lastSnapshot,
  stage,          (* "watching", "returned", "failed", "exited"             *)
  failure,        (* why the handler failed                                 *)
  failures,       (* how many polls have failed                             *)
  told            (* history: the last state that was printed               *)

vars == <<args, run, poll, armed, pendingTimer, cancelled, lastSnapshot, stage, failure, failures,
          told>>

NoPoll == [stage |-> "none", run |-> Undefined]

TypeOK ==
  /\ args \in [once : BOOLEAN, clientHandlesSignals : BOOLEAN]
  /\ run \in Snapshot
  /\ poll \in [stage : {"none", "asked", "served"}, run : Snapshot \cup {Undefined}]
  /\ armed \in BOOLEAN /\ pendingTimer \in BOOLEAN /\ cancelled \in BOOLEAN
  /\ lastSnapshot \in Snapshot \cup {Undefined} /\ told \in Snapshot \cup {Undefined}
  /\ stage \in {"watching", "returned", "failed", "exited"}
  /\ failure \in Failures \cup {"none"}
  /\ failures \in 0 .. MaxFailures

Asked == [stage |-> "asked", run |-> Undefined]

(* The first poll is made at once.                                          *)
Init ==
  /\ args \in [once : BOOLEAN, clientHandlesSignals : BOOLEAN]
  /\ run \in Snapshot
  /\ poll = Asked
  /\ armed = FALSE /\ pendingTimer = FALSE /\ cancelled = FALSE
  /\ lastSnapshot = Undefined /\ told = Undefined
  /\ stage = "watching" /\ failure = "none" /\ failures = 0
-------------------------------------------------------------------------------
(* TestRail.                                                                *)

(* Testers report results; a completed run is closed for good.              *)
RunChanges ==
  /\ ~ run.is_completed
  /\ run' \in Snapshot
  /\ UNCHANGED <<args, poll, armed, pendingTimer, cancelled, lastSnapshot, stage, failure, failures, told>>

(* A mutated form: the answer comes from the cache of the client.           *)
answerOfCache == IF lastSnapshot # Undefined THEN lastSnapshot ELSE run

(* The cache is off for an action that polls: the server answers, whenever  *)
(* it gets to it, and again when the pipeline repeats the request.          *)
answer == run

Serve ==
  /\ stage # "exited" /\ poll.stage \in {"asked", "served"}
  /\ poll' = [stage |-> "served", run |-> answer]
  /\ UNCHANGED <<args, run, armed, pendingTimer, cancelled, lastSnapshot, stage, failure, failures, told>>
-------------------------------------------------------------------------------
(* The loop.                                                                *)

(* setTimeout(poll, intervalSeconds * 1000)                                 *)
Arm == armed' = TRUE /\ pendingTimer' = TRUE

(* diff(prev, next) is not empty.                                           *)
differs(prev, next) == prev # next

(* A mutated form: a signal that came during the poll is not noticed.       *)
HandleUnasked(next) ==
  /\ lastSnapshot' = next /\ told' = next
  /\ IF next.is_completed \/ args.once
     THEN stage' = "returned" /\ UNCHANGED <<armed, pendingTimer>>
     ELSE stage' = stage /\ Arm

(* What a poll that was answered is good for.                               *)
Handle(next) ==
  \/ /\ cancelled
     /\ UNCHANGED <<lastSnapshot, told, stage, armed, pendingTimer>>
  \/ /\ ~ cancelled
     /\ told' = IF lastSnapshot = Undefined \/ differs(lastSnapshot, next) THEN next ELSE told
     /\ lastSnapshot' = next
     /\ \/ /\ next.is_completed \/ args.once
           /\ stage' = "returned"
           /\ UNCHANGED <<armed, pendingTimer>>
        \/ /\ ~ next.is_completed /\ ~ args.once
           /\ Arm
           /\ UNCHANGED stage

Answered ==
  /\ stage # "exited" /\ poll.stage = "served"
  /\ poll' = NoPoll
  /\ Handle(poll.run)
  /\ UNCHANGED <<args, run, cancelled, failure, failures>>

(* An answer that cannot be read has status 0, as one that never came.      *)
isTransientError(reason) == reason \in {"network", "unreadable", "limited", "server"}

AfterFailure(reason) ==
  \/ /\ cancelled
     /\ UNCHANGED <<armed, pendingTimer, stage, failure>>
  \/ /\ ~ cancelled /\ isTransientError(reason)
     /\ Arm
     /\ UNCHANGED <<stage, failure>>
  \/ /\ ~ cancelled /\ ~ isTransientError(reason)
     /\ stage' = "failed" /\ failure' = reason
     /\ UNCHANGED <<armed, pendingTimer>>

PollFails(reason) ==
  /\ stage # "exited" /\ poll.stage # "none"
  /\ failures < MaxFailures
  /\ failures' = failures + 1
  /\ poll' = NoPoll
  /\ AfterFailure(reason)
  /\ UNCHANGED <<args, run, cancelled, lastSnapshot, told>>

(* poll(): the handle of a timer that has fired is kept, which harms nobody.*)
TimerFires ==
  /\ stage # "exited" /\ armed
  /\ armed' = FALSE
  /\ poll' = IF cancelled THEN poll ELSE Asked
  /\ stage' = IF cancelled THEN "returned" ELSE stage
  /\ UNCHANGED <<args, run, pendingTimer, cancelled, lastSnapshot, failure, failures, told>>

(* A mutated form: the handle is dropped, the timer is not cleared.         *)
ClearNothing == pendingTimer' = FALSE /\ UNCHANGED armed

ClearPending ==
  /\ pendingTimer' = FALSE
  /\ armed' = (armed /\ ~ pendingTimer)

(* SIGINT or SIGTERM: onSignal runs first, then the client's own handler,   *)
(* when there is one, ends the process; otherwise the handler returns,      *)
(* whose finally block removes onSignal.                                    *)
Signal ==
  /\ stage = "watching" /\ ~ cancelled
  /\ cancelled' = TRUE
  /\ ClearPending
  /\ stage' = IF args.clientHandlesSignals THEN "exited" ELSE "returned"
  /\ UNCHANGED <<args, run, poll, lastSnapshot, failure, failures, told>>

Next ==
  \/ RunChanges \/ Serve \/ Answered \/ TimerFires \/ Signal
  \/ \E reason \in Failures : PollFails(reason)

(* Timers fire; a poll is served and answered, as every request ends.       *)
Fairness == WF_vars(TimerFires) /\ WF_vars(Serve /\ poll.stage = "asked") /\ WF_vars(Answered)

Spec == Init /\ [][Next]_vars /\ Fairness
-------------------------------------------------------------------------------
(* The user is told every state the watcher sees, because the next diff     *)
(* starts from it; after a signal nothing more is printed, and a watch that *)
(* has ended leaves no timer behind, whatever the poll that was in flight   *)
(* brings: the timer would keep the process alive and poll with a client    *)
(* that is destroyed.                                                       *)
ReportsUntilEnded ==
  [][ /\ told' = lastSnapshot'
      /\ stage' # "watching" => ~ armed'
      /\ cancelled => UNCHANGED told ]_vars

(* A completed run is noticed and the watch ends, unless a failure ends it. *)
CompletionEndsWatch == run.is_completed ~> stage # "watching"
===============================================================================
