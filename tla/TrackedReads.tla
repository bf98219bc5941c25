------------------------------ MODULE TrackedReads -----------------------------
(* Calls of one GET that share a loader, the body a loader reads within a    *)
(* size and a deadline, and the handles trackOperation gives: `result`, and  *)
(* `settled` for when everything the operation started or joined has ended.  *)
(* Streams are the caller's: read() and cancel() may fail, or never settle.  *)
(* A promise is named by what it belongs to, as in <<"drain", loader>>.      *)
EXTENDS Integers, FiniteSets, FiniteSetsExt

CONSTANTS Calls,     \* calls of the same endpoint
          MaxLoaders, MaxBytes,
          MaxTime,   \* the clock stops there, after every deadline
          Deadlines  \* values of bodyTimeout, 0 for none

ASSUME BoundsAssumption ==
  /\ MaxLoaders \in Nat \ {0} /\ MaxBytes \in Nat /\ MaxTime \in Nat
  /\ Deadlines \subseteq Nat
  /\ Calls \cap (1 .. MaxLoaders) = {}

Loaders == 1 .. MaxLoaders
None == 0

VARIABLES now,
          engaged, \* trackingEngaged
          pending, \* the loader later calls join, as RequestCache.pending
          call,    \* what each call waits for, and how it ended
          loader,  \* each loader and the body it reads
          scope    \* the operation scopes of calls and loaders

vars == <<now, engaged, pending, call, loader, scope>>

Idle == [state |-> "idle", of |-> None, tracked |-> FALSE]
Unused == [race |-> "unused", result |-> "pending", drain |-> "none", got |-> "nothing",
           kind |-> "stream", total |-> 0, sent |-> 0, ended |-> FALSE, deadline |-> 0,
           timer |-> "none", timedOut |-> FALSE, cancel |-> "none", okAt |-> 0]
NoScope == [exists |-> FALSE, watching |-> {}, done |-> FALSE]

CallRecords ==
  [state: {"idle", "waiting", "ended"}, of: Loaders \cup {None}, tracked: BOOLEAN]
LoaderRecords ==
  [race: {"unused", "fetch", "open", "drained", "threw", "late"},
   result: {"pending", "checked", "ok", "failed"},
   drain: {"none", "reading", "got", "storing", "resolved", "rejected"},
   got: {"nothing", "chunk", "done"}, kind: {"stream", "fallback"},
   total: 0 .. MaxBytes + 1, sent: 0 .. MaxBytes + 1, ended: BOOLEAN,
   deadline: 0 .. MaxTime,
   timer: {"none", "armed", "fired", "cleared"}, timedOut: BOOLEAN,
   cancel: {"none", "running", "ended"}, okAt: 0 .. MaxTime]
Promises == {"call", "result", "drain", "cancel", "settled"} \X (Calls \cup Loaders)
ScopeRecords == [exists: BOOLEAN, watching: SUBSET Promises, done: BOOLEAN]

TypeOK ==
  /\ now \in 0 .. MaxTime
  /\ engaged \in BOOLEAN
  /\ pending \in Loaders \cup {None}
  /\ call \in [Calls -> CallRecords]
  /\ loader \in [Loaders -> LoaderRecords]
  /\ scope \in [Calls \cup Loaders -> ScopeRecords]

Init ==
  /\ now = 0 /\ engaged = FALSE /\ pending = None
  /\ call = [c \in Calls |-> Idle]
  /\ loader = [l \in Loaders |-> Unused]
  /\ scope = [s \in Calls \cup Loaders |-> NoScope]

-----------------------------------------------------------------------------
(* Scopes.  A scope watches promises and is done when it watches none; that  *)
(* is what its count of pending resources comes to.                          *)

Open(s, promises) == scope' = [scope EXCEPT ![s] = [exists |-> TRUE, watching |-> promises, done |-> FALSE]]

observe(s, promise) ==
  scope' = IF scope[s].exists THEN [scope EXCEPT ![s].watching = @ \cup {promise}] ELSE scope

resultEnded(l) == loader[l].result \in {"ok", "failed"}

(* A loader that began before tracking did has no scope: `settled` follows   *)
(* its result.                                                               *)
Ended(promise) ==
  LET of == promise[2]
  IN  CASE promise[1] = "call" -> call[of].state = "ended"
        [] promise[1] = "result" -> resultEnded(of)
        [] promise[1] = "drain" -> loader[of].drain \in {"resolved", "rejected"}
        [] promise[1] = "cancel" -> loader[of].cancel = "ended"
        [] promise[1] = "settled" -> IF scope[of].exists THEN scope[of].done ELSE resultEnded(of)

release(s) ==
  /\ \E promise \in scope[s].watching :
       /\ Ended(promise)
       /\ LET left == scope[s].watching \ {promise}
          IN  scope' = [scope EXCEPT ![s].watching = left,
                                     ![s].done = @ \/ left = {}]
  /\ UNCHANGED <<now, engaged, pending, call, loader>>

-----------------------------------------------------------------------------
(* Calls. *)

(* A mutated form: a tracked call that joins a loader does not watch it. *)
JoinUnobserved(c, tracked) ==
  /\ call[c].state = "idle" /\ pending # None
  /\ engaged' = (engaged \/ tracked)
  /\ call' = [call EXCEPT ![c] = [state |-> "waiting", of |-> pending, tracked |-> tracked]]
  /\ IF tracked THEN Open(c, {<<"call", c>>}) ELSE UNCHANGED scope
  /\ UNCHANGED <<now, pending, loader>>

(* A call that finds the GET in flight joins it.  trackOperation engages     *)
(* tracking for good and opens a scope for the callback.                     *)
Join(c, tracked) ==
  /\ call[c].state = "idle" /\ pending # None
  /\ engaged' = (engaged \/ tracked)
  /\ call' = [call EXCEPT ![c] = [state |-> "waiting", of |-> pending, tracked |-> tracked]]
  /\ IF tracked THEN Open(c, {<<"call", c>>, <<"settled", pending>>}) ELSE UNCHANGED scope
  /\ UNCHANGED <<now, pending, loader>>

(* Otherwise it starts a loader, which has a scope once tracking is engaged. *)
startOperation(c, tracked) ==
  /\ call[c].state = "idle" /\ pending = None
  /\ \E l \in Loaders :
       /\ loader[l] = Unused
       /\ \A m \in Loaders : m < l => loader[m] # Unused
       /\ loader' = [loader EXCEPT ![l].race = "fetch"]
       /\ call' = [call EXCEPT ![c] = [state |-> "waiting", of |-> l, tracked |-> tracked]]
       /\ pending' = l
       /\ engaged' = (engaged \/ tracked)
       /\ scope' = [scope EXCEPT
            ![l] = IF engaged'
                     THEN [exists |-> TRUE, watching |-> {<<"result", l>>}, done |-> FALSE]
                     ELSE @,
            ![c] = IF tracked
                     THEN [exists |-> TRUE, done |-> FALSE,
                           watching |-> {<<"call", c>>, <<"settled", l>>}]
                     ELSE @]
  /\ UNCHANGED now

(* The result of the loader, or the end of the caller's own patience. *)
Follow(c) ==
  /\ call[c].state = "waiting" /\ resultEnded(call[c].of)
  /\ call' = [call EXCEPT ![c].state = "ended"]
  /\ UNCHANGED <<now, engaged, pending, loader, scope>>

GiveUp(c) ==
  /\ call[c].state = "waiting"
  /\ call' = [call EXCEPT ![c].state = "ended"]
  /\ UNCHANGED <<now, engaged, pending, loader, scope>>

(* A loader is forgotten some time after its result, or when the cache is    *)
(* invalidated.                                                              *)
Forget ==
  /\ pending # None /\ resultEnded(pending) /\ pending' = None
  /\ UNCHANGED <<now, engaged, call, loader, scope>>

invalidate ==
  /\ pending # None /\ pending' = None
  /\ UNCHANGED <<now, engaged, call, loader, scope>>

-----------------------------------------------------------------------------
(* Reading a body. *)

Set(l, r) == loader' = [loader EXCEPT ![l] = r]

(* The response arrives, with a stream or without, or the request fails.     *)
FetchEnds(l) ==
  /\ loader[l].race = "fetch" /\ loader[l].result = "pending"
  /\ \/ Set(l, [loader[l] EXCEPT !.result = "failed"]) /\ UNCHANGED scope
     \/ /\ \E d \in Deadlines, kind \in {"stream", "fallback"} :
             /\ now + d <= MaxTime
             /\ Set(l, [loader[l] EXCEPT !.race = "open", !.drain = "reading", !.kind = kind,
                                         !.deadline = IF d = 0 THEN 0 ELSE now + d,
                                         !.timer = IF d = 0 THEN "none" ELSE "armed"])
        /\ observe(l, <<"drain", l>>)
  /\ UNCHANGED <<now, engaged, pending, call>>

(* Equality is expiry. *)
expired(r) == r.timedOut \/ (r.deadline > 0 /\ now >= r.deadline)

cancelReaderBestEffort(r) ==
  IF r.kind = "stream" THEN [r EXCEPT !.cancel = "running"] ELSE r
expire(r) == IF r.timedOut THEN r ELSE cancelReaderBestEffort([r EXCEPT !.timedOut = TRUE])

(* The draining ends, and wins the race unless the timer has. *)
Drained(r, how) ==
  [r EXCEPT !.drain = how,
            !.race = IF r.race = "open"
                       THEN IF how = "resolved" THEN "drained" ELSE "threw"
                       ELSE r.race]

(* A step on the body watches the cancellation it starts. *)
Become(l, r) ==
  /\ Set(l, r)
  /\ IF loader[l].cancel = "none" /\ r.cancel = "running"
       THEN observe(l, <<"cancel", l>>) ELSE UNCHANGED scope
  /\ UNCHANGED <<now, engaged, pending, call>>

(* read() gives a chunk, nothing or the end, or fails; a reader that was     *)
(* cancelled says it is at the end.  A body without a stream comes at once.  *)
ReadResolves(l) ==
  LET r == loader[l]
  IN  /\ r.drain = "reading"
      /\ \/ Become(l, Drained(r, "rejected"))
         \/ /\ r.kind = "stream"
            /\ \/ Become(l, [r EXCEPT !.drain = "got", !.got = "nothing"])
               \/ r.sent <= MaxBytes /\ ~ r.ended
                    /\ Become(l, [r EXCEPT !.drain = "got", !.got = "chunk", !.sent = @ + 1])
               \/ Become(l, [r EXCEPT !.drain = "got", !.got = "done", !.ended = TRUE])
               \/ r.cancel # "none" /\ Become(l, [r EXCEPT !.drain = "got", !.got = "done"])
         \/ /\ r.kind = "fallback"
            /\ \E n \in 0 .. MaxBytes + 1 :
                 Become(l, Drained([r EXCEPT !.total = n, !.sent = n, !.ended = TRUE],
                                   "resolved"))

(* After every read: the deadline first, then the end, then the size. *)
CheckRead(l) ==
  LET r == loader[l]
  IN  /\ r.drain = "got"
      /\ Become(l,
           CASE expired(r) -> Drained(expire(r), "rejected")
             [] ~ expired(r) /\ r.got = "done" -> Drained(r, "resolved")
             [] ~ expired(r) /\ r.got = "nothing" -> [r EXCEPT !.drain = "reading"]
             [] ~ expired(r) /\ r.got = "chunk" ->
                  IF r.total + 1 > MaxBytes
                    THEN Drained(cancelReaderBestEffort(r), "rejected")
                    ELSE [r EXCEPT !.drain = "storing"])

(* Making room takes time too. *)
Store(l) ==
  LET r == loader[l]
  IN  /\ r.drain = "storing"
      /\ Become(l, IF expired(r) THEN Drained(expire(r), "rejected")
                   ELSE [r EXCEPT !.drain = "reading", !.total = @ + 1])

(* A mutated form: the timeout is told once the reader has been cancelled. *)
TimerAwaitsCancel(l) ==
  LET r == loader[l]
  IN  /\ r.timer = "armed" /\ now >= r.deadline
      /\ r.race = "open" /\ r.drain = "reading"
      /\ Become(l, IF r.kind = "stream" /\ r.cancel # "ended" THEN expire(r)
                   ELSE [expire(r) EXCEPT !.timer = "fired", !.race = "late"])

(* The timer rejects whatever the reader does.  It runs between the promise  *)
(* callbacks that follow a read, which all run before it.                    *)
Timer(l) ==
  LET r == loader[l]
  IN  /\ r.timer = "armed" /\ now >= r.deadline
      /\ r.race = "open" /\ r.drain = "reading"
      /\ Become(l, [expire(r) EXCEPT !.timer = "fired", !.race = "late"])

(* The race is over: a body that was drained is accepted if there still is   *)
(* time.  Either way the timer is cleared and the reader let go.             *)
Accept(l) ==
  LET r == loader[l]
      accepted == r.race = "drained" /\ ~ expired(r)
      left == IF r.race = "drained" /\ expired(r) THEN expire(r) ELSE r
  IN  /\ r.race \in {"drained", "threw", "late"} /\ r.result = "pending"
      /\ Become(l, [left EXCEPT !.result = IF accepted THEN "checked" ELSE "failed",
                                !.timer = IF @ = "armed" THEN "cleared" ELSE @])

(* A mutated form: the time it took to let the reader go does not count. *)
ReturnUnchecked(l) ==
  LET r == loader[l]
  IN  /\ r.result = "checked"
      /\ Become(l, IF r.total > MaxBytes THEN [r EXCEPT !.result = "failed"]
                   ELSE [r EXCEPT !.result = "ok", !.okAt = now])

(* The last look at the clock; a body without a stream is measured here.     *)
Return(l) ==
  LET r == loader[l]
  IN  /\ r.result = "checked"
      /\ Become(l, IF expired(r) THEN [expire(r) EXCEPT !.result = "failed"]
                   ELSE IF r.total > MaxBytes THEN [r EXCEPT !.result = "failed"]
                   ELSE [r EXCEPT !.result = "ok", !.okAt = now])

CancelEnds(l) ==
  /\ loader[l].cancel = "running"
  /\ Become(l, [loader[l] EXCEPT !.cancel = "ended"])

Tick ==
  /\ now < MaxTime /\ now' = now + 1
  /\ UNCHANGED <<engaged, pending, call, loader, scope>>

-----------------------------------------------------------------------------

Read(l) == FetchEnds(l) \/ CheckRead(l) \/ Store(l) \/ Timer(l) \/ Accept(l) \/ Return(l)

Next ==
  \/ \E c \in Calls, tracked \in BOOLEAN : Join(c, tracked) \/ startOperation(c, tracked)
  \/ \E c \in Calls : Follow(c) \/ GiveUp(c)
  \/ \E l \in Loaders : Read(l) \/ ReadResolves(l) \/ CancelEnds(l)
  \/ \E s \in Calls \cup Loaders : release(s)
  \/ Forget \/ invalidate \/ Tick

(* Promise callbacks and timers run, and time passes; reads and cancellations *)
(* may never settle.                                                          *)
Spec ==
  /\ Init /\ [][Next]_vars
  /\ WF_vars(Tick)
  /\ \A l \in Loaders : WF_vars(Read(l))
  /\ \A c \in Calls : WF_vars(Follow(c))
  /\ \A s \in Calls \cup Loaders : WF_vars(release(s))

-----------------------------------------------------------------------------

(* A body that is returned is all that was sent, within the size, and was    *)
(* whole before its deadline, however late the timer runs and however long   *)
(* the steps in between took.                                                *)
BodyIsWholeAndInTime ==
  \A l \in Loaders : LET r == loader[l] IN
    r.result = "ok" =>
      /\ r.ended /\ r.total = r.sent /\ r.total <= MaxBytes
      /\ r.deadline > 0 => r.okAt < r.deadline

(* Nothing of a loader is going on any more. *)
Quiet(l) ==
  /\ resultEnded(l)
  /\ loader[l].drain \notin {"reading", "got", "storing"}
  /\ loader[l].cancel # "running"

(* When `settled` resolves, the callback has ended and so has everything it  *)
(* started or joined, the cancellation of a read nobody waits for included.  *)
(* The one exception is a loader that began before tracking was engaged.     *)
SettledIsOver ==
  /\ \A s \in Calls \cup Loaders : scope[s].done => scope[s].watching = {}
  /\ \A c \in Calls : scope[c].done =>
       /\ call[c].state = "ended"
       /\ scope[call[c].of].exists => Quiet(call[c].of)

(* A read with a deadline ends even if the stream never does, and an         *)
(* operation settles once what it owns has ended.                            *)
EverythingSettles ==
  /\ \A l \in Loaders : loader[l].deadline > 0 ~> resultEnded(l)
  /\ \A c \in Calls :
       (call[c].tracked /\ call[c].state = "ended" /\ Quiet(call[c].of)) ~> scope[c].done
=============================================================================
