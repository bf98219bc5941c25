-------------------------- MODULE TrackedReadsProofs --------------------------
(* Theorems about TrackedReads, for any number of calls and loaders, bodies  *)
(* of any size and any deadlines.                                            *)
EXTENDS TrackedReads, TLAPS

-----------------------------------------------------------------------------
(* The inductive invariant. *)

Active(r) == r.drain \in {"reading", "got", "storing"}

(* What a loader has read so far, and how far the race over it is. *)
Counted(r) ==
  /\ r.drain = "reading" \/ (r.drain = "got" /\ r.got # "chunk") => r.total = r.sent
  /\ r.drain = "storing" \/ (r.drain = "got" /\ r.got = "chunk") => r.total + 1 = r.sent
  /\ r.drain = "storing" => r.total < MaxBytes
  /\ r.drain = "got" /\ r.got = "done" => r.ended \/ r.timedOut
Raced(r) ==
  /\ r.race \in {"unused", "fetch"} =>
       r.drain = "none" /\ r.total = r.sent /\ r.cancel = "none" /\ ~ r.timedOut
  /\ r.race = "open" => Active(r)
  /\ Active(r) => r.race \in {"open", "late"}
  /\ r.race = "drained" => r.drain = "resolved" /\ r.ended /\ r.total = r.sent
  /\ r.result \in {"checked", "ok"} => r.race = "drained"
  /\ r.cancel # "none" => r.timedOut \/ r.drain = "rejected"
  /\ r.result = "ok" => r.total <= MaxBytes /\ (r.deadline > 0 => r.okAt < r.deadline)
Sound(r) == Counted(r) /\ Raced(r)

(* The scope of a loader watches whatever of it goes on. *)
Watched(l) ==
  scope[l].exists =>
    /\ loader[l].race # "unused"
    /\ ~ resultEnded(l) => <<"result", l>> \in scope[l].watching
    /\ Active(loader[l]) => <<"drain", l>> \in scope[l].watching
    /\ loader[l].cancel = "running" => <<"cancel", l>> \in scope[l].watching

(* The scope of a call watches the call, and its loader until that settles. *)
Followed(c) ==
  /\ call[c].state = "idle" => ~ scope[c].exists
  /\ call[c].state # "idle" => call[c].of \in Loaders /\ loader[call[c].of].race # "unused"
  /\ scope[c].exists =>
       /\ call[c].state = "waiting" => <<"call", c>> \in scope[c].watching
       /\ \/ <<"settled", call[c].of>> \in scope[c].watching
          \/ scope[call[c].of].exists => scope[call[c].of].done

(* A scope that is done, or not there, watches nothing. *)
Finished(s) ==
  /\ scope[s].done => scope[s].exists
  /\ scope[s].done \/ ~ scope[s].exists => scope[s].watching = {}
DoneIsEmpty == \A s \in Calls \cup Loaders : Finished(s)

IInv ==
  /\ TypeOK
  /\ \A l \in Loaders : Sound(loader[l])
  /\ \A l \in Loaders : Watched(l)
  /\ \A c \in Calls : Followed(c)
  /\ DoneIsEmpty
  /\ pending # None => loader[pending].race # "unused"

(* What the constants are assumed to be.                                     *)
LEMMA Bounds ==
  /\ MaxBytes \in Nat /\ MaxTime \in Nat /\ MaxLoaders \in Nat /\ Deadlines \subseteq Nat
  /\ Calls \cap Loaders = {} /\ None \notin Loaders
BY BoundsAssumption DEF Loaders, None

LEMMA TypesStart == Init => IInv
<1> SUFFICES ASSUME Init PROVE IInv
  OBVIOUS
<1>1. Unused \in LoaderRecords /\ Sound(Unused) /\ Unused.race = "unused"
  BY Bounds DEF Unused, LoaderRecords, Sound, Counted, Raced, Active
<1>2. Idle \in CallRecords /\ NoScope \in ScopeRecords
  BY DEF Idle, CallRecords, NoScope, ScopeRecords
<1>3. TypeOK
  <2>1. now \in 0 .. MaxTime
    BY Bounds DEF Init
  <2>2. call \in [Calls -> CallRecords] /\ loader \in [Loaders -> LoaderRecords]
    BY <1>1, <1>2 DEF Init
  <2>3. scope \in [Calls \cup Loaders -> ScopeRecords]
    BY <1>2 DEF Init
  <2> QED BY <2>1, <2>2, <2>3 DEF Init, TypeOK
<1>4. \A l \in Loaders : Sound(loader[l]) /\ Watched(l)
  BY <1>1 DEF Init, Watched, NoScope
<1>5. \A c \in Calls : Followed(c)
  BY DEF Init, Followed, NoScope, Idle
<1> QED BY <1>3, <1>4, <1>5 DEF IInv, Init, DoneIsEmpty, Finished, NoScope
-----------------------------------------------------------------------------
(* Steps of a loader. *)

(* What a step of a loader comes to: it goes on as r, and its scope watches  *)
(* the promises P as well.                                                   *)
BodyStep(l, r, P) ==
  /\ r \in LoaderRecords /\ Sound(r) /\ loader[l].race # "unused" /\ r.race # "unused"
  /\ loader' = [loader EXCEPT ![l] = r]
  /\ scope' = IF scope[l].exists THEN [scope EXCEPT ![l].watching = @ \cup P] ELSE scope
  /\ P \subseteq Promises
  /\ P # {} => ~ resultEnded(l) \/ Active(loader[l])
  /\ resultEnded(l) => r.result \in {"ok", "failed"}
  /\ Active(r) => Active(loader[l]) \/ <<"drain", l>> \in P
  /\ r.cancel = "running" => loader[l].cancel = "running" \/ <<"cancel", l>> \in P
  /\ UNCHANGED <<now, engaged, pending, call>>

LEMMA BodyStepKeeps ==
  ASSUME IInv, NEW l \in Loaders, NEW r, NEW P, BodyStep(l, r, P)
  PROVE  IInv'
<1>1. /\ loader \in [Loaders -> LoaderRecords] /\ scope \in [Calls \cup Loaders -> ScopeRecords]
      /\ call \in [Calls -> CallRecords]
  BY DEF IInv, TypeOK
<1>2. /\ loader' \in [Loaders -> LoaderRecords] /\ loader'[l] = r
      /\ \A m \in Loaders : m # l => loader'[m] = loader[m]
  BY <1>1 DEF BodyStep
<1>3. /\ scope' \in [Calls \cup Loaders -> ScopeRecords]
      /\ \A s \in Calls \cup Loaders : s # l => scope'[s] = scope[s]
      /\ scope'[l].exists = scope[l].exists /\ scope'[l].done = scope[l].done
      /\ scope[l].exists => scope'[l].watching = scope[l].watching \cup P
      /\ ~ scope[l].exists => scope'[l] = scope[l]
  BY <1>1 DEF BodyStep, ScopeRecords
<1>4. TypeOK'
  BY <1>2, <1>3 DEF IInv, TypeOK, BodyStep
<1>5. \A m \in Loaders : Sound(loader[m])'
  BY <1>2 DEF IInv, BodyStep
<1>6. ASSUME NEW m \in Loaders PROVE Watched(m)'
  <2>1. CASE m = l
    BY <1>2, <1>3, <2>1 DEF IInv, Watched, resultEnded, BodyStep
  <2>2. CASE m # l
    BY <1>2, <1>3, <2>2 DEF IInv, Watched, resultEnded
  <2> QED BY <2>1, <2>2
<1>7. ASSUME NEW c \in Calls PROVE Followed(c)'
  <2>1. call' = call /\ scope'[c] = scope[c] /\ Followed(c)
    BY <1>3, Bounds DEF IInv, BodyStep
  <2>2. \A m \in Loaders : loader[m].race # "unused" => loader'[m].race # "unused"
    BY <1>2 DEF BodyStep
  <2>3. \A m \in Loaders : scope'[m].exists = scope[m].exists /\ scope'[m].done = scope[m].done
    BY <1>3
  <2>4. call[c].state # "idle" => call[c].of \in Loaders /\ loader[call[c].of].race # "unused"
    BY <2>1 DEF Followed
  <2>5. call[c].state # "idle" => call[c].of \in Loaders /\ loader'[call[c].of].race # "unused"
    BY <2>2, <2>4
  <2>6. ASSUME scope'[c].exists
        PROVE  /\ call[c].state = "waiting" => <<"call", c>> \in scope'[c].watching
               /\ \/ <<"settled", call[c].of>> \in scope'[c].watching
                  \/ scope'[call[c].of].exists => scope'[call[c].of].done
    BY <2>1, <2>3, <2>4, <2>6 DEF Followed
  <2>7. call[c].state = "idle" => ~ scope'[c].exists
    BY <2>1 DEF Followed
  <2> QED BY <2>1, <2>5, <2>6, <2>7 DEF Followed
<1>8. DoneIsEmpty'
  <2>1. scope[l].done => P = {}
    BY DEF IInv, BodyStep, DoneIsEmpty, Finished, Watched
  <2> QED BY <1>3, <2>1 DEF IInv, DoneIsEmpty, Finished
<1>9. pending' # None => loader'[pending'].race # "unused"
  BY <1>2 DEF IInv, TypeOK, BodyStep
<1> QED BY <1>4, <1>5, <1>6, <1>7, <1>8, <1>9 DEF IInv

(* A step on the body that only has to account for a cancellation.           *)
LEMMA BecomeKeeps ==
  ASSUME IInv, NEW l \in Loaders, NEW r, Become(l, r),
         r \in LoaderRecords, Sound(r), loader[l].race # "unused", r.race # "unused",
         resultEnded(l) => r.result \in {"ok", "failed"},
         Active(r) => Active(loader[l]),
         r.cancel = "running" =>
           loader[l].cancel = "running"
           \/ (loader[l].cancel = "none" /\ (~ resultEnded(l) \/ Active(loader[l])))
  PROVE  IInv'
<1>1. scope \in [Calls \cup Loaders -> ScopeRecords] /\ loader[l] \in LoaderRecords
  BY DEF IInv, TypeOK
<1>2. <<"cancel", l>> \in Promises
  BY DEF Promises
<1>3. CASE loader[l].cancel = "none" /\ r.cancel = "running"
  <2>1. BodyStep(l, r, {<<"cancel", l>>})
    BY <1>2, <1>3 DEF BodyStep, Become, Set, observe
  <2> QED BY <2>1, BodyStepKeeps
<1>4. CASE ~ (loader[l].cancel = "none" /\ r.cancel = "running")
  <2>1. scope' = scope
    BY <1>4 DEF Become
  <2>2. scope = IF scope[l].exists THEN [scope EXCEPT ![l].watching = @ \cup {}] ELSE scope
    BY <1>1 DEF ScopeRecords
  <2>3. BodyStep(l, r, {})
    BY <1>4, <2>1, <2>2 DEF BodyStep, Become, Set
  <2> QED BY <2>3, BodyStepKeeps
<1> QED BY <1>3, <1>4
(* What expiry changes of a loader.                                          *)
Expired(r, x) ==
  /\ x \in LoaderRecords /\ x.timedOut
  /\ x.race = r.race /\ x.result = r.result /\ x.drain = r.drain /\ x.got = r.got
  /\ x.total = r.total /\ x.sent = r.sent /\ x.ended = r.ended
  /\ x.deadline = r.deadline /\ x.timer = r.timer /\ x.okAt = r.okAt
  /\ x.cancel = r.cancel \/ (~ r.timedOut /\ x.cancel = "running")

LEMMA ExpireFields ==
  ASSUME NEW r \in LoaderRecords
  PROVE  Expired(r, expire(r))
<1>1. CASE r.timedOut
  BY <1>1 DEF expire, Expired
<1>2. CASE ~ r.timedOut
  <2> DEFINE y == [r EXCEPT !.timedOut = TRUE]
  <2>1. y \in LoaderRecords /\ Expired(r, y)
    BY DEF LoaderRecords, Expired
  <2>2. CASE r.kind = "stream"
    <3>1. expire(r) = [y EXCEPT !.cancel = "running"]
      BY <1>2, <2>2 DEF expire, cancelReaderBestEffort, LoaderRecords
    <3> HIDE DEF y
    <3>2. [y EXCEPT !.cancel = "running"] \in LoaderRecords
      BY <2>1 DEF LoaderRecords
    <3>3. Expired(r, [y EXCEPT !.cancel = "running"])
      BY <1>2, <2>1, <3>2 DEF LoaderRecords, Expired
    <3> QED BY <3>1, <3>3
  <2>3. CASE r.kind # "stream"
    <3>1. expire(r) = y
      BY <1>2, <2>3 DEF expire, cancelReaderBestEffort, LoaderRecords
    <3> QED BY <2>1, <3>1
  <2> QED BY <2>2, <2>3
<1> QED BY <1>1, <1>2 DEF LoaderRecords

LEMMA SoundExpired ==
  ASSUME NEW r \in LoaderRecords, Sound(r), r.race \notin {"unused", "fetch"}, r.drain # "rejected"
  PROVE  /\ Expired(r, expire(r)) /\ Sound(expire(r))
         /\ expire(r).cancel = "running" => r.cancel \in {"none", "running"}
<1> DEFINE x == expire(r)
<1>1. Expired(r, x)
  BY ExpireFields
<1> HIDE DEF x
<1>2. Sound(x)
  BY <1>1 DEF Expired, Sound, Counted, Raced, Active
<1>3. x.cancel = "running" => r.cancel \in {"none", "running"}
  BY <1>1 DEF Expired, Sound, Raced, LoaderRecords
<1> QED BY <1>1, <1>2, <1>3 DEF x

LEMMA FetchEndsKeeps ==
  ASSUME IInv, NEW l \in Loaders, FetchEnds(l)
  PROVE  IInv'
<1> DEFINE r == loader[l]
<1>1. /\ r \in LoaderRecords /\ Sound(r) /\ scope \in [Calls \cup Loaders -> ScopeRecords]
      /\ now \in 0 .. MaxTime
  BY DEF IInv, TypeOK
<1>2. r.race = "fetch" /\ r.result = "pending"
  BY DEF FetchEnds
<1>3. CASE Set(l, [r EXCEPT !.result = "failed"]) /\ UNCHANGED scope
  <2> DEFINE x == [r EXCEPT !.result = "failed"]
  <2>1. x \in LoaderRecords /\ Sound(x) /\ x.race # "unused" /\ x.drain = r.drain /\ x.cancel = r.cancel
    BY <1>1, <1>2 DEF LoaderRecords, Sound, Counted, Raced, Active
  <2>2. x.result = "failed"
    BY <1>1 DEF LoaderRecords
  <2>3. scope = IF scope[l].exists THEN [scope EXCEPT ![l].watching = @ \cup {}] ELSE scope
    BY <1>1 DEF ScopeRecords
  <2>4. loader' = [loader EXCEPT ![l] = x] /\ scope' = scope
    BY <1>3 DEF Set
  <2>5. UNCHANGED <<now, engaged, pending, call>>
    BY DEF FetchEnds
  <2> HIDE DEF x
  <2>6. BodyStep(l, x, {})
    BY <1>2, <2>1, <2>2, <2>3, <2>4, <2>5 DEF BodyStep, Active
  <2> QED BY <2>6, BodyStepKeeps
<1>4. CASE ~ (Set(l, [r EXCEPT !.result = "failed"]) /\ UNCHANGED scope)
  <2>1. PICK d \in Deadlines, kind \in {"stream", "fallback"} :
          /\ now + d <= MaxTime
          /\ Set(l, [r EXCEPT !.race = "open", !.drain = "reading", !.kind = kind,
                              !.deadline = IF d = 0 THEN 0 ELSE now + d,
                              !.timer = IF d = 0 THEN "none" ELSE "armed"])
          /\ observe(l, <<"drain", l>>)
    BY <1>4 DEF FetchEnds
  <2> DEFINE until == IF d = 0 THEN 0 ELSE now + d
             timer == IF d = 0 THEN "none" ELSE "armed"
             x == [r EXCEPT !.race = "open", !.drain = "reading", !.kind = kind,
                            !.deadline = until, !.timer = timer]
  <2>2. until \in 0 .. MaxTime /\ timer \in {"none", "armed"}
    BY <1>1, <2>1, Bounds
  <2>3. x \in LoaderRecords
    <3> DEFINE y == [r EXCEPT !.race = "open", !.drain = "reading"]
               z == [y EXCEPT !.kind = kind, !.deadline = until]
    <3> HIDE DEF until, timer
    <3>1. y \in LoaderRecords
      BY <1>1 DEF LoaderRecords
    <3>2. z \in LoaderRecords
      <4> HIDE DEF y
      <4> QED BY <3>1, <2>1, <2>2 DEF LoaderRecords
    <3>3. [z EXCEPT !.timer = timer] \in LoaderRecords
      <4> HIDE DEF z
      <4> QED BY <3>2, <2>2 DEF LoaderRecords
    <3>4. x = [z EXCEPT !.timer = timer]
      BY <1>1 DEF LoaderRecords
    <3> QED BY <3>3, <3>4
  <2>4. /\ x.race = "open" /\ x.drain = "reading" /\ x.result = "pending" /\ x.cancel = r.cancel
        /\ x.total = r.total /\ x.sent = r.sent
    BY <1>1, <1>2 DEF LoaderRecords
  <2>5. loader' = [loader EXCEPT ![l] = x] /\ UNCHANGED <<now, engaged, pending, call>>
    BY <2>1 DEF Set, FetchEnds
  <2> HIDE DEF x
  <2>6. Sound(x)
    BY <1>1, <1>2, <2>4 DEF Sound, Counted, Raced, Active
  <2>7. <<"drain", l>> \in Promises
    BY DEF Promises
  <2>8. BodyStep(l, x, {<<"drain", l>>})
    BY <1>2, <2>1, <2>3, <2>4, <2>5, <2>6, <2>7 DEF BodyStep, resultEnded, observe
  <2> QED BY <2>8, BodyStepKeeps
<1> QED BY <1>3, <1>4
(* The end of the draining, by itself.                                       *)
EndsDrain(r, x, how) ==
  /\ x \in LoaderRecords /\ x.drain = how
  /\ x.race = IF r.race = "open" THEN IF how = "resolved" THEN "drained" ELSE "threw" ELSE r.race
  /\ x.result = r.result /\ x.got = r.got /\ x.total = r.total /\ x.sent = r.sent /\ x.ended = r.ended
  /\ x.deadline = r.deadline /\ x.timer = r.timer /\ x.okAt = r.okAt
  /\ x.timedOut = r.timedOut /\ x.cancel = r.cancel

LEMMA DrainedFields ==
  ASSUME NEW r \in LoaderRecords, NEW how \in {"resolved", "rejected"}
  PROVE  EndsDrain(r, Drained(r, how), how)
<1> DEFINE race == IF r.race = "open" THEN IF how = "resolved" THEN "drained" ELSE "threw" ELSE r.race
<1>1. race \in {"unused", "fetch", "open", "drained", "threw", "late"}
  BY DEF LoaderRecords
<1>2. Drained(r, how) = [r EXCEPT !.drain = how, !.race = race]
  BY DEF Drained
<1>3. race = IF r.race = "open" THEN IF how = "resolved" THEN "drained" ELSE "threw" ELSE r.race
  OBVIOUS
<1> HIDE DEF race
<1>4. [r EXCEPT !.drain = how, !.race = race] \in LoaderRecords
  BY <1>1 DEF LoaderRecords
<1> QED BY <1>2, <1>3, <1>4 DEF EndsDrain, LoaderRecords

LEMMA SoundDrained ==
  ASSUME NEW r \in LoaderRecords, NEW how \in {"resolved", "rejected"}, Sound(r), Active(r),
         how = "resolved" => r.ended /\ r.total = r.sent
  PROVE  /\ Drained(r, how) \in LoaderRecords /\ Sound(Drained(r, how))
         /\ Drained(r, how).race # "unused" /\ ~ Active(Drained(r, how))
         /\ Drained(r, how).cancel = r.cancel /\ Drained(r, how).result = r.result
<1> DEFINE x == Drained(r, how)
<1>1. EndsDrain(r, x, how)
  BY DrainedFields
<1> HIDE DEF x
<1>2. x.race # "unused" /\ ~ Active(x)
  BY <1>1 DEF EndsDrain, Sound, Raced, Active
<1>3. Counted(x)
  BY <1>1 DEF EndsDrain, Counted
<1>4. Raced(x)
  BY <1>1 DEF EndsDrain, Sound, Raced, Active
<1> QED BY <1>1, <1>2, <1>3, <1>4 DEF x, Sound, EndsDrain

(* A step that ends the draining of r, which is loader[l] with less to say.  *)
LEMMA DrainKeeps ==
  ASSUME IInv, NEW l \in Loaders, Active(loader[l]),
         NEW r \in LoaderRecords, Sound(r), Active(r), r.result = loader[l].result,
         r.cancel = "running" => loader[l].cancel \in {"none", "running"},
         NEW how \in {"resolved", "rejected"}, how = "resolved" => r.ended /\ r.total = r.sent,
         Become(l, Drained(r, how))
  PROVE  IInv'
<1>1. /\ Drained(r, how) \in LoaderRecords /\ Sound(Drained(r, how))
      /\ Drained(r, how).race # "unused" /\ ~ Active(Drained(r, how))
      /\ Drained(r, how).cancel = r.cancel /\ Drained(r, how).result = r.result
  BY SoundDrained
<1>2. loader[l].race # "unused"
  BY DEF IInv, Sound, Raced, Active
<1>3. resultEnded(l) => Drained(r, how).result \in {"ok", "failed"}
  BY <1>1 DEF resultEnded
<1> QED BY <1>1, <1>2, <1>3, BecomeKeeps

(* A step of the reading that neither ends it nor cancels it.                *)
LEMMA GoOnKeeps ==
  ASSUME IInv, NEW l \in Loaders, Active(loader[l]),
         NEW r \in LoaderRecords, Counted(r), Active(r), r.race = loader[l].race,
         r.result = loader[l].result, r.cancel = loader[l].cancel, r.timedOut = loader[l].timedOut,
         Become(l, r)
  PROVE  IInv'
<1>1. loader[l] \in LoaderRecords /\ Sound(loader[l])
  BY DEF IInv, TypeOK
<1>2. r.race \in {"open", "late"} /\ r.result \notin {"checked", "ok"}
  BY <1>1 DEF Sound, Raced
<1>3. Raced(r)
  BY <1>1, <1>2 DEF Sound, Raced, Active
<1> QED BY <1>2, <1>3, BecomeKeeps DEF Sound, resultEnded
LEMMA ReadResolvesKeeps ==
  ASSUME IInv, NEW l \in Loaders, ReadResolves(l)
  PROVE  IInv'
<1> DEFINE r == loader[l]
<1>1. /\ r \in LoaderRecords /\ Sound(r) /\ r.drain = "reading" /\ Active(r) /\ r.total = r.sent
      /\ r.race \in {"open", "late"}
  BY DEF IInv, TypeOK, ReadResolves, Active, Sound, Counted, Raced
<1>2. CASE Become(l, Drained(r, "rejected"))
  BY <1>1, <1>2, DrainKeeps DEF LoaderRecords
<1>3. CASE Become(l, [r EXCEPT !.drain = "got", !.got = "nothing"])
  <2> DEFINE x == [r EXCEPT !.drain = "got", !.got = "nothing"]
  <2>1. /\ x \in LoaderRecords /\ Counted(x) /\ Active(x) /\ x.race = r.race /\ x.result = r.result
        /\ x.cancel = r.cancel /\ x.timedOut = r.timedOut
    BY <1>1 DEF LoaderRecords, Counted, Active
  <2> HIDE DEF x
  <2> QED BY <1>1, <1>3, <2>1, GoOnKeeps DEF x
<1>4. CASE r.sent <= MaxBytes /\ Become(l, [r EXCEPT !.drain = "got", !.got = "chunk", !.sent = @ + 1])
  <2> DEFINE sent == r.sent + 1
             x == [r EXCEPT !.drain = "got", !.got = "chunk", !.sent = sent]
  <2>1. sent \in 0 .. MaxBytes + 1 /\ r.total + 1 = sent
    BY <1>1, <1>4, Bounds DEF LoaderRecords
  <2>2. Become(l, x)
    BY <1>4
  <2>3. /\ x \in LoaderRecords /\ Counted(x) /\ Active(x) /\ x.race = r.race /\ x.result = r.result
        /\ x.cancel = r.cancel /\ x.timedOut = r.timedOut
    <3> HIDE DEF sent
    <3> QED BY <1>1, <2>1 DEF LoaderRecords, Counted, Active
  <2> HIDE DEF x
  <2> QED BY <1>1, <2>2, <2>3, GoOnKeeps
<1>5. CASE Become(l, [r EXCEPT !.drain = "got", !.got = "done", !.ended = TRUE])
  <2> DEFINE x == [r EXCEPT !.drain = "got", !.got = "done", !.ended = TRUE]
  <2>1. /\ x \in LoaderRecords /\ Counted(x) /\ Active(x) /\ x.race = r.race /\ x.result = r.result
        /\ x.cancel = r.cancel /\ x.timedOut = r.timedOut
    BY <1>1 DEF LoaderRecords, Counted, Active
  <2> HIDE DEF x
  <2> QED BY <1>1, <1>5, <2>1, GoOnKeeps DEF x
<1>6. CASE r.cancel # "none" /\ Become(l, [r EXCEPT !.drain = "got", !.got = "done"])
  <2> DEFINE x == [r EXCEPT !.drain = "got", !.got = "done"]
  <2>1. r.timedOut
    BY <1>1, <1>6 DEF Sound, Raced
  <2>2. /\ x \in LoaderRecords /\ Counted(x) /\ Active(x) /\ x.race = r.race /\ x.result = r.result
        /\ x.cancel = r.cancel /\ x.timedOut = r.timedOut
    BY <1>1, <2>1 DEF LoaderRecords, Counted, Active
  <2> HIDE DEF x
  <2> QED BY <1>1, <1>6, <2>2, GoOnKeeps DEF x
<1>7. ASSUME NEW n \in 0 .. MaxBytes + 1,
             Become(l, Drained([r EXCEPT !.total = n, !.sent = n, !.ended = TRUE], "resolved"))
      PROVE  IInv'
  <2> DEFINE x == [r EXCEPT !.total = n, !.sent = n, !.ended = TRUE]
  <2>1. /\ x \in LoaderRecords /\ x.total = x.sent /\ x.ended /\ x.drain = "reading" /\ x.race = r.race
        /\ x.result = r.result /\ x.cancel = r.cancel /\ x.timedOut = r.timedOut
    BY <1>1 DEF LoaderRecords
  <2> HIDE DEF x
  <2>2. Sound(x) /\ Active(x)
    BY <1>1, <2>1 DEF Sound, Counted, Raced, Active
  <2>3. x.cancel = "running" => r.cancel \in {"none", "running"}
    BY <2>1
  <2> QED BY <1>1, <1>7, <2>1, <2>2, <2>3, DrainKeeps DEF x
<1> QED BY <1>2, <1>3, <1>4, <1>5, <1>6, <1>7 DEF ReadResolves

LEMMA ExpireDrainKeeps ==
  ASSUME IInv, NEW l \in Loaders, Active(loader[l]), Become(l, Drained(expire(loader[l]), "rejected"))
  PROVE  IInv'
<1> DEFINE r == loader[l]
<1>1. r \in LoaderRecords /\ Sound(r) /\ r.race \in {"open", "late"} /\ r.drain # "rejected"
  BY DEF IInv, TypeOK, Active, Sound, Raced
<1>2. /\ Expired(r, expire(r)) /\ Sound(expire(r))
      /\ expire(r).cancel = "running" => r.cancel \in {"none", "running"}
  BY <1>1, SoundExpired
<1>3. expire(r) \in LoaderRecords /\ Active(expire(r)) /\ expire(r).result = r.result
  BY <1>2 DEF Expired, Active
<1> QED BY <1>2, <1>3, DrainKeeps

LEMMA CheckReadKeeps ==
  ASSUME IInv, NEW l \in Loaders, CheckRead(l)
  PROVE  IInv'
<1> DEFINE r == loader[l]
<1>1. /\ r \in LoaderRecords /\ Sound(r) /\ r.drain = "got" /\ Active(r) /\ r.race \in {"open", "late"}
  BY DEF IInv, TypeOK, CheckRead, Active, Sound, Raced
<1>2. CASE expired(r)
  BY <1>1, <1>2, ExpireDrainKeeps DEF CheckRead
<1>3. CASE ~ expired(r) /\ r.got = "done"
  <2>1. Become(l, Drained(r, "resolved"))
    BY <1>3 DEF CheckRead
  <2>2. r.ended /\ r.total = r.sent
    BY <1>1, <1>3 DEF expired, Sound, Counted
  <2> QED BY <1>1, <2>1, <2>2, DrainKeeps
<1>4. CASE ~ expired(r) /\ r.got = "nothing"
  <2> DEFINE x == [r EXCEPT !.drain = "reading"]
  <2>1. Become(l, x)
    BY <1>4 DEF CheckRead
  <2>2. /\ x \in LoaderRecords /\ Counted(x) /\ Active(x) /\ x.race = r.race /\ x.result = r.result
        /\ x.cancel = r.cancel /\ x.timedOut = r.timedOut
    BY <1>1, <1>4 DEF LoaderRecords, Sound, Counted, Active
  <2> HIDE DEF x
  <2> QED BY <1>1, <2>1, <2>2, GoOnKeeps
<1>5. CASE ~ expired(r) /\ r.got = "chunk" /\ r.total + 1 > MaxBytes
  <2> DEFINE x == cancelReaderBestEffort(r)
  <2>1. Become(l, Drained(x, "rejected"))
    BY <1>5 DEF CheckRead
  <2>2. ~ r.timedOut /\ r.cancel = "none"
    BY <1>1, <1>5 DEF expired, Sound, Raced
  <2>3. x \in LoaderRecords /\ x.result = r.result /\ Active(x)
    BY <1>1 DEF cancelReaderBestEffort, LoaderRecords, Active
  <2>4. EndsDrain(x, Drained(x, "rejected"), "rejected")
    BY <2>3, DrainedFields
  <2>5. /\ x.race = r.race /\ x.total = r.total /\ x.sent = r.sent /\ x.got = r.got /\ x.ended = r.ended
        /\ x.timedOut = r.timedOut /\ x.deadline = r.deadline /\ x.okAt = r.okAt
    BY <1>1 DEF cancelReaderBestEffort, LoaderRecords
  <2> DEFINE y == Drained(x, "rejected")
  <2> HIDE DEF x
  <2> HIDE DEF y
  <2>6. EndsDrain(x, y, "rejected")
    BY <2>4 DEF y
  <2>7. Sound(y) /\ ~ Active(y) /\ y.race # "unused" /\ y \in LoaderRecords /\ y.result = r.result
    BY <1>1, <2>3, <2>5, <2>6 DEF EndsDrain, Sound, Counted, Raced, Active
  <2>8. ~ resultEnded(l) \/ Active(r)
    BY <1>1
  <2>9. resultEnded(l) => y.result \in {"ok", "failed"}
    BY <2>7 DEF resultEnded
  <2>10. Become(l, y)
    BY <2>1 DEF y
  <2> QED BY <1>1, <2>2, <2>7, <2>8, <2>9, <2>10, BecomeKeeps
<1>6. CASE ~ expired(r) /\ r.got = "chunk" /\ ~ (r.total + 1 > MaxBytes)
  <2> DEFINE x == [r EXCEPT !.drain = "storing"]
  <2>1. Become(l, x)
    BY <1>6 DEF CheckRead
  <2>2. r.total < MaxBytes
    BY <1>1, <1>6, Bounds DEF LoaderRecords
  <2>3. /\ x \in LoaderRecords /\ Counted(x) /\ Active(x) /\ x.race = r.race /\ x.result = r.result
        /\ x.cancel = r.cancel /\ x.timedOut = r.timedOut
    BY <1>1, <1>6, <2>2 DEF LoaderRecords, Sound, Counted, Active
  <2> HIDE DEF x
  <2> QED BY <1>1, <2>1, <2>3, GoOnKeeps
<1>7. r.got \in {"nothing", "chunk", "done"}
  BY <1>1 DEF LoaderRecords
<1> QED BY <1>2, <1>3, <1>4, <1>5, <1>6, <1>7
LEMMA StoreKeeps ==
  ASSUME IInv, NEW l \in Loaders, Store(l)
  PROVE  IInv'
<1> DEFINE r == loader[l]
<1>1. /\ r \in LoaderRecords /\ Sound(r) /\ r.drain = "storing" /\ Active(r)
      /\ r.total < MaxBytes /\ r.total + 1 = r.sent
  BY DEF IInv, TypeOK, Store, Active, Sound, Counted
<1>2. CASE expired(r)
  BY <1>1, <1>2, ExpireDrainKeeps DEF Store
<1>3. CASE ~ expired(r)
  <2> DEFINE total == r.total + 1
             x == [r EXCEPT !.drain = "reading", !.total = total]
  <2>1. Become(l, x)
    BY <1>3 DEF Store
  <2>2. total \in 0 .. MaxBytes + 1 /\ total = r.sent
    BY <1>1, Bounds DEF LoaderRecords
  <2>3. /\ x \in LoaderRecords /\ Counted(x) /\ Active(x) /\ x.race = r.race /\ x.result = r.result
        /\ x.cancel = r.cancel /\ x.timedOut = r.timedOut
    <3> HIDE DEF total
    <3> QED BY <1>1, <2>2 DEF LoaderRecords, Counted, Active
  <2> HIDE DEF x
  <2> QED BY <1>1, <2>1, <2>3, GoOnKeeps
<1> QED BY <1>2, <1>3

LEMMA TimerKeeps ==
  ASSUME IInv, NEW l \in Loaders, Timer(l)
  PROVE  IInv'
<1> DEFINE r == loader[l]
           y == expire(r)
           x == [y EXCEPT !.timer = "fired", !.race = "late"]
<1>1. r \in LoaderRecords /\ Sound(r) /\ r.race = "open" /\ r.drain = "reading"
  BY DEF IInv, TypeOK, Timer
<1>2. Expired(r, y) /\ Sound(y) /\ (y.cancel = "running" => r.cancel \in {"none", "running"})
  BY <1>1, SoundExpired
<1>3. Become(l, x)
  BY DEF Timer
<1> HIDE DEF y
<1>4. /\ x \in LoaderRecords /\ x.race = "late" /\ x.result = y.result /\ x.drain = y.drain
      /\ x.cancel = y.cancel /\ x.timedOut = y.timedOut /\ x.got = y.got /\ x.total = y.total
      /\ x.sent = y.sent /\ x.ended = y.ended
  <2>1. y \in LoaderRecords
    BY <1>2 DEF Expired
  <2> DEFINE z == [y EXCEPT !.timer = "fired"]
  <2>2. z \in LoaderRecords
    BY <2>1 DEF LoaderRecords
  <2>3. x = [z EXCEPT !.race = "late"]
    BY <2>1 DEF LoaderRecords
  <2>4. x \in LoaderRecords
    <3> HIDE DEF x, z
    <3>1. [z EXCEPT !.race = "late"] \in LoaderRecords
      BY <2>2 DEF LoaderRecords
    <3> QED BY <2>3, <3>1
  <2> QED BY <2>1, <2>4 DEF LoaderRecords
<1> HIDE DEF x
<1>5. x.result \notin {"checked", "ok"}
  BY <1>1, <1>2, <1>4 DEF Expired, Sound, Raced
<1>6. Sound(x)
  BY <1>1, <1>2, <1>4, <1>5 DEF Expired, Sound, Counted, Raced, Active
<1>7. Active(r) /\ (x.cancel = "running" => r.cancel \in {"none", "running"}) /\ x.result = r.result
  BY <1>1, <1>2, <1>4 DEF Expired, Active
<1> QED BY <1>1, <1>3, <1>4, <1>6, <1>7, BecomeKeeps DEF resultEnded

(* Between the race and the result a loader only records what it came to.    *)
LEMMA ResultKeeps ==
  ASSUME IInv, NEW l \in Loaders, ~ resultEnded(l), loader[l].race # "unused",
         NEW y \in LoaderRecords, Sound(y), y.race = loader[l].race, y.drain = loader[l].drain,
         y.cancel = "running" => loader[l].cancel \in {"none", "running"},
         NEW x \in LoaderRecords, x.race = y.race, x.drain = y.drain, x.got = y.got, x.total = y.total,
         x.sent = y.sent, x.ended = y.ended, x.deadline = y.deadline, x.cancel = y.cancel,
         x.timedOut = y.timedOut,
         x.result \in {"checked", "ok"} => x.race = "drained",
         x.result = "ok" => x.total <= MaxBytes /\ (x.deadline > 0 => x.okAt < x.deadline),
         Become(l, x)
  PROVE  IInv'
<1>1. Sound(x)
  BY DEF Sound, Counted, Raced, Active
<1>2. Active(x) => Active(loader[l])
  BY DEF Active
<1> QED BY <1>1, <1>2, BecomeKeeps

LEMMA AcceptKeeps ==
  ASSUME IInv, NEW l \in Loaders, Accept(l)
  PROVE  IInv'
<1> DEFINE r == loader[l]
           accepted == r.race = "drained" /\ ~ expired(r)
           left == IF r.race = "drained" /\ expired(r) THEN expire(r) ELSE r
           result == IF accepted THEN "checked" ELSE "failed"
           timer == IF left.timer = "armed" THEN "cleared" ELSE left.timer
           x == [left EXCEPT !.result = result, !.timer = timer]
<1>1. /\ r \in LoaderRecords /\ Sound(r) /\ r.race \in {"drained", "threw", "late"} /\ r.result = "pending"
  BY DEF IInv, TypeOK, Accept
<1>2. Become(l, x)
  BY DEF Accept
<1>3. /\ left \in LoaderRecords /\ Sound(left) /\ left.race = r.race /\ left.drain = r.drain
      /\ left.cancel = "running" => r.cancel \in {"none", "running"}
  <2>1. CASE r.race = "drained" /\ expired(r)
    <3>1. r.drain # "rejected"
      BY <1>1, <2>1 DEF Sound, Raced
    <3> QED BY <1>1, <2>1, <3>1, SoundExpired DEF Expired
  <2>2. CASE ~ (r.race = "drained" /\ expired(r))
    BY <1>1, <2>2
  <2> QED BY <2>1, <2>2
<1>4. /\ result \in {"checked", "failed"}
      /\ result = "checked" => r.race = "drained"
      /\ timer \in {"none", "fired", "cleared", "armed"}
  BY <1>3 DEF LoaderRecords
<1> HIDE DEF left, result, timer, accepted
<1>5. /\ x \in LoaderRecords /\ x.race = left.race /\ x.drain = left.drain /\ x.got = left.got
      /\ x.total = left.total /\ x.sent = left.sent /\ x.ended = left.ended
      /\ x.deadline = left.deadline /\ x.cancel = left.cancel /\ x.timedOut = left.timedOut
      /\ x.result = result
  <2>1. x \in LoaderRecords
    <3>1. left \in LoaderRecords /\ result \in {"pending", "checked", "ok", "failed"}
      BY <1>3, <1>4
    <3> DEFINE y == [left EXCEPT !.result = result]
    <3>2. y \in LoaderRecords
      BY <3>1 DEF LoaderRecords
    <3>3. x = [y EXCEPT !.timer = timer]
      BY <3>1 DEF LoaderRecords
    <3>4. timer \in {"none", "fired", "cleared", "armed"}
      BY <1>4
    <3> HIDE DEF x, y
    <3>5. [y EXCEPT !.timer = timer] \in LoaderRecords
      BY <3>2, <3>4 DEF LoaderRecords
    <3> QED BY <3>3, <3>5
  <2> QED BY <1>3, <2>1 DEF LoaderRecords
<1> HIDE DEF x
<1>6. ~ resultEnded(l)
  BY <1>1 DEF resultEnded
<1> QED BY <1>1, <1>2, <1>3, <1>4, <1>5, <1>6, ResultKeeps

LEMMA ReturnKeeps ==
  ASSUME IInv, NEW l \in Loaders, Return(l)
  PROVE  IInv'
<1> DEFINE r == loader[l]
<1>1. /\ r \in LoaderRecords /\ Sound(r) /\ r.result = "checked" /\ r.race = "drained"
      /\ r.drain = "resolved" /\ now \in 0 .. MaxTime
  BY DEF IInv, TypeOK, Return, Sound, Raced
<1>2. ~ resultEnded(l)
  BY <1>1 DEF resultEnded
<1>3. CASE expired(r)
  <2> DEFINE y == expire(r)
             x == [y EXCEPT !.result = "failed"]
  <2>1. Expired(r, y) /\ Sound(y) /\ (y.cancel = "running" => r.cancel \in {"none", "running"})
    BY <1>1, SoundExpired
  <2>2. Become(l, x)
    BY <1>3 DEF Return
  <2> HIDE DEF y
  <2>3. /\ x \in LoaderRecords /\ x.race = y.race /\ x.drain = y.drain /\ x.got = y.got
        /\ x.total = y.total /\ x.sent = y.sent /\ x.ended = y.ended
        /\ x.deadline = y.deadline /\ x.cancel = y.cancel /\ x.timedOut = y.timedOut
        /\ x.result = "failed"
    BY <2>1 DEF Expired, LoaderRecords
  <2> HIDE DEF x
  <2> QED BY <1>1, <1>2, <2>1, <2>2, <2>3, ResultKeeps DEF Expired
<1>4. CASE ~ expired(r) /\ r.total > MaxBytes
  <2> DEFINE x == [r EXCEPT !.result = "failed"]
  <2>1. Become(l, x)
    BY <1>4 DEF Return
  <2>2. /\ x \in LoaderRecords /\ x.race = r.race /\ x.drain = r.drain /\ x.got = r.got
        /\ x.total = r.total /\ x.sent = r.sent /\ x.ended = r.ended
        /\ x.deadline = r.deadline /\ x.cancel = r.cancel /\ x.timedOut = r.timedOut
        /\ x.result = "failed"
    BY <1>1 DEF LoaderRecords
  <2> HIDE DEF x
  <2> QED BY <1>1, <1>2, <2>1, <2>2, ResultKeeps
<1>5. CASE ~ expired(r) /\ ~ (r.total > MaxBytes)
  <2> DEFINE x == [r EXCEPT !.result = "ok", !.okAt = now]
  <2>1. Become(l, x)
    BY <1>5 DEF Return
  <2>2. /\ x \in LoaderRecords /\ x.race = r.race /\ x.drain = r.drain /\ x.got = r.got
        /\ x.total = r.total /\ x.sent = r.sent /\ x.ended = r.ended
        /\ x.deadline = r.deadline /\ x.cancel = r.cancel /\ x.timedOut = r.timedOut
        /\ x.okAt = now
    BY <1>1 DEF LoaderRecords
  <2>3. r.total <= MaxBytes /\ (r.deadline > 0 => now < r.deadline)
    BY <1>1, <1>5, Bounds DEF expired, LoaderRecords
  <2> HIDE DEF x
  <2> QED BY <1>1, <1>2, <2>1, <2>2, <2>3, ResultKeeps
<1> QED BY <1>3, <1>4, <1>5

LEMMA CancelEndsKeeps ==
  ASSUME IInv, NEW l \in Loaders, CancelEnds(l)
  PROVE  IInv'
<1> DEFINE r == loader[l]
           x == [r EXCEPT !.cancel = "ended"]
<1>1. r \in LoaderRecords /\ Sound(r) /\ r.cancel = "running" /\ Become(l, x)
  BY DEF IInv, TypeOK, CancelEnds
<1>2. /\ x \in LoaderRecords /\ x.race = r.race /\ x.drain = r.drain /\ x.got = r.got
      /\ x.total = r.total /\ x.sent = r.sent /\ x.ended = r.ended /\ x.okAt = r.okAt
      /\ x.deadline = r.deadline /\ x.cancel = "ended" /\ x.timedOut = r.timedOut /\ x.result = r.result
  BY <1>1 DEF LoaderRecords
<1> HIDE DEF x
<1>3. Sound(x) /\ r.race # "unused"
  BY <1>1, <1>2 DEF Sound, Counted, Raced, Active
<1> QED BY <1>1, <1>2, <1>3, BecomeKeeps DEF resultEnded, Active
-----------------------------------------------------------------------------
(* Steps of scopes and calls.                                                *)

LEMMA ReleaseKeeps ==
  ASSUME IInv, NEW s \in Calls \cup Loaders, release(s)
  PROVE  IInv'
<1>1. PICK promise \in scope[s].watching :
        /\ Ended(promise)
        /\ scope' = [scope EXCEPT ![s].watching = scope[s].watching \ {promise},
                                  ![s].done = @ \/ scope[s].watching \ {promise} = {}]
  BY DEF release
<1>2. scope \in [Calls \cup Loaders -> ScopeRecords] /\ UNCHANGED <<now, engaged, pending, call, loader>>
  BY DEF IInv, TypeOK, release
<1>3. /\ scope' \in [Calls \cup Loaders -> ScopeRecords]
      /\ \A x \in Calls \cup Loaders : x # s => scope'[x] = scope[x]
      /\ scope'[s].exists = scope[s].exists
      /\ scope'[s].watching = scope[s].watching \ {promise}
      /\ scope'[s].done <=> scope[s].done \/ scope'[s].watching = {}
  BY <1>1, <1>2 DEF ScopeRecords
<1>4. TypeOK'
  BY <1>2, <1>3 DEF IInv, TypeOK
<1>5. ASSUME NEW l \in Loaders PROVE Watched(l)'
  <2>1. Watched(l)
    BY DEF IInv
  <2>2. CASE l # s
    BY <1>2, <1>3, <2>1, <2>2 DEF Watched, resultEnded
  <2>3. CASE l = s /\ scope[l].exists
    <3>1. promise = <<"result", l>> => resultEnded(l)
      BY <1>1 DEF Ended
    <3>2. promise = <<"drain", l>> => ~ Active(loader[l])
      BY <1>1 DEF Ended, Active
    <3>3. promise = <<"cancel", l>> => loader[l].cancel # "running"
      BY <1>1 DEF Ended
    <3> QED BY <1>2, <1>3, <2>1, <2>3, <3>1, <3>2, <3>3 DEF Watched, resultEnded
  <2>4. CASE l = s /\ ~ scope[l].exists
    BY <1>3, <2>4 DEF Watched
  <2> QED BY <2>2, <2>3, <2>4
<1>6. ASSUME NEW c \in Calls PROVE Followed(c)'
  <2> DEFINE of == call[c].of
  <2>1. Followed(c) /\ call' = call /\ loader' = loader
    BY <1>2 DEF IInv
  <2>2. scope'[c].exists = scope[c].exists /\ scope'[c].watching \subseteq scope[c].watching
    BY <1>3
  <2>3. \A l \in Loaders : (scope[l].exists => scope[l].done) => (scope'[l].exists => scope'[l].done)
    BY <1>3
  <2>4. call[c].state # "idle" => of \in Loaders /\ loader[of].race # "unused"
    BY <2>1 DEF Followed
  <2>5. ASSUME scope[c].exists
        PROVE  /\ call[c].state = "waiting" => <<"call", c>> \in scope'[c].watching
               /\ \/ <<"settled", of>> \in scope'[c].watching
                  \/ scope'[of].exists => scope'[of].done
    <3>1. of \in Loaders
      BY <2>1, <2>5 DEF Followed
    <3>2. s = c => (promise = <<"call", c>> => call[c].state # "waiting")
      BY <1>1 DEF Ended
    <3>3. call[c].state = "waiting" => <<"call", c>> \in scope'[c].watching
      BY <1>3, <2>1, <2>5, <3>2 DEF Followed
    <3>4. promise = <<"settled", of>> => (scope[of].exists => scope[of].done)
      BY <1>1 DEF Ended
    <3>5. \/ <<"settled", of>> \in scope[c].watching
          \/ scope[of].exists => scope[of].done
      BY <2>1, <2>5 DEF Followed
    <3>6. \/ <<"settled", of>> \in scope'[c].watching
          \/ scope'[of].exists => scope'[of].done
      BY <1>3, <2>3, <3>1, <3>4, <3>5
    <3> QED BY <3>3, <3>6
  <2>6. call[c].state = "idle" => ~ scope'[c].exists
    BY <2>1, <2>2 DEF Followed
  <2> QED BY <2>1, <2>2, <2>4, <2>5, <2>6 DEF Followed
<1>7. DoneIsEmpty'
  <2>1. scope[s].exists
    BY <1>1 DEF IInv, DoneIsEmpty, Finished
  <2> QED BY <1>3, <2>1 DEF IInv, DoneIsEmpty, Finished
<1> QED BY <1>2, <1>4, <1>5, <1>6, <1>7 DEF IInv
(* A step that only time, engagement or the offer of a loader know of.       *)
LEMMA SettingKeeps ==
  ASSUME IInv, UNCHANGED <<call, loader, scope>>, now' \in 0 .. MaxTime, engaged' \in BOOLEAN,
         pending' \in {pending, None}
  PROVE  IInv'
<1>1. TypeOK'
  BY DEF IInv, TypeOK
<1>2. \A l \in Loaders : Sound(loader[l])' /\ Watched(l)'
  BY DEF IInv, Watched, resultEnded
<1>3. \A c \in Calls : Followed(c)'
  BY DEF IInv, Followed
<1>4. DoneIsEmpty'
  BY DEF IInv, DoneIsEmpty, Finished
<1> QED BY <1>1, <1>2, <1>3, <1>4 DEF IInv

LEMMA EndCallKeeps ==
  ASSUME IInv, NEW c \in Calls, Follow(c) \/ GiveUp(c)
  PROVE  IInv'
<1>1. /\ call[c].state = "waiting" /\ call' = [call EXCEPT ![c].state = "ended"]
      /\ UNCHANGED <<now, engaged, pending, loader, scope>>
  BY DEF Follow, GiveUp
<1>2. call \in [Calls -> CallRecords]
  BY DEF IInv, TypeOK
<1>3. /\ call' \in [Calls -> CallRecords] /\ call'[c].state = "ended" /\ call'[c].of = call[c].of
      /\ \A d \in Calls : d # c => call'[d] = call[d]
  BY <1>1, <1>2 DEF CallRecords
<1>4. TypeOK'
  BY <1>1, <1>3 DEF IInv, TypeOK
<1>5. \A l \in Loaders : Sound(loader[l])' /\ Watched(l)'
  BY <1>1 DEF IInv, Watched, resultEnded
<1>6. ASSUME NEW d \in Calls PROVE Followed(d)'
  <2>1. Followed(d)
    BY DEF IInv
  <2>2. CASE d = c
    BY <1>1, <1>3, <2>1, <2>2 DEF Followed
  <2>3. CASE d # c
    BY <1>1, <1>3, <2>1, <2>3 DEF Followed
  <2> QED BY <2>2, <2>3
<1>7. DoneIsEmpty'
  BY <1>1 DEF IInv, DoneIsEmpty, Finished
<1> QED BY <1>1, <1>4, <1>5, <1>6, <1>7 DEF IInv

(* A call begins: it waits for loader l, and watches both if it is tracked.  *)
Begins(c, l, tracked) ==
  /\ call' = [call EXCEPT ![c] = [state |-> "waiting", of |-> l, tracked |-> tracked]]
  /\ tracked => scope'[c] = [exists |-> TRUE, watching |-> {<<"call", c>>, <<"settled", l>>}, done |-> FALSE]
  /\ ~ tracked => scope'[c] = scope[c]
  /\ \A d \in Calls : d # c => scope'[d] = scope[d]

LEMMA BeginKeeps ==
  ASSUME IInv, NEW c \in Calls, NEW l \in Loaders, NEW tracked \in BOOLEAN,
         call[c].state = "idle", Begins(c, l, tracked),
         \A m \in Loaders : loader[m].race # "unused" =>
           loader'[m].race # "unused" /\ scope'[m] = scope[m],
         loader'[l].race # "unused"
  PROVE  /\ call' \in [Calls -> CallRecords]
         /\ scope'[c] \in ScopeRecords
         /\ \A d \in Calls : Followed(d)' /\ Finished(d)'
<1>1. call \in [Calls -> CallRecords] /\ scope \in [Calls \cup Loaders -> ScopeRecords]
  BY DEF IInv, TypeOK
<1>2. [state |-> "waiting", of |-> l, tracked |-> tracked] \in CallRecords
  BY DEF CallRecords
<1>3. /\ call' \in [Calls -> CallRecords] /\ call'[c].state = "waiting" /\ call'[c].of = l
      /\ \A d \in Calls : d # c => call'[d] = call[d]
  BY <1>1, <1>2 DEF Begins
<1>4. scope'[c] \in ScopeRecords
  <2> DEFINE both == {<<"call", c>>, <<"settled", l>>}
  <2>1. both \in SUBSET Promises
    BY DEF Promises
  <2>2. CASE tracked
    <3>1. scope'[c] = [exists |-> TRUE, watching |-> both, done |-> FALSE]
      BY <2>2 DEF Begins
    <3> HIDE DEF both
    <3> QED BY <2>1, <3>1 DEF ScopeRecords
  <2>3. CASE ~ tracked
    BY <1>1, <2>3 DEF Begins
  <2> QED BY <2>2, <2>3
<1>5. ~ scope[c].exists /\ Finished(c)
  BY DEF IInv, Followed, DoneIsEmpty
<1>6. Followed(c)'
  <2>1. CASE tracked
    BY <1>3, <2>1 DEF Begins, Followed
  <2>2. CASE ~ tracked
    BY <1>3, <1>5, <2>2 DEF Begins, Followed
  <2> QED BY <2>1, <2>2
<1>7. ASSUME NEW d \in Calls, d # c PROVE Followed(d)'
  <2>1. Followed(d) /\ scope'[d] = scope[d] /\ call'[d] = call[d]
    BY <1>3, <1>7 DEF IInv, Begins
  <2>2. CASE call[d].state = "idle"
    BY <2>1, <2>2 DEF Followed
  <2>3. CASE call[d].state # "idle"
    <3>1. call[d].of \in Loaders /\ loader[call[d].of].race # "unused"
      BY <2>1, <2>3 DEF Followed
    <3>2. scope'[call[d].of] = scope[call[d].of] /\ loader'[call[d].of].race # "unused"
      BY <3>1
    <3> QED BY <2>1, <2>3, <3>1, <3>2 DEF Followed
  <2> QED BY <2>2, <2>3
<1>8. ASSUME NEW d \in Calls PROVE Finished(d)'
  <2>1. CASE d = c
    BY <1>5, <2>1 DEF Begins, Finished
  <2>2. CASE d # c
    BY <2>2 DEF IInv, DoneIsEmpty, Begins, Finished
  <2> QED BY <2>1, <2>2
<1> QED BY <1>3, <1>4, <1>6, <1>7, <1>8

LEMMA JoinKeeps ==
  ASSUME IInv, NEW c \in Calls, NEW tracked \in BOOLEAN, Join(c, tracked)
  PROVE  IInv'
<1>1. /\ pending \in Loaders /\ loader[pending].race # "unused" /\ call[c].state = "idle"
      /\ scope \in [Calls \cup Loaders -> ScopeRecords] /\ loader' = loader
      /\ c \notin Loaders
  BY Bounds DEF IInv, TypeOK, Join
<1>2. Begins(c, pending, tracked) /\ \A l \in Loaders : scope'[l] = scope[l]
  BY <1>1 DEF Join, Open, Begins
<1>3. /\ call' \in [Calls -> CallRecords]
      /\ scope'[c] \in ScopeRecords
      /\ \A d \in Calls : Followed(d)' /\ Finished(d)'
  BY <1>1, <1>2, BeginKeeps
<1>4. scope' \in [Calls \cup Loaders -> ScopeRecords]
  BY <1>1, <1>3 DEF Join, Open
<1>5. TypeOK'
  BY <1>3, <1>4 DEF IInv, TypeOK, Join
<1>6. \A l \in Loaders : Sound(loader[l])' /\ Watched(l)' /\ Finished(l)'
  BY <1>1, <1>2 DEF IInv, DoneIsEmpty, Finished, Watched, resultEnded
<1> QED BY <1>1, <1>3, <1>5, <1>6 DEF IInv, DoneIsEmpty, Join

LEMMA StartKeeps ==
  ASSUME IInv, NEW c \in Calls, NEW tracked \in BOOLEAN, startOperation(c, tracked)
  PROVE  IInv'
<1>1. PICK l \in Loaders :
        /\ loader[l] = Unused
        /\ loader' = [loader EXCEPT ![l].race = "fetch"]
        /\ call' = [call EXCEPT ![c] = [state |-> "waiting", of |-> l, tracked |-> tracked]]
        /\ pending' = l
        /\ engaged' = (engaged \/ tracked)
        /\ scope' = [scope EXCEPT
             ![l] = IF engaged'
                      THEN [exists |-> TRUE, watching |-> {<<"result", l>>}, done |-> FALSE]
                      ELSE @,
             ![c] = IF tracked
                      THEN [exists |-> TRUE, done |-> FALSE,
                            watching |-> {<<"call", c>>, <<"settled", l>>}]
                      ELSE @]
  BY DEF startOperation
<1>2. /\ scope \in [Calls \cup Loaders -> ScopeRecords] /\ loader \in [Loaders -> LoaderRecords]
      /\ call[c].state = "idle" /\ now' = now /\ c \notin Loaders /\ engaged \in BOOLEAN
  BY Bounds DEF IInv, TypeOK, startOperation
<1> DEFINE mine == IF engaged' THEN [exists |-> TRUE, watching |-> {<<"result", l>>}, done |-> FALSE]
                   ELSE scope[l]
           its == IF tracked THEN [exists |-> TRUE, done |-> FALSE,
                                   watching |-> {<<"call", c>>, <<"settled", l>>}]
                  ELSE scope[c]
<1>3. /\ scope'[c] = its /\ scope'[l] = mine
      /\ \A s \in Calls \cup Loaders : s # c /\ s # l => scope'[s] = scope[s]
  BY <1>1, <1>2
<1>4. /\ loader'[l].race = "fetch" /\ \A m \in Loaders : m # l => loader'[m] = loader[m]
      /\ loader[l].race = "unused"
  BY <1>1, <1>2 DEF Unused, LoaderRecords
<1>5. Begins(c, l, tracked)
  BY <1>1, <1>2, <1>3, Bounds DEF Begins
<1>6. /\ call' \in [Calls -> CallRecords]
      /\ scope'[c] \in ScopeRecords
      /\ \A d \in Calls : Followed(d)' /\ Finished(d)'
  BY <1>2, <1>3, <1>4, <1>5, BeginKeeps
<1>7. mine \in ScopeRecords
  BY <1>2 DEF ScopeRecords, Promises
<1>8. scope' \in [Calls \cup Loaders -> ScopeRecords]
  <2>1. scope' = [scope EXCEPT ![l] = mine, ![c] = its]
    BY <1>1, <1>2
  <2>2. its \in ScopeRecords
    BY <1>3, <1>6
  <2> HIDE DEF mine, its
  <2> QED BY <1>2, <1>7, <2>1, <2>2
<1>9. /\ loader'[l] \in LoaderRecords /\ Sound(loader'[l]) /\ loader'[l].result = "pending"
      /\ loader'[l].drain = "none" /\ loader'[l].cancel = "none"
  <2> DEFINE r == loader'[l]
  <2>1. /\ Unused \in LoaderRecords /\ r = [Unused EXCEPT !.race = "fetch"]
    BY <1>1, <1>2
  <2>2. r \in LoaderRecords
    BY <2>1 DEF LoaderRecords
  <2>3. /\ r.race = "fetch" /\ r.result = "pending" /\ r.drain = "none" /\ r.cancel = "none" /\ ~ r.timedOut
        /\ r.total = 0 /\ r.sent = 0
    BY <2>1 DEF Unused
  <2>4. Sound(r)
    BY <2>3 DEF Sound, Counted, Raced, Active
  <2> QED BY <2>2, <2>3, <2>4
<1>10. TypeOK'
  BY <1>1, <1>2, <1>6, <1>8, <1>9 DEF IInv, TypeOK
<1>11. ASSUME NEW m \in Loaders PROVE Sound(loader[m])' /\ Watched(m)' /\ Finished(m)'
  <2>1. CASE m # l
    BY <1>2, <1>3, <1>4, <2>1 DEF IInv, DoneIsEmpty, Finished, Watched, resultEnded
  <2>2. ~ scope[l].exists /\ Finished(l)
    BY <1>4 DEF IInv, Watched, DoneIsEmpty
  <2>3. CASE m = l /\ engaged'
    BY <1>3, <1>4, <1>9, <2>3 DEF Watched, Finished, resultEnded, Active
  <2>4. CASE m = l /\ ~ engaged'
    BY <1>3, <1>9, <2>2, <2>4 DEF Watched, Finished
  <2> QED BY <2>1, <2>3, <2>4
<1> QED BY <1>1, <1>4, <1>6, <1>10, <1>11 DEF IInv, DoneIsEmpty
-----------------------------------------------------------------------------

LEMMA StepKeeps ==
  ASSUME IInv, [Next]_vars
  PROVE  IInv'
<1>1. now \in 0 .. MaxTime /\ engaged \in BOOLEAN /\ pending \in Loaders \cup {None}
  BY DEF IInv, TypeOK
<1>2. ASSUME NEW c \in Calls, NEW tracked \in BOOLEAN, Join(c, tracked) \/ startOperation(c, tracked)
      PROVE  IInv'
  BY <1>2, JoinKeeps, StartKeeps
<1>3. ASSUME NEW c \in Calls, Follow(c) \/ GiveUp(c)
      PROVE  IInv'
  BY <1>3, EndCallKeeps
<1>4. ASSUME NEW l \in Loaders, Read(l) \/ ReadResolves(l) \/ CancelEnds(l)
      PROVE  IInv'
  BY <1>4, FetchEndsKeeps, CheckReadKeeps, StoreKeeps, TimerKeeps, AcceptKeeps, ReturnKeeps,
     ReadResolvesKeeps, CancelEndsKeeps DEF Read
<1>5. ASSUME NEW s \in Calls \cup Loaders, release(s)
      PROVE  IInv'
  BY <1>5, ReleaseKeeps
<1>6. CASE Forget \/ invalidate
  BY <1>1, <1>6, SettingKeeps DEF Forget, invalidate
<1>7. CASE Tick
  <2>1. now' \in 0 .. MaxTime
    BY <1>1, <1>7, Bounds DEF Tick
  <2> QED BY <1>1, <1>7, <2>1, SettingKeeps DEF Tick
<1>8. CASE UNCHANGED vars
  BY <1>1, <1>8, SettingKeeps DEF vars
<1> QED BY <1>2, <1>3, <1>4, <1>5, <1>6, <1>7, <1>8 DEF Next

THEOREM Inductive == Spec => []IInv
<1>1. Init => IInv
  BY TypesStart
<1>2. IInv /\ [Next]_vars => IInv'
  BY StepKeeps
<1> QED BY <1>1, <1>2, PTL DEF Spec

(* Every variable keeps its type.                                            *)
THEOREM TypeCorrect == Spec => []TypeOK
<1>1. IInv => TypeOK
  BY DEF IInv
<1> QED BY <1>1, Inductive, PTL

(* A body that is returned (readResponseBody in src/body-reader.ts) is all   *)
(* that was sent, within the size, and was whole before its deadline.        *)
THEOREM BodiesAreWhole == Spec => []BodyIsWholeAndInTime
<1>1. IInv => BodyIsWholeAndInTime
  BY DEF IInv, Sound, Raced, BodyIsWholeAndInTime
<1> QED BY <1>1, Inductive, PTL

(* When `settled` of trackOperation (src/operation-tracking.ts) resolves,    *)
(* the callback has ended, and so has every read it started or joined.       *)
THEOREM SettledMeansOver == Spec => []SettledIsOver
<1>1. ASSUME IInv PROVE SettledIsOver
  <2>1. \A s \in Calls \cup Loaders : scope[s].done => scope[s].watching = {}
    BY <1>1 DEF IInv, DoneIsEmpty, Finished
  <2>2. ASSUME NEW c \in Calls, scope[c].done
        PROVE  /\ call[c].state = "ended"
               /\ scope[call[c].of].exists => Quiet(call[c].of)
    <3>1. scope[c].exists /\ scope[c].watching = {} /\ Followed(c)
      BY <1>1, <2>2 DEF IInv, DoneIsEmpty, Finished
    <3>2. call[c].state = "ended" /\ call[c].of \in Loaders
      BY <1>1, <3>1 DEF IInv, TypeOK, CallRecords, Followed
    <3>3. ASSUME scope[call[c].of].exists PROVE Quiet(call[c].of)
      <4>1. scope[call[c].of].done
        BY <3>1, <3>2, <3>3 DEF Followed
      <4>2. scope[call[c].of].watching = {} /\ Watched(call[c].of)
        BY <1>1, <2>1, <3>2, <4>1 DEF IInv
      <4> QED BY <3>3, <4>2 DEF Watched, Quiet, Active
    <3> QED BY <3>2, <3>3
  <2> QED BY <2>1, <2>2 DEF SettledIsOver
<1> QED BY <1>1, Inductive, PTL
=============================================================================
