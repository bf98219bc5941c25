----------------------------- MODULE RequestCache -----------------------------
(***************************************************************************)
(* The GET cache protocol of src/request-cache.ts as TestRailClientCore    *)
(* drives it (src/client-core.ts, request): cache read, coalescing of      *)
(* in-flight reads, loading, publication under a generation, invalidation  *)
(* by successful writes, disposal.  Storage is module CacheStore.          *)
(*                                                                         *)
(* Every step is one macrotask or microtask of the single JavaScript       *)
(* thread; what can happen between two steps is what the event loop can    *)
(* run there.  The TestRail server holds a version per key, incremented by *)
(* every write it executes, whoever sent it.                               *)
(***************************************************************************)
EXTENDS CacheStore

CONSTANTS
  Calls,          (* slots for request() calls of GETs; a slot is reused   *)
  NoCall,         (* no call                                               *)
  Timeouts,       (* the timeout pairs a call or a withTimeout view sets   *)
  Writers,        (* slots for request() calls of writes by this client    *)
  MaxVersion,     (* bound of the model: versions of a key at the server   *)
  MaxGeneration   (* bound of the model: explicit clearCache() calls stop  *)

ASSUME CacheAssumption ==
  /\ MaxVersion \in Nat /\ Versions = 0 .. MaxVersion
  /\ MaxGeneration \in Nat
  /\ NoCall \notin Calls /\ Timeouts # {}

Nothing == -1     (* a call that has received no response yet              *)

VARIABLES
  pending,        (* pendingKey -> the call whose loader is shared         *)
  generation,
  calls,          (* what each call of request() is doing                  *)
  isDestroyed,    (* TestRailClientCore.isDestroyed                        *)
  server,         (* key -> version at the TestRail server                 *)
  writing,        (* what each writer is doing                             *)
  acked           (* key -> newest version whose write this client has     *)
                  (* seen succeed                                          *)

cacheVars == <<pending, generation, calls, isDestroyed, server, writing, acked>>
vars == <<storeVars, cacheVars>>

PendingKeys == Keys \X Timeouts

(* stage   "loading": its own loader runs; "settling": the loader is done, *)
(*         the finally callback has not run; "hit": a cached value is on   *)
(*         its way; "joined": waits for the loader of `of'                 *)
(* keyed   the request has a cache key                                     *)
(* bounded its budget has a deadline: it shares no loader and its waits    *)
(*         can expire                                                      *)
(* gen     startedAtGeneration                                             *)
(* floor   history: the version acknowledged for its key when it began     *)
CallFields ==
  [stage : {"loading", "settling", "hit", "joined"},
   key : Keys, timeout : Timeouts, keyed : BOOLEAN, bounded : BOOLEAN,
   gen : Nat, of : Calls \cup {NoCall}, value : Versions \cup {Nothing},
   failed : BOOLEAN, floor : Versions]

Received(call) ==
  call.stage = "hit" \/ (call.stage = "settling" /\ ~ call.failed) => call.value # Nothing

RunningCall == {call \in CallFields : Received(call)}

(* A slot whose call is over keeps what its caller was told.               *)
Call == RunningCall \cup [stage : {"idle", "failed"}]
        \cup [stage : {"answered"}, key : Keys, value : Versions, floor : Versions]

(* An idle writer, one whose request is on its way, and one whose request  *)
(* the server has executed.                                                *)
Writing == [stage : {"idle"}] \cup [stage : {"sent"}, key : Keys]
           \cup [stage : {"applied"}, key : Keys, version : Versions]

TypeOK ==
  /\ StoreTypeOK
  /\ pending \in [PendingKeys -> Calls \cup {NoCall}]
  /\ generation \in Nat
  /\ calls \in [Calls -> Call]
  /\ isDestroyed \in BOOLEAN
  /\ server \in [Keys -> Versions]
  /\ writing \in [Writers -> Writing]
  /\ acked \in [Keys -> Versions]

IdleCall == [stage |-> "idle"]

Init ==
  /\ StoreInit
  /\ pending = [pk \in PendingKeys |-> NoCall]
  /\ generation = 0
  /\ calls = [c \in Calls |-> IdleCall]
  /\ isDestroyed = FALSE
  /\ server = [k \in Keys |-> 0]
  /\ writing = [w \in Writers |-> [stage |-> "idle"]]
  /\ acked = [k \in Keys |-> 0]

-------------------------------------------------------------------------------
(* resolve.                                                                *)

PendingKey(c) == <<calls[c].key, calls[c].timeout>>

Running(c) == calls[c].stage \in {"loading", "settling", "hit", "joined"}

InFlight(c) == calls[c].stage \in {"loading", "settling"}

(* The loader of c was offered to later callers.                           *)
Shared(c) == InFlight(c) /\ calls[c].keyed /\ ~ calls[c].bounded

Begin(c, stage, k, t, keyed, bounded, of, value) ==
  /\ ~ isDestroyed
  /\ ~ Running(c)
  /\ calls' = [calls EXCEPT ![c] =
       [stage |-> stage, key |-> k, timeout |-> t, keyed |-> keyed,
        bounded |-> bounded, gen |-> generation, of |-> of, value |-> value,
        failed |-> FALSE, floor |-> acked[k]]]
  /\ UNCHANGED <<generation, isDestroyed, server, writing, acked>>

(* A request without a cache key only runs its loader; its timeouts and    *)
(* its deadline play no part here.                                         *)
ResolveUncached(c, k) ==
  /\ Begin(c, "loading", k, CHOOSE t \in Timeouts : TRUE, FALSE, TRUE, NoCall, Nothing)
  /\ UNCHANGED <<storeVars, pending>>

(* A stored, live value answers the call.                                  *)
ResolveHit(c, k, t, bounded) ==
  /\ ReadHit(k)
  /\ Begin(c, "hit", k, t, TRUE, bounded, NoCall, entries[k].data)
  /\ UNCHANGED pending

(* A loader for the same pendingKey is offered: wait for its result.       *)
ResolveJoin(c, k, t, bounded) ==
  /\ pending[<<k, t>>] # NoCall
  /\ ReadMiss(k)
  /\ Begin(c, "joined", k, t, TRUE, bounded, pending[<<k, t>>], Nothing)
  /\ UNCHANGED pending

(* Start a loader, and offer it unless the call has a deadline.            *)
ResolveLoad(c, k, t, bounded) ==
  /\ pending[<<k, t>>] = NoCall
  /\ ReadMiss(k)
  /\ Begin(c, "loading", k, t, TRUE, bounded, NoCall, Nothing)
  /\ pending' = IF bounded THEN pending ELSE [pending EXCEPT ![<<k, t>>] = c]

(* The server answers the request of a loader; it may be asked again when  *)
(* the pipeline retries after losing an answer.                            *)
Serve(c) ==
  /\ calls[c].stage = "loading"
  /\ calls[c].value # server[calls[c].key]
  /\ calls' = [calls EXCEPT ![c].value = server[calls[c].key]]
  /\ UNCHANGED <<storeVars, pending, generation, isDestroyed, server, writing, acked>>

(* A mutated form of Publish: the generation is not compared.              *)
PublishAnyGeneration(c, cacheable) ==
  /\ calls[c].stage = "loading" /\ calls[c].value # Nothing
  /\ IF calls[c].keyed /\ cacheable
     THEN Write(calls[c].key, calls[c].value)
     ELSE UNCHANGED storeVars
  /\ calls' = [calls EXCEPT ![c].stage = "settling"]
  /\ UNCHANGED <<pending, generation, isDestroyed, server, writing, acked>>

(* The loader resolves with the response; it is published unless the       *)
(* schema did not match or the cache was invalidated since the start.      *)
Publish(c, cacheable) ==
  /\ calls[c].stage = "loading" /\ calls[c].value # Nothing
  /\ IF calls[c].keyed /\ cacheable /\ calls[c].gen = generation
     THEN Write(calls[c].key, calls[c].value)
     ELSE UNCHANGED storeVars
  /\ calls' = [calls EXCEPT ![c].stage = "settling"]
  /\ UNCHANGED <<pending, generation, isDestroyed, server, writing, acked>>

(* The loader rejects: every way the pipeline can fail, its timeouts       *)
(* included.                                                               *)
LoaderFails(c) ==
  /\ calls[c].stage = "loading"
  /\ calls' = [calls EXCEPT ![c].stage = "settling", ![c].failed = TRUE]
  /\ UNCHANGED <<storeVars, pending, generation, isDestroyed, server, writing, acked>>

Ended(d, failed, value) ==
  IF failed THEN [stage |-> "failed"]
  ELSE [stage |-> "answered", key |-> calls[d].key, value |-> value,
        floor |-> calls[d].floor]

(* Two mutated forms of Settle: the finally callback withdraws whatever is *)
(* on offer for its key; only the loader still on offer answers the calls  *)
(* that joined it.                                                         *)
SettleAnyOffer(c) ==
  /\ calls[c].stage = "settling"
  /\ pending' = [pending EXCEPT ![PendingKey(c)] = NoCall]
  /\ calls' = [d \in Calls |->
       IF d = c \/ (calls[d].stage = "joined" /\ calls[d].of = c)
       THEN Ended(d, calls[c].failed, calls[c].value)
       ELSE calls[d]]
  /\ UNCHANGED <<storeVars, generation, isDestroyed, server, writing, acked>>
SettleOfferedOnly(c) ==
  /\ calls[c].stage = "settling"
  /\ pending' = IF pending[PendingKey(c)] = c
                THEN [pending EXCEPT ![PendingKey(c)] = NoCall]
                ELSE pending
  /\ calls' = [d \in Calls |->
       IF d = c \/ (calls[d].stage = "joined" /\ calls[d].of = c /\ pending[PendingKey(c)] = c)
       THEN Ended(d, calls[c].failed, calls[c].value)
       ELSE calls[d]]
  /\ UNCHANGED <<storeVars, generation, isDestroyed, server, writing, acked>>

(* The finally callback withdraws the offer if it is still this loader's,  *)
(* then the initiator and everyone who joined it see the outcome.          *)
Settle(c) ==
  /\ calls[c].stage = "settling"
  /\ pending' = IF pending[PendingKey(c)] = c
                THEN [pending EXCEPT ![PendingKey(c)] = NoCall]
                ELSE pending
  /\ calls' = [d \in Calls |->
       IF d = c \/ (calls[d].stage = "joined" /\ calls[d].of = c)
       THEN Ended(d, calls[c].failed, calls[c].value)
       ELSE calls[d]]
  /\ UNCHANGED <<storeVars, generation, isDestroyed, server, writing, acked>>

(* wait(Promise.resolve(cached)) resolves.                                 *)
DeliverHit(c) ==
  /\ calls[c].stage = "hit"
  /\ calls' = [calls EXCEPT ![c] = Ended(c, FALSE, calls[c].value)]
  /\ UNCHANGED <<storeVars, pending, generation, isDestroyed, server, writing, acked>>

(* The wait of a deadline-bearing call expires; the loader it joined goes  *)
(* on for the others.                                                      *)
WaitExpires(c) ==
  /\ calls[c].stage \in {"hit", "joined"} /\ calls[c].bounded
  /\ calls' = [calls EXCEPT ![c] = Ended(c, TRUE, Nothing)]
  /\ UNCHANGED <<storeVars, pending, generation, isDestroyed, server, writing, acked>>

-------------------------------------------------------------------------------
(* Invalidation, writes and disposal.                                      *)

(* invalidate.                                                             *)
Invalidate ==
  /\ Clear
  /\ pending' = [pk \in PendingKeys |-> NoCall]
  /\ generation' = generation + 1

ClearCache ==
  /\ generation < MaxGeneration
  /\ Invalidate
  /\ UNCHANGED <<timer, calls, isDestroyed, server, writing, acked>>

(* A mutated Destroy, whose dispose stops the timer and clears the cache   *)
(* without invalidating the loaders in flight.                             *)
DestroyWithoutInvalidation ==
  /\ ~ isDestroyed
  /\ isDestroyed' = TRUE
  /\ timer' = FALSE
  /\ Clear
  /\ pending' = [pk \in PendingKeys |-> NoCall]
  /\ UNCHANGED <<generation, calls, server, writing, acked>>

(* destroy(): loaders in flight go on, nothing new is admitted.            *)
Destroy ==
  /\ ~ isDestroyed
  /\ isDestroyed' = TRUE
  /\ timer' = FALSE
  /\ Invalidate
  /\ UNCHANGED <<calls, server, writing, acked>>

SendWrite(w, k) ==
  /\ ~ isDestroyed
  /\ writing[w].stage = "idle"
  /\ writing' = [writing EXCEPT ![w] = [stage |-> "sent", key |-> k]]
  /\ UNCHANGED <<storeVars, pending, generation, calls, isDestroyed, server, acked>>

(* The server executes the write of w.                                     *)
ApplyWrite(w) ==
  /\ writing[w].stage = "sent"
  /\ server[writing[w].key] < MaxVersion
  /\ server' = [server EXCEPT ![writing[w].key] = @ + 1]
  /\ writing' = [writing EXCEPT ![w] =
       [stage |-> "applied", key |-> writing[w].key, version |-> server[writing[w].key] + 1]]
  /\ UNCHANGED <<storeVars, pending, generation, calls, isDestroyed, acked>>

(* The headers of an ok response: onSuccessBeforeParse invalidates before  *)
(* the body is read.                                                       *)
AcknowledgeWrite(w) ==
  /\ writing[w].stage = "applied"
  /\ Invalidate
  /\ acked' = [acked EXCEPT ![writing[w].key] =
       IF writing[w].version > @ THEN writing[w].version ELSE @]
  /\ writing' = [writing EXCEPT ![w] = [stage |-> "idle"]]
  /\ UNCHANGED <<timer, calls, isDestroyed, server>>

(* The write fails, or its response is lost after the server executed it:  *)
(* nothing is invalidated.                                                 *)
FailWrite(w) ==
  /\ writing[w].stage # "idle"
  /\ writing' = [writing EXCEPT ![w] = [stage |-> "idle"]]
  /\ UNCHANGED <<storeVars, pending, generation, calls, isDestroyed, server, acked>>

(* Another client's write.                                                 *)
ForeignWrite(k) ==
  /\ server[k] < MaxVersion
  /\ server' = [server EXCEPT ![k] = @ + 1]
  /\ UNCHANGED <<storeVars, pending, generation, calls, isDestroyed, writing, acked>>

-------------------------------------------------------------------------------
Resolve(c) ==
  \/ \E k \in Keys : ResolveUncached(c, k)
  \/ \E k \in Keys, t \in Timeouts, bounded \in BOOLEAN :
       \/ ResolveHit(c, k, t, bounded)
       \/ ResolveJoin(c, k, t, bounded)
       \/ ResolveLoad(c, k, t, bounded)

Next ==
  \/ \E c \in Calls :
       \/ Resolve(c)
       \/ Serve(c)
       \/ \E cacheable \in BOOLEAN : Publish(c, cacheable)
       \/ LoaderFails(c)
       \/ Settle(c)
       \/ DeliverHit(c)
       \/ WaitExpires(c)
  \/ ClearCache
  \/ Destroy
  \/ \E w \in Writers :
       \/ \E k \in Keys : SendWrite(w, k)
       \/ ApplyWrite(w)
       \/ AcknowledgeWrite(w)
       \/ FailWrite(w)
  \/ \E k \in Keys : ForeignWrite(k)
  \/ (RemoveExpiredEntries \/ Tick) /\ UNCHANGED cacheVars

Spec == Init /\ [][Next]_vars

(* The loader of a call ends, its finally callback runs, or its wait ends. *)
Progress(c) ==
  \/ \E cacheable \in BOOLEAN : Publish(c, cacheable)
  \/ LoaderFails(c) \/ Settle(c) \/ DeliverHit(c) \/ WaitExpires(c)

(* The event loop runs every queued callback, and the pipeline ends every  *)
(* loader, by its timers if by nothing else.                               *)
Fairness == \A c \in Calls : WF_vars(Progress(c))

FairSpec == Spec /\ Fairness
-------------------------------------------------------------------------------
(* Safety.                                                                 *)

(* A read that began after a write of its key was acknowledged returns     *)
(* that write or a newer one, whether it was answered by the cache, by a   *)
(* loader it joined or by its own: no stale entry and no stale loader      *)
(* survives the invalidation by the write.                                 *)
ReadsSeeAcknowledgedWrites ==
  \A c \in Calls : calls[c].stage = "answered" => calls[c].value >= calls[c].floor

(* Requests are coalesced: two loaders that both offered themselves for    *)
(* the same pending key, both still running, started on different sides of *)
(* an invalidation.  A loader that finishes late never withdraws the offer *)
(* of its successor.                                                       *)
OneLoaderPerGeneration ==
  \A c, d \in Calls :
    (c # d /\ Shared(c) /\ Shared(d) /\ PendingKey(c) = PendingKey(d))
      => calls[c].gen # calls[d].gen

(* An offer is withdrawn before anybody learns its outcome, so a caller    *)
(* that retries after a failure starts a new request rather than joining   *)
(* the failed one again; nor is a loader of a former generation on offer.  *)
OffersAreLive ==
  \A pk \in PendingKeys :
    LET c == pending[pk]
    IN  c # NoCall => Shared(c) /\ PendingKey(c) = pk /\ calls[c].gen = generation

(* Once the client is destroyed its cache stays empty, although loaders    *)
(* that were in flight still complete.                                     *)
DestroyedKeepsNothing ==
  isDestroyed => /\ DOMAIN entries = {}
                 /\ \A pk \in PendingKeys : pending[pk] = NoCall
                 /\ ~ timer

(* Every call ends, also one that joined a loader whose offer an           *)
(* invalidation withdrew.                                                  *)
EveryCallEnds ==
  \A c \in Calls : Running(c) ~> ~ Running(c)

-------------------------------------------------------------------------------
(* Why it is safe: the parts of the inductive invariant.                   *)

(* No write is acknowledged before the server executed it.                 *)
AcknowledgedIsServed ==
  /\ \A k \in Keys : acked[k] <= server[k]
  /\ \A w \in Writers :
       writing[w].stage = "applied" => writing[w].version <= server[writing[w].key]

(* What is stored came from the server, and is at least as new as any      *)
(* acknowledged write.                                                     *)
EntriesAreFresh ==
  \A k \in DOMAIN entries : acked[k] <= entries[k].data /\ entries[k].data <= server[k]

(* What a loader brings is new enough for its initiator, and, as long as   *)
(* no invalidation came between, for the cache.                            *)
LoadersAreFresh ==
  \A c \in Calls : Running(c) =>
    /\ calls[c].gen <= generation
    /\ calls[c].floor <= server[calls[c].key]
    /\ calls[c].value <= server[calls[c].key]
    /\ calls[c].value # Nothing =>
         /\ calls[c].floor <= calls[c].value
         /\ InFlight(c) /\ calls[c].gen = generation => acked[calls[c].key] <= calls[c].value

(* Whoever joined a loader waits for one that is running, for its own key, *)
(* and that cannot bring too little.                                       *)
JoinersAreFresh ==
  \A c \in Calls : calls[c].stage = "joined" =>
    LET loader == calls[c].of
    IN  /\ loader \in Calls /\ InFlight(loader)
        /\ calls[loader].key = calls[c].key
        /\ calls[c].value = Nothing
        /\ calls[loader].value # Nothing => calls[c].floor <= calls[loader].value

(* A loader that offered itself is on offer until it ends or is            *)
(* invalidated.                                                            *)
SharedIsOffered ==
  \A c \in Calls :
    Shared(c) /\ calls[c].gen = generation => pending[PendingKey(c)] = c

(* A destroyed client has invalidated every loader still in flight.        *)
DestroyedIsInvalidated ==
  isDestroyed => \A c \in Calls : Running(c) => calls[c].gen < generation

IInv ==
  /\ TypeOK
  /\ AcknowledgedIsServed /\ EntriesAreFresh /\ LoadersAreFresh /\ JoinersAreFresh
  /\ OffersAreLive /\ SharedIsOffered
  /\ OneLoaderPerGeneration /\ ReadsSeeAcknowledgedWrites

-------------------------------------------------------------------------------
(* What the cache promises, see FreshReads: the calls as their callers see *)
(* them.                                                                   *)
CallerView(call) ==
  CASE call.stage \in {"loading", "settling", "hit", "joined"} ->
         [stage |-> "waiting", key |-> call.key, floor |-> call.floor]
    [] call.stage = "answered" ->
         [stage |-> "answered", key |-> call.key, value |-> call.value]
    [] OTHER -> [stage |-> call.stage]

reads == [c \in Calls |-> CallerView(calls[c])]

Promise == INSTANCE FreshReads WITH
  Keys <- Keys, Calls <- Calls, Writers <- Writers,
  server <- server, acked <- acked, writing <- writing, reads <- reads

(* The cache implements that promise.                                      *)
KeepsPromise == Promise!Spec

===============================================================================
