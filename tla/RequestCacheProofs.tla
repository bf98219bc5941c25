-------------------------- MODULE RequestCacheProofs --------------------------
(***************************************************************************)
(* Theorems about RequestCache, for every number of calls, keys, timeout   *)
(* pairs and writers, every capacity and lifetime, with storage enabled or *)
(* not.                                                                    *)
(***************************************************************************)
EXTENDS RequestCache, CacheUse, FiniteSetTheorems, TLAPS

USE StoreAssumption, CacheAssumption

-------------------------------------------------------------------------------
(* The storage steps as the protocol sees them.                            *)

(* What a step leaves in the store was there before.                       *)
Kept == \A j \in DOMAIN entries' : j \in DOMAIN entries /\ entries'[j] = entries[j]

(* A read, hit or miss, keeps the store well-typed and adds nothing.       *)
LEMMA ReadType ==
  ASSUME StoreTypeOK, NEW k \in Keys, ReadHit(k) \/ ReadMiss(k)
  PROVE  StoreTypeOK' /\ Kept
<1>1. CASE ReadHit(k)
  BY <1>1 DEF StoreTypeOK, ReadHit, Live, MovedToEnd, OrderWithin, Kept
<1>2. CASE ReadMiss(k)
  <2>1. /\ DOMAIN entries' = DOMAIN entries \cap (Keys \ {k})
        /\ \A j \in DOMAIN entries' : entries'[j] = entries[j]
        /\ entries' = [j \in DOMAIN entries' |-> entries'[j]]
    BY <1>2 DEF ReadMiss, EntriesWithin, Restrict
  <2>2. order' \subseteq (DOMAIN entries') \X (DOMAIN entries')
    BY <1>2, <2>1 DEF ReadMiss, OrderWithin, StoreTypeOK
  <2>3. QED
    BY <1>2, <2>1, <2>2 DEF ReadMiss, StoreTypeOK, Kept, Entry
<1>3. QED
  BY <1>1, <1>2

(* The sweep keeps the store well-typed and adds nothing.                  *)
LEMMA SweepType ==
  ASSUME StoreTypeOK, RemoveExpiredEntries
  PROVE  StoreTypeOK' /\ Kept
<1> DEFINE kept == {k \in DOMAIN entries : Live(k)}
<1>1. /\ DOMAIN entries' = kept
      /\ \A j \in kept : entries'[j] = entries[j]
      /\ entries' = [j \in kept |-> entries'[j]]
  BY DEF RemoveExpiredEntries, EntriesWithin, Restrict
<1>2. order' \subseteq kept \X kept
  BY DEF RemoveExpiredEntries, OrderWithin
<1> HIDE DEF kept
<1>3. kept \subseteq DOMAIN entries
  BY DEF kept
<1>4. QED
  BY <1>1, <1>2, <1>3 DEF RemoveExpiredEntries, StoreTypeOK, Kept, Entry

(* clear() leaves an empty, well-typed store.                              *)
LEMMA ClearType ==
  ASSUME StoreTypeOK, Clear, timer' \in BOOLEAN
  PROVE  StoreTypeOK' /\ DOMAIN entries' = {}
BY DEF StoreTypeOK, Clear, Entry

(* write(k, v) keeps the store well-typed, and adds nothing but v at k.    *)
LEMMA WriteType ==
  ASSUME StoreTypeOK, NEW k \in Keys, NEW v \in Versions, Write(k, v)
  PROVE  /\ StoreTypeOK'
         /\ \A j \in DOMAIN entries' :
              \/ j = k /\ entries'[j].data = v
              \/ j \in DOMAIN entries /\ entries'[j] = entries[j]
<1>1. CASE ~ EnableStorage
  BY <1>1 DEF Write, StoreTypeOK
<1>2. CASE EnableStorage
  <2> DEFINE kept == DOMAIN entries \ Evicted(k)
  <2>1. /\ entries' = [j \in kept \cup {k} |->
                         IF j = k THEN [data |-> v, expiry |-> now + Ttl] ELSE entries[j]]
        /\ order' = MovedToEnd(kept, k)
        /\ timer' = timer /\ now' = now
    BY <1>2 DEF Write
  <2>2. kept \subseteq DOMAIN entries
    OBVIOUS
  <2> HIDE DEF kept
  <2>3. order' \subseteq (kept \cup {k}) \X (kept \cup {k})
    BY <2>1 DEF MovedToEnd, OrderWithin
  <2>4. now + Ttl \in Nat
    BY DEF StoreTypeOK
  <2>5. QED
    BY <2>1, <2>2, <2>3, <2>4 DEF StoreTypeOK, Entry
<1>3. QED
  BY <1>1, <1>2

-------------------------------------------------------------------------------
(* Types.                                                                  *)

(* Only a running call has the fields of one.                              *)
LEMMA RunningType ==
  ASSUME TypeOK, NEW c \in Calls, Running(c)
  PROVE  calls[c] \in RunningCall
BY DEF TypeOK, Running, Call

(* A call that begins is well-typed.                                       *)
LEMMA BeginType ==
  ASSUME TypeOK, NEW c \in Calls, NEW k \in Keys, NEW t \in Timeouts,
         NEW stage \in {"loading", "settling", "hit", "joined"},
         NEW keyed \in BOOLEAN, NEW bounded \in BOOLEAN,
         NEW of \in Calls \cup {NoCall}, NEW value \in Versions \cup {Nothing},
         stage \in {"hit", "settling"} => value # Nothing,
         Begin(c, stage, k, t, keyed, bounded, of, value)
  PROVE  calls' \in [Calls -> Call]
<1> DEFINE new == [stage |-> stage, key |-> k, timeout |-> t, keyed |-> keyed,
                   bounded |-> bounded, gen |-> generation, of |-> of,
                   value |-> value, failed |-> FALSE, floor |-> acked[k]]
<1>1. new \in RunningCall
  BY DEF TypeOK, RunningCall, CallFields, Received
<1>2. calls' = [calls EXCEPT ![c] = new]
  BY DEF Begin
<1> HIDE DEF new
<1>3. QED
  BY <1>1, <1>2 DEF TypeOK, Call

(* The types are preserved by every step of a call.                        *)
LEMMA CallStepType ==
  ASSUME TypeOK, NEW c \in Calls
  PROVE  /\ Resolve(c) => TypeOK'
         /\ Serve(c) => TypeOK'
         /\ \A cacheable \in BOOLEAN : Publish(c, cacheable) => TypeOK'
         /\ LoaderFails(c) => TypeOK'
         /\ Settle(c) => TypeOK'
         /\ DeliverHit(c) => TypeOK'
         /\ WaitExpires(c) => TypeOK'
<1>1. ASSUME Resolve(c) PROVE TypeOK'
  <2>1. ASSUME NEW k \in Keys, ResolveUncached(c, k) PROVE TypeOK'
    <3> DEFINE t == CHOOSE x \in Timeouts : TRUE
    <3>1. t \in Timeouts
      OBVIOUS
    <3> HIDE DEF t
    <3>2. Begin(c, "loading", k, t, FALSE, TRUE, NoCall, Nothing)
      BY <2>1 DEF ResolveUncached, t
    <3>3. calls' \in [Calls -> Call]
      BY <3>1, <3>2, BeginType
    <3>4. StoreTypeOK'
      BY <2>1 DEF ResolveUncached, TypeOK, StoreTypeOK, storeVars
    <3>5. QED
      BY <2>1, <3>2, <3>3, <3>4 DEF ResolveUncached, TypeOK, Begin
  <2>2. ASSUME NEW k \in Keys, NEW t \in Timeouts, NEW bounded \in BOOLEAN,
               ResolveHit(c, k, t, bounded)
        PROVE  TypeOK'
    <3>1. entries[k].data \in Versions /\ entries[k].data # Nothing
      BY <2>2 DEF ResolveHit, ReadHit, Live, TypeOK, StoreTypeOK, Entry, Nothing
    <3>2. Begin(c, "hit", k, t, TRUE, bounded, NoCall, entries[k].data)
      BY <2>2 DEF ResolveHit
    <3>3. calls' \in [Calls -> Call]
      BY <3>1, <3>2, BeginType
    <3>4. StoreTypeOK'
      BY <2>2, ReadType DEF ResolveHit, TypeOK
    <3>5. QED
      BY <2>2, <3>2, <3>3, <3>4 DEF ResolveHit, TypeOK, Begin
  <2>3. ASSUME NEW k \in Keys, NEW t \in Timeouts, NEW bounded \in BOOLEAN,
               ResolveJoin(c, k, t, bounded)
        PROVE  TypeOK'
    <3>1. pending[<<k, t>>] \in Calls \cup {NoCall}
      BY DEF TypeOK, PendingKeys
    <3>2. Begin(c, "joined", k, t, TRUE, bounded, pending[<<k, t>>], Nothing)
      BY <2>3 DEF ResolveJoin
    <3>3. calls' \in [Calls -> Call]
      BY <3>1, <3>2, BeginType
    <3>4. StoreTypeOK'
      BY <2>3, ReadType DEF ResolveJoin, TypeOK
    <3>5. QED
      BY <2>3, <3>2, <3>3, <3>4 DEF ResolveJoin, TypeOK, Begin
  <2>4. ASSUME NEW k \in Keys, NEW t \in Timeouts, NEW bounded \in BOOLEAN,
               ResolveLoad(c, k, t, bounded)
        PROVE  TypeOK'
    <3>2. Begin(c, "loading", k, t, TRUE, bounded, NoCall, Nothing)
      BY <2>4 DEF ResolveLoad
    <3>3. calls' \in [Calls -> Call]
      BY <3>2, BeginType
    <3>4. StoreTypeOK'
      BY <2>4, ReadType DEF ResolveLoad, TypeOK
    <3>5. pending' \in [PendingKeys -> Calls \cup {NoCall}]
      BY <2>4 DEF ResolveLoad, TypeOK, PendingKeys
    <3>6. QED
      BY <2>4, <3>2, <3>3, <3>4, <3>5 DEF TypeOK, Begin
  <2>5. QED
    BY <1>1, <2>1, <2>2, <2>3, <2>4 DEF Resolve
<1>2. ASSUME Serve(c) PROVE TypeOK'
  <2>1. calls[c] \in RunningCall /\ server[calls[c].key] \in Versions
    BY <1>2, RunningType DEF Serve, Running, TypeOK, RunningCall, CallFields
  <2>2. [calls[c] EXCEPT !.value = server[calls[c].key]] \in RunningCall
    BY <1>2, <2>1 DEF Serve, RunningCall, CallFields, Received
  <2>3. calls' \in [Calls -> Call]
    BY <1>2, <2>2 DEF Serve, TypeOK, Call
  <2>4. QED
    BY <1>2, <2>3 DEF Serve, TypeOK, StoreTypeOK, storeVars
<1>3. ASSUME NEW cacheable \in BOOLEAN, Publish(c, cacheable) PROVE TypeOK'
  <2>1. calls[c] \in RunningCall
    BY <1>3, RunningType DEF Publish, Running
  <2>2. calls[c].key \in Keys /\ calls[c].value \in Versions
    BY <1>3, <2>1 DEF Publish, RunningCall, CallFields
  <2>3. StoreTypeOK'
    <3>1. CASE storeVars' = storeVars
      BY <3>1 DEF TypeOK, StoreTypeOK, storeVars
    <3>2. CASE Write(calls[c].key, calls[c].value)
      BY <3>2, <2>2, WriteType DEF TypeOK
    <3>3. QED
      BY <1>3, <3>1, <3>2 DEF Publish
  <2>4. [calls[c] EXCEPT !.stage = "settling"] \in RunningCall
    BY <1>3, <2>1 DEF Publish, RunningCall, CallFields, Received
  <2>5. calls' \in [Calls -> Call]
    BY <1>3, <2>4 DEF Publish, TypeOK, Call
  <2>6. QED
    BY <1>3, <2>3, <2>5 DEF Publish, TypeOK
<1>4. ASSUME LoaderFails(c) PROVE TypeOK'
  <2>1. calls[c] \in RunningCall
    BY <1>4, RunningType DEF LoaderFails, Running
  <2>2. [calls[c] EXCEPT !.stage = "settling", !.failed = TRUE] \in RunningCall
    BY <2>1 DEF RunningCall, CallFields, Received
  <2>3. calls' = [calls EXCEPT ![c] = [calls[c] EXCEPT !.stage = "settling", !.failed = TRUE]]
    BY <1>4, <2>1 DEF LoaderFails, RunningCall, CallFields, TypeOK
  <2>4. calls' \in [Calls -> Call]
    BY <2>2, <2>3 DEF TypeOK, Call
  <2>5. QED
    BY <1>4, <2>4 DEF LoaderFails, TypeOK, StoreTypeOK, storeVars
<1>5. ASSUME Settle(c) PROVE TypeOK'
  <2>1. calls[c] \in RunningCall
    BY <1>5, RunningType DEF Settle, Running
  <2>2. ASSUME NEW d \in Calls PROVE calls'[d] \in Call
    <3>1. CASE d = c \/ (calls[d].stage = "joined" /\ calls[d].of = c)
      <4>1. calls[d] \in RunningCall
        BY <1>5, <2>1, <3>1, RunningType DEF Running
      <4>2. calls'[d] = Ended(d, calls[c].failed, calls[c].value)
        BY <1>5, <3>1 DEF Settle
      <4>3. calls[c].failed \/ calls[c].value \in Versions
        BY <1>5, <2>1 DEF Settle, RunningCall, CallFields, Received
      <4>4. QED
        BY <4>1, <4>2, <4>3 DEF Ended, Call, RunningCall, CallFields
    <3>2. CASE ~ (d = c \/ (calls[d].stage = "joined" /\ calls[d].of = c))
      BY <1>5, <3>2 DEF Settle, TypeOK
    <3>3. QED
      BY <3>1, <3>2
  <2>3. QED
    BY <1>5, <2>2 DEF Settle, TypeOK, StoreTypeOK, storeVars, PendingKeys
<1>6. ASSUME DeliverHit(c) PROVE TypeOK'
  <2>1. calls[c] \in RunningCall
    BY <1>6, RunningType DEF DeliverHit, Running
  <2>2. Ended(c, FALSE, calls[c].value) \in Call
    BY <1>6, <2>1 DEF DeliverHit, Ended, Call, RunningCall, CallFields, Received
  <2>3. QED
    BY <1>6, <2>2 DEF DeliverHit, TypeOK, StoreTypeOK, storeVars
<1>7. ASSUME WaitExpires(c) PROVE TypeOK'
  BY <1>7 DEF WaitExpires, Ended, TypeOK, Call, StoreTypeOK, storeVars
<1>8. QED
  BY <1>1, <1>2, <1>3, <1>4, <1>5, <1>6, <1>7
(* The types are preserved by invalidations and writes.                    *)
LEMMA InvalidateType ==
  ASSUME TypeOK, Invalidate, timer' \in BOOLEAN
  PROVE  /\ StoreTypeOK'
         /\ pending' \in [PendingKeys -> Calls \cup {NoCall}]
         /\ generation' \in Nat
<1>1. StoreTypeOK'
  BY ClearType DEF TypeOK, Invalidate
<1>2. QED
  BY <1>1 DEF TypeOK, Invalidate

LEMMA WriterStepType ==
  ASSUME TypeOK, NEW w \in Writers
  PROVE  /\ \A k \in Keys : SendWrite(w, k) => TypeOK'
         /\ ApplyWrite(w) => TypeOK'
         /\ AcknowledgeWrite(w) => TypeOK'
         /\ FailWrite(w) => TypeOK'
<1>1. ASSUME NEW k \in Keys, SendWrite(w, k) PROVE TypeOK'
  BY <1>1 DEF SendWrite, TypeOK, Writing, StoreTypeOK, storeVars
<1>2. ASSUME ApplyWrite(w) PROVE TypeOK'
  <2>1. writing[w].key \in Keys
    BY <1>2 DEF ApplyWrite, TypeOK, Writing
  <2>2. server[writing[w].key] + 1 \in Versions
    BY <1>2, <2>1 DEF ApplyWrite, TypeOK
  <2>3. server' \in [Keys -> Versions]
    BY <1>2, <2>1, <2>2 DEF ApplyWrite, TypeOK
  <2>4. writing' \in [Writers -> Writing]
    BY <1>2, <2>1, <2>2 DEF ApplyWrite, TypeOK, Writing
  <2>5. QED
    BY <1>2, <2>3, <2>4 DEF ApplyWrite, TypeOK, StoreTypeOK, storeVars
<1>3. ASSUME AcknowledgeWrite(w) PROVE TypeOK'
  <2>1. writing[w].key \in Keys /\ writing[w].version \in Versions
    BY <1>3 DEF AcknowledgeWrite, TypeOK, Writing
  <2>2. Invalidate /\ timer' \in BOOLEAN
    BY <1>3 DEF AcknowledgeWrite, TypeOK, StoreTypeOK
  <2>3. acked' \in [Keys -> Versions]
    BY <1>3, <2>1 DEF AcknowledgeWrite, TypeOK
  <2>4. writing' \in [Writers -> Writing]
    BY <1>3 DEF AcknowledgeWrite, TypeOK, Writing
  <2>5. QED
    BY <1>3, <2>2, <2>3, <2>4, InvalidateType DEF AcknowledgeWrite, TypeOK
<1>4. ASSUME FailWrite(w) PROVE TypeOK'
  BY <1>4 DEF FailWrite, TypeOK, Writing, StoreTypeOK, storeVars
<1>5. QED
  BY <1>1, <1>2, <1>3, <1>4

LEMMA InitType == Init => TypeOK
<1> SUFFICES ASSUME Init PROVE TypeOK
  OBVIOUS
<1>1. StoreTypeOK
  BY DEF Init, StoreInit, StoreTypeOK, Entry
<1>2. calls \in [Calls -> Call]
  BY DEF Init, IdleCall, Call
<1>3. writing \in [Writers -> Writing]
  BY DEF Init, Writing
<1>4. 0 \in Versions
  OBVIOUS
<1>5. server \in [Keys -> Versions] /\ acked \in [Keys -> Versions]
  BY <1>4 DEF Init
<1>6. pending \in [PendingKeys -> Calls \cup {NoCall}]
  BY DEF Init
<1>7. generation \in Nat /\ isDestroyed \in BOOLEAN
  BY DEF Init
<1>8. QED
  BY <1>1, <1>2, <1>3, <1>5, <1>6, <1>7 DEF TypeOK

(* Every step preserves the types.                                         *)
LEMMA NextType == TypeOK /\ [Next]_vars => TypeOK'
<1> SUFFICES ASSUME TypeOK, [Next]_vars PROVE TypeOK'
  OBVIOUS
<1>1. ASSUME NEW c \in Calls,
             \/ Resolve(c) \/ Serve(c) \/ \E cacheable \in BOOLEAN : Publish(c, cacheable)
             \/ LoaderFails(c) \/ Settle(c) \/ DeliverHit(c) \/ WaitExpires(c)
      PROVE  TypeOK'
  BY <1>1, CallStepType
<1>2. CASE ClearCache
  <2>1. Invalidate /\ timer' \in BOOLEAN
    BY <1>2 DEF ClearCache, TypeOK, StoreTypeOK
  <2>2. QED
    BY <1>2, <2>1, InvalidateType DEF ClearCache, TypeOK
<1>3. CASE Destroy
  <2>1. Invalidate /\ timer' \in BOOLEAN
    BY <1>3 DEF Destroy
  <2>2. QED
    BY <1>3, <2>1, InvalidateType DEF Destroy, TypeOK
<1>4. ASSUME NEW w \in Writers,
             \/ \E k \in Keys : SendWrite(w, k)
             \/ ApplyWrite(w) \/ AcknowledgeWrite(w) \/ FailWrite(w)
      PROVE  TypeOK'
  BY <1>4, WriterStepType
<1>5. ASSUME NEW k \in Keys, ForeignWrite(k) PROVE TypeOK'
  <2>1. server[k] + 1 \in Versions
    BY <1>5 DEF ForeignWrite, TypeOK
  <2>2. QED
    BY <1>5, <2>1 DEF ForeignWrite, TypeOK, StoreTypeOK, storeVars
<1>6. CASE RemoveExpiredEntries /\ UNCHANGED cacheVars
  BY <1>6, SweepType DEF TypeOK, cacheVars
<1>7. CASE Tick /\ UNCHANGED cacheVars
  BY SMTT(30), <1>7 DEF Tick, TypeOK, StoreTypeOK, cacheVars
<1>8. CASE UNCHANGED vars
  BY <1>8 DEF vars, cacheVars, storeVars, TypeOK, StoreTypeOK
<1>9. QED
  BY <1>1, <1>2, <1>3, <1>4, <1>5, <1>6, <1>7, <1>8 DEF Next

(* The variables of the client, its cache and the server stay in their     *)
(* types; in particular a call that is to be answered has a value.         *)
THEOREM TypeCorrect == Spec => []TypeOK
BY InitType, NextType, PTL DEF Spec

-------------------------------------------------------------------------------
(* Safety.                                                                 *)

(* The invariant's parts that speak about offers and loaders hold after a  *)
(* call begins, when what it is given is as new as what is acknowledged    *)
(* and its loader is offered exactly when nothing else is.                 *)
LEMMA BeginInv ==
  ASSUME IInv, TypeOK', NEW c \in Calls, NEW k \in Keys, NEW t \in Timeouts,
         NEW stage \in {"loading", "hit", "joined"},
         NEW keyed \in BOOLEAN, NEW bounded \in BOOLEAN,
         NEW of \in Calls \cup {NoCall}, NEW value \in Versions \cup {Nothing},
         Begin(c, stage, k, t, keyed, bounded, of, value),
         Kept,
         value # Nothing => stage = "hit" /\ acked[k] <= value /\ value <= server[k],
         stage = "joined" => /\ of \in Calls /\ InFlight(of)
                             /\ calls[of].key = k /\ calls[of].gen = generation,
         IF stage = "loading" /\ keyed /\ ~ bounded
         THEN pending[<<k, t>>] = NoCall /\ pending' = [pending EXCEPT ![<<k, t>>] = c]
         ELSE pending' = pending
  PROVE  IInv'
<1> USE DEF IInv
<1>1. /\ ~ Running(c) /\ ~ InFlight(c) /\ ~ Shared(c)
      /\ \A d \in Calls \ {c} : calls'[d] = calls[d]
      /\ generation' = generation /\ server' = server /\ acked' = acked
      /\ writing' = writing
  BY DEF Begin, Running, InFlight, Shared, TypeOK
<1>2. calls'[c] = [stage |-> stage, key |-> k, timeout |-> t, keyed |-> keyed,
                   bounded |-> bounded, gen |-> generation, of |-> of,
                   value |-> value, failed |-> FALSE, floor |-> acked[k]]
  BY DEF Begin, TypeOK
<1>3. AcknowledgedIsServed'
  BY <1>1 DEF AcknowledgedIsServed
<1>4. EntriesAreFresh'
  BY <1>1 DEF EntriesAreFresh, Kept
<1>5. LoadersAreFresh'
  <2> SUFFICES ASSUME NEW d \in Calls, Running(d)'
               PROVE  (/\ calls[d].gen <= generation
                       /\ calls[d].floor <= server[calls[d].key]
                       /\ calls[d].value <= server[calls[d].key]
                       /\ calls[d].value # Nothing =>
                            /\ calls[d].floor <= calls[d].value
                            /\ InFlight(d) /\ calls[d].gen = generation
                                 => acked[calls[d].key] <= calls[d].value)'
    BY DEF LoadersAreFresh
  <2>1. CASE d = c
    <3>1. server[k] \in Nat
      BY DEF TypeOK
    <3>2. QED
      BY <1>1, <1>2, <2>1, <3>1 DEF AcknowledgedIsServed, TypeOK, InFlight, Nothing
  <2>2. CASE d # c
    BY <1>1, <2>2 DEF LoadersAreFresh, Running, InFlight
  <2>3. QED
    BY <2>1, <2>2
<1>6. JoinersAreFresh'
  <2> SUFFICES ASSUME NEW d \in Calls, (calls[d].stage = "joined")'
               PROVE  (/\ calls[d].of \in Calls /\ InFlight(calls[d].of)
                       /\ calls[calls[d].of].key = calls[d].key
                       /\ calls[d].value = Nothing
                       /\ calls[calls[d].of].value # Nothing
                            => calls[d].floor <= calls[calls[d].of].value)'
    BY DEF JoinersAreFresh
  <2>1. CASE d = c
    <3>1. of \in Calls \ {c} /\ value = Nothing
      BY <1>1, <1>2, <2>1
    <3>2. calls[of].value # Nothing => acked[k] <= calls[of].value
      BY <1>2, <2>1 DEF LoadersAreFresh, InFlight, Running
    <3>3. QED
      BY <1>1, <1>2, <2>1, <3>1, <3>2 DEF InFlight
  <2>2. CASE d # c
    <3>1. calls[d].stage = "joined" /\ calls[d].of \in Calls \ {c}
      BY <1>1, <2>2 DEF JoinersAreFresh
    <3>2. QED
      BY <1>1, <2>2, <3>1 DEF JoinersAreFresh, InFlight
  <2>3. QED
    BY <2>1, <2>2
<1>7. \A d \in Calls \ {c} : Shared(d)' = Shared(d) /\ PendingKey(d)' = PendingKey(d)
  BY <1>1 DEF Shared, InFlight, PendingKey
<1>8. /\ Shared(c)' <=> stage = "loading" /\ keyed /\ ~ bounded
      /\ PendingKey(c)' = <<k, t>> /\ calls'[c].gen = generation
  BY <1>2 DEF Shared, InFlight, PendingKey
<1> DEFINE offers == stage = "loading" /\ keyed /\ ~ bounded
<1>9. /\ <<k, t>> \in PendingKeys
      /\ \A pk \in PendingKeys : pending[pk] \in Calls \cup {NoCall}
      /\ pending \in [PendingKeys -> Calls \cup {NoCall}]
  BY DEF PendingKeys, TypeOK
<1>10. \A pk \in PendingKeys :
         pending'[pk] = IF offers /\ pk = <<k, t>> THEN c ELSE pending[pk]
  <2>1. CASE offers
    <3>1. pending' = [pending EXCEPT ![<<k, t>>] = c]
      BY <2>1
    <3>2. QED
      BY <1>9, <2>1, <3>1
  <2>2. CASE ~ offers
    <3>1. pending' = pending
      BY <2>2
    <3>2. QED
      BY <2>2, <3>1
  <2>3. QED
    BY <2>1, <2>2
<1>11. /\ Shared(c)' <=> offers
       /\ PendingKey(c)' = <<k, t>> /\ calls'[c].gen = generation
  BY <1>8
<1> HIDE DEF offers
<1>12. OffersAreLive'
  <2> SUFFICES ASSUME NEW pk \in PendingKeys, pending'[pk] # NoCall
               PROVE  /\ Shared(pending[pk])' /\ PendingKey(pending[pk])' = pk
                      /\ calls'[pending'[pk]].gen = generation'
    BY DEF OffersAreLive
  <2>1. CASE offers /\ pk = <<k, t>>
    <3>1. pending'[pk] = c
      BY <1>10, <2>1
    <3>2. QED
      BY <1>1, <1>11, <2>1, <3>1 DEF Shared, InFlight, PendingKey
  <2>2. CASE ~ (offers /\ pk = <<k, t>>)
    <3>1. pending'[pk] = pending[pk] /\ pending[pk] \in Calls
      BY <1>9, <1>10, <2>2
    <3>2. /\ Shared(pending[pk]) /\ PendingKey(pending[pk]) = pk
          /\ calls[pending[pk]].gen = generation
      BY <3>1 DEF OffersAreLive
    <3>3. pending[pk] # c /\ calls'[pending'[pk]] = calls[pending[pk]]
      BY <1>1, <3>1, <3>2
    <3>4. QED
      BY <1>1, <3>2, <3>3 DEF Shared, InFlight, PendingKey
  <2>3. QED
    BY <2>1, <2>2
<1>13. SharedIsOffered'
  <2> SUFFICES ASSUME NEW d \in Calls, Shared(d)', calls'[d].gen = generation'
               PROVE  pending'[PendingKey(d)'] = d
    BY DEF SharedIsOffered
  <2>1. CASE d = c
    BY <1>9, <1>10, <1>11, <2>1
  <2>2. CASE d # c
    <3>1. pending[PendingKey(d)] = d /\ PendingKey(d)' = PendingKey(d)
      BY <1>1, <1>7, <2>2 DEF SharedIsOffered
    <3>2. PendingKey(d) \in PendingKeys
      BY <1>1, <2>2, RunningType
         DEF Shared, InFlight, Running, PendingKey, PendingKeys, RunningCall, CallFields
    <3>3. QED
      BY <1>10, <3>1, <3>2
  <2>3. QED
    BY <2>1, <2>2
<1>14. OneLoaderPerGeneration'
  <2> SUFFICES ASSUME NEW d \in Calls, NEW e \in Calls, d # e,
                      Shared(d)', Shared(e)', PendingKey(d)' = PendingKey(e)'
               PROVE  calls'[d].gen # calls'[e].gen
    BY DEF OneLoaderPerGeneration
  <2>1. CASE d # c /\ e # c
    BY <1>1, <1>7, <2>1 DEF OneLoaderPerGeneration
  <2>2. CASE d = c \/ e = c
    BY <1>1, <1>11, <1>13, <2>2 DEF SharedIsOffered
  <2>3. QED
    BY <2>1, <2>2
<1>15. ReadsSeeAcknowledgedWrites'
  BY <1>1, <1>2 DEF ReadsSeeAcknowledgedWrites
<1>16. QED
  BY <1>3, <1>4, <1>5, <1>6, <1>12, <1>13, <1>14, <1>15

LEMMA ResolveInv ==
  ASSUME IInv, TypeOK', NEW c \in Calls, Resolve(c)
  PROVE  IInv'
<1> USE DEF IInv
<1>1. ASSUME NEW k \in Keys, ResolveUncached(c, k) PROVE IInv'
  <2> DEFINE t == CHOOSE x \in Timeouts : TRUE
  <2>1. t \in Timeouts
    OBVIOUS
  <2> HIDE DEF t
  <2>2. /\ Begin(c, "loading", k, t, FALSE, TRUE, NoCall, Nothing)
        /\ Kept /\ pending' = pending
    BY <1>1 DEF ResolveUncached, t, storeVars, Kept
  <2>3. QED
    BY <2>1, <2>2, BeginInv
<1>2. ASSUME NEW k \in Keys, NEW t \in Timeouts, NEW bounded \in BOOLEAN,
             ResolveHit(c, k, t, bounded)
      PROVE  IInv'
  <2>1. k \in DOMAIN entries /\ entries[k].data \in Versions
    BY <1>2 DEF ResolveHit, ReadHit, Live, TypeOK, StoreTypeOK, Entry
  <2>2. acked[k] <= entries[k].data /\ entries[k].data <= server[k]
    BY <2>1 DEF EntriesAreFresh, TypeOK
  <2>3. /\ Begin(c, "hit", k, t, TRUE, bounded, NoCall, entries[k].data)
        /\ Kept /\ pending' = pending
    BY <1>2, ReadType DEF ResolveHit, TypeOK
  <2>4. QED
    BY <2>1, <2>2, <2>3, BeginInv
<1>3. ASSUME NEW k \in Keys, NEW t \in Timeouts, NEW bounded \in BOOLEAN,
             ResolveJoin(c, k, t, bounded)
      PROVE  IInv'
  <2> DEFINE of == pending[<<k, t>>]
  <2>1. of \in Calls /\ <<k, t>> \in PendingKeys
    BY <1>3 DEF ResolveJoin, TypeOK, PendingKeys
  <2>2. /\ InFlight(of) /\ calls[of].key = k /\ calls[of].gen = generation
    BY <1>3, <2>1 DEF ResolveJoin, OffersAreLive, Shared, PendingKey
  <2>3. /\ Begin(c, "joined", k, t, TRUE, bounded, of, Nothing)
        /\ Kept /\ pending' = pending
    BY <1>3, ReadType DEF ResolveJoin, TypeOK
  <2> HIDE DEF of
  <2>4. QED
    BY <2>1, <2>2, <2>3, BeginInv
<1>4. ASSUME NEW k \in Keys, NEW t \in Timeouts, NEW bounded \in BOOLEAN,
             ResolveLoad(c, k, t, bounded)
      PROVE  IInv'
  <2>1. /\ Begin(c, "loading", k, t, TRUE, bounded, NoCall, Nothing)
        /\ Kept /\ pending[<<k, t>>] = NoCall
        /\ pending' = IF bounded THEN pending ELSE [pending EXCEPT ![<<k, t>>] = c]
    BY <1>4, ReadType DEF ResolveLoad, TypeOK
  <2>2. QED
    BY <2>1, BeginInv
<1>5. QED
  BY <1>1, <1>2, <1>3, <1>4 DEF Resolve

(* A step that gives a loader another answer, or ends its loading, leaves  *)
(* every other call and every offer alone.                                 *)
LEMMA LoaderStepInv ==
  ASSUME IInv, TypeOK', NEW c \in Calls,
         calls[c].stage = "loading",
         NEW stage \in {"loading", "settling"}, NEW failed \in BOOLEAN,
         NEW value \in {calls[c].value, server[calls[c].key]},
         calls' = [calls EXCEPT ![c] =
                     [calls[c] EXCEPT !.stage = stage, !.failed = failed, !.value = value]],
         EntriesAreFresh',
         UNCHANGED <<pending, generation, server, writing, acked>>
  PROVE  IInv'
<1> USE DEF IInv
<1>1. /\ calls[c] \in RunningCall
      /\ \A d \in Calls \ {c} : calls'[d] = calls[d]
      /\ generation' = generation /\ server' = server /\ acked' = acked
      /\ writing' = writing /\ pending' = pending
  BY RunningType DEF Running, TypeOK
<1>2. /\ calls'[c].stage = stage /\ calls'[c].value = value
      /\ calls'[c].key = calls[c].key /\ calls'[c].timeout = calls[c].timeout
      /\ calls'[c].keyed = calls[c].keyed /\ calls'[c].bounded = calls[c].bounded
      /\ calls'[c].gen = calls[c].gen /\ calls'[c].floor = calls[c].floor
  BY <1>1 DEF TypeOK, RunningCall, CallFields
<1>3. /\ calls[c].floor \in Nat /\ acked[calls[c].key] \in Nat
      /\ server[calls[c].key] \in Nat /\ acked[calls[c].key] <= server[calls[c].key]
      /\ calls[c].floor <= server[calls[c].key] /\ calls[c].value <= server[calls[c].key]
  BY <1>1 DEF TypeOK, RunningCall, CallFields, AcknowledgedIsServed, LoadersAreFresh, Running
<1>4. AcknowledgedIsServed'
  BY <1>1 DEF AcknowledgedIsServed
<1>5. LoadersAreFresh'
  BY <1>1, <1>2, <1>3 DEF LoadersAreFresh, Running, InFlight
<1>6. JoinersAreFresh'
  <2> SUFFICES ASSUME NEW d \in Calls, (calls[d].stage = "joined")'
               PROVE  (/\ calls[d].of \in Calls /\ InFlight(calls[d].of)
                       /\ calls[calls[d].of].key = calls[d].key
                       /\ calls[d].value = Nothing
                       /\ calls[calls[d].of].value # Nothing
                            => calls[d].floor <= calls[calls[d].of].value)'
    BY DEF JoinersAreFresh
  <2>1. d # c /\ calls'[d] = calls[d]
    BY <1>1, <1>2
  <2>2. /\ calls[d].of \in Calls /\ InFlight(calls[d].of)
        /\ calls[calls[d].of].key = calls[d].key /\ calls[d].value = Nothing
        /\ calls[calls[d].of].value # Nothing
             => calls[d].floor <= calls[calls[d].of].value
        /\ calls[d].floor <= server[calls[d].key]
    BY <2>1 DEF JoinersAreFresh, LoadersAreFresh, Running
  <2>3. QED
    BY <1>1, <1>2, <2>1, <2>2 DEF InFlight
<1>7. \A d \in Calls : Shared(d)' = Shared(d) /\ PendingKey(d)' = PendingKey(d)
                       /\ calls'[d].gen = calls[d].gen
  BY <1>1, <1>2 DEF Shared, InFlight, PendingKey
<1>8. OffersAreLive'
  <2> SUFFICES ASSUME NEW pk \in PendingKeys, pending[pk] # NoCall
               PROVE  /\ Shared(pending[pk])' /\ PendingKey(pending[pk])' = pk
                      /\ calls'[pending[pk]].gen = generation
    BY <1>1 DEF OffersAreLive
  <2>1. pending[pk] \in Calls
    BY DEF TypeOK
  <2>2. /\ Shared(pending[pk]) /\ PendingKey(pending[pk]) = pk
        /\ calls[pending[pk]].gen = generation
    BY DEF OffersAreLive
  <2>3. QED
    BY <1>1, <1>2, <2>1, <2>2 DEF Shared, InFlight, PendingKey
<1>9. SharedIsOffered'
  BY <1>1, <1>7 DEF SharedIsOffered
<1>10. OneLoaderPerGeneration'
  BY <1>7 DEF OneLoaderPerGeneration
<1>11. ReadsSeeAcknowledgedWrites'
  BY <1>1, <1>2 DEF ReadsSeeAcknowledgedWrites
<1>12. QED
  BY <1>4, <1>5, <1>6, <1>8, <1>9, <1>10, <1>11

(* A step that ends calls, each with a failure or with a value that is new *)
(* enough, and withdraws exactly their offers, when nobody waits for a     *)
(* call that ends.                                                         *)
LEMMA EndInv ==
  ASSUME IInv, TypeOK', NEW ended \in SUBSET Calls,
         \A d \in Calls \ ended : calls'[d] = calls[d],
         \A d \in ended :
           \/ calls'[d].stage = "failed"
           \/ calls'[d].stage = "answered" /\ calls'[d].value >= calls'[d].floor,
         \A d \in Calls \ ended : calls[d].stage = "joined" => calls[d].of \notin ended,
         \A pk \in PendingKeys :
           pending'[pk] = IF pending[pk] \in ended THEN NoCall ELSE pending[pk],
         UNCHANGED <<storeVars, generation, server, writing, acked>>
  PROVE  IInv'
<1> USE DEF IInv
<1>1. /\ entries' = entries /\ generation' = generation
      /\ server' = server /\ acked' = acked /\ writing' = writing
  BY DEF storeVars
<1>2. /\ \A d \in ended : ~ Running(d)' /\ ~ InFlight(d)' /\ ~ Shared(d)'
                          /\ calls'[d].stage # "joined"
      /\ \A d \in Calls \ ended :
           /\ Running(d)' = Running(d) /\ InFlight(d)' = InFlight(d)
           /\ Shared(d)' = Shared(d) /\ PendingKey(d)' = PendingKey(d)
  BY DEF Running, InFlight, Shared, PendingKey
<1>3. AcknowledgedIsServed'
  BY <1>1 DEF AcknowledgedIsServed
<1>4. EntriesAreFresh'
  BY <1>1 DEF EntriesAreFresh
<1>5. LoadersAreFresh'
  BY <1>1, <1>2 DEF LoadersAreFresh
<1>6. JoinersAreFresh'
  BY <1>1, <1>2 DEF JoinersAreFresh
<1>7. OffersAreLive'
  <2> SUFFICES ASSUME NEW pk \in PendingKeys, pending'[pk] # NoCall
               PROVE  /\ Shared(pending[pk])' /\ PendingKey(pending[pk])' = pk
                      /\ calls'[pending'[pk]].gen = generation'
    BY DEF OffersAreLive
  <2>1. pending'[pk] = pending[pk] /\ pending[pk] \in Calls \ ended
    BY DEF TypeOK
  <2>2. /\ Shared(pending[pk]) /\ PendingKey(pending[pk]) = pk
        /\ calls[pending[pk]].gen = generation
    BY <2>1 DEF OffersAreLive
  <2>3. QED
    BY <1>1, <2>1, <2>2 DEF Shared, InFlight, PendingKey
<1>8. SharedIsOffered'
  <2> SUFFICES ASSUME NEW d \in Calls, Shared(d)', calls'[d].gen = generation'
               PROVE  pending'[PendingKey(d)'] = d
    BY DEF SharedIsOffered
  <2>1. /\ d \in Calls \ ended /\ Shared(d) /\ calls[d].gen = generation
        /\ PendingKey(d)' = PendingKey(d)
    BY <1>1, <1>2
  <2>2. PendingKey(d) \in PendingKeys
    BY <2>1, RunningType
       DEF Shared, InFlight, Running, PendingKey, PendingKeys, RunningCall, CallFields
  <2>3. QED
    BY <2>1, <2>2 DEF SharedIsOffered
<1>9. OneLoaderPerGeneration'
  BY <1>2 DEF OneLoaderPerGeneration
<1>10. ReadsSeeAcknowledgedWrites'
  BY DEF ReadsSeeAcknowledgedWrites
<1>11. QED
  BY <1>3, <1>4, <1>5, <1>6, <1>7, <1>8, <1>9, <1>10

LEMMA CallStepInv ==
  ASSUME IInv, TypeOK', NEW c \in Calls
  PROVE  /\ Serve(c) => IInv'
         /\ \A cacheable \in BOOLEAN : Publish(c, cacheable) => IInv'
         /\ LoaderFails(c) => IInv'
         /\ Settle(c) => IInv'
         /\ DeliverHit(c) => IInv'
         /\ WaitExpires(c) => IInv'
<1> USE DEF IInv
<1>1. ASSUME calls[c].stage = "loading"
      PROVE  /\ calls[c] \in RunningCall /\ calls[c] \in CallFields
             /\ calls[c] = [calls[c] EXCEPT !.stage = "loading",
                              !.failed = calls[c].failed, !.value = calls[c].value]
  BY <1>1, RunningType DEF Running, RunningCall, CallFields
<1>2. ASSUME Serve(c) PROVE IInv'
  <2>1. calls[c].stage = "loading" /\ calls[c] \in CallFields
    BY <1>1, <1>2 DEF Serve
  <2>2. calls' = [calls EXCEPT ![c] = [calls[c] EXCEPT !.stage = "loading",
                     !.failed = calls[c].failed, !.value = server[calls[c].key]]]
    BY ZenonT(30), <1>2, <2>1 DEF Serve, CallFields, TypeOK
  <2>3. EntriesAreFresh'
    BY <1>2 DEF Serve, storeVars, EntriesAreFresh
  <2>4. calls[c].failed \in BOOLEAN
    BY <2>1 DEF CallFields
  <2>5. QED
    BY <1>2, <2>1, <2>2, <2>3, <2>4, LoaderStepInv DEF Serve
<1>3. ASSUME NEW cacheable \in BOOLEAN, Publish(c, cacheable) PROVE IInv'
  <2>1. /\ calls[c].stage = "loading" /\ calls[c] \in CallFields
        /\ calls[c].value \in Versions /\ calls[c].key \in Keys
    BY <1>1, <1>3 DEF Publish, CallFields
  <2>2. calls' = [calls EXCEPT ![c] = [calls[c] EXCEPT !.stage = "settling",
                     !.failed = calls[c].failed, !.value = calls[c].value]]
    BY <1>3, <2>1 DEF Publish, CallFields, TypeOK
  <2>3. EntriesAreFresh'
    <3>1. CASE UNCHANGED storeVars
      BY <1>3, <3>1 DEF Publish, storeVars, EntriesAreFresh
    <3>2. CASE calls[c].gen = generation /\ Write(calls[c].key, calls[c].value)
      <4>1. /\ acked[calls[c].key] <= calls[c].value /\ acked' = acked
            /\ calls[c].value <= server[calls[c].key] /\ server' = server
        BY <1>3, <2>1, <3>2 DEF Publish, LoadersAreFresh, Running, InFlight
      <4>2. \A j \in DOMAIN entries' :
              \/ j = calls[c].key /\ entries'[j].data = calls[c].value
              \/ j \in DOMAIN entries /\ entries'[j] = entries[j]
        BY <2>1, <3>2, WriteType DEF TypeOK
      <4>3. calls[c].value \in Nat /\ acked[calls[c].key] \in Nat
        BY <2>1 DEF TypeOK
      <4>4. QED
        BY <4>1, <4>2, <4>3 DEF EntriesAreFresh
    <3>3. QED
      BY <1>3, <3>1, <3>2 DEF Publish
  <2>4. calls[c].failed \in BOOLEAN
    BY <2>1 DEF CallFields
  <2>5. QED
    BY <1>3, <2>1, <2>2, <2>3, <2>4, LoaderStepInv DEF Publish
<1>4. ASSUME LoaderFails(c) PROVE IInv'
  <2>1. calls[c].stage = "loading" /\ calls[c] \in CallFields
    BY <1>1, <1>4 DEF LoaderFails
  <2>2. calls' = [calls EXCEPT ![c] = [calls[c] EXCEPT !.stage = "settling",
                     !.failed = TRUE, !.value = calls[c].value]]
    BY <1>4, <2>1 DEF LoaderFails, CallFields, TypeOK
  <2>3. EntriesAreFresh'
    BY <1>4 DEF LoaderFails, storeVars, EntriesAreFresh
  <2>4. QED
    BY <1>4, <2>1, <2>2, <2>3, LoaderStepInv DEF LoaderFails
<1>5. ASSUME Settle(c) PROVE IInv'
  <2> DEFINE ended == {d \in Calls : d = c \/ (calls[d].stage = "joined" /\ calls[d].of = c)}
  <2>1. /\ calls[c].stage = "settling" /\ calls[c] \in RunningCall
        /\ calls[c] \in CallFields /\ Received(calls[c])
    BY <1>5, RunningType DEF Settle, Running, RunningCall
  <2>2. ASSUME NEW d \in ended
        PROVE  \/ calls'[d].stage = "failed"
               \/ calls'[d].stage = "answered" /\ calls'[d].value >= calls'[d].floor
    <3>1. calls'[d] = Ended(d, calls[c].failed, calls[c].value)
      BY <1>5 DEF Settle
    <3>2. CASE calls[c].failed
      BY <3>1, <3>2 DEF Ended
    <3>3. CASE ~ calls[c].failed
      <4>1. calls[c].value # Nothing
        BY <2>1, <3>3 DEF Received
      <4>2. calls[d].floor <= calls[c].value
        BY <2>1, <4>1 DEF LoadersAreFresh, JoinersAreFresh, Running
      <4>3. calls[d] \in RunningCall
        BY <2>1, RunningType DEF Running
      <4>4. calls[d].floor \in Nat /\ calls[c].value \in Nat
        BY <2>1, <4>1, <4>3 DEF RunningCall, CallFields
      <4>5. QED
        BY <3>1, <3>3, <4>2, <4>4 DEF Ended
    <3>4. QED
      BY <3>2, <3>3
  <2>3. \A d \in Calls \ ended : calls'[d] = calls[d]
    BY <1>5 DEF Settle
  <2>4. \A d \in Calls \ ended : calls[d].stage = "joined" => calls[d].of \notin ended
    BY <2>1 DEF JoinersAreFresh, InFlight
  <2>5. ASSUME NEW pk \in PendingKeys
        PROVE  pending'[pk] = IF pending[pk] \in ended THEN NoCall ELSE pending[pk]
    <3>1. pending[pk] # c /\ pending[pk] # NoCall => pending[pk] \notin ended
      BY DEF OffersAreLive, Shared, InFlight
    <3>2. pending[pk] = c => PendingKey(c) = pk
      BY DEF OffersAreLive
    <3>3. PendingKey(c) \in PendingKeys
      BY <2>1 DEF PendingKey, PendingKeys, CallFields
    <3>4. pending'[pk] = IF pk = PendingKey(c) /\ pending[pk] = c THEN NoCall ELSE pending[pk]
      BY <1>5, <3>3 DEF Settle, TypeOK
    <3>5. c \in ended /\ NoCall \notin ended
      OBVIOUS
    <3>6. QED
      BY <3>1, <3>2, <3>4, <3>5
  <2>6. ended \in SUBSET Calls
    OBVIOUS
  <2>7. UNCHANGED <<storeVars, generation, server, writing, acked>>
    BY <1>5 DEF Settle
  <2> HIDE DEF ended
  <2>8. QED
    BY <2>2, <2>3, <2>4, <2>5, <2>6, <2>7, EndInv
<1>6. ASSUME DeliverHit(c) \/ WaitExpires(c) PROVE IInv'
  <2>1. calls[c].stage \in {"hit", "joined"} /\ calls[c] \in RunningCall
    BY <1>6, RunningType DEF DeliverHit, WaitExpires, Running
  <2>2. \/ calls'[c].stage = "failed"
        \/ calls'[c].stage = "answered" /\ calls'[c].value >= calls'[c].floor
    <3>1. CASE DeliverHit(c)
      <4>1. calls[c].value # Nothing /\ calls[c].stage = "hit"
        BY <2>1, <3>1 DEF DeliverHit, RunningCall, Received
      <4>2. calls[c].floor <= calls[c].value
        BY <4>1 DEF LoadersAreFresh, Running
      <4>3. calls[c].floor \in Nat /\ calls[c].value \in Nat
        BY <2>1, <4>1 DEF RunningCall, CallFields
      <4>4. QED
        BY <3>1, <4>2, <4>3 DEF DeliverHit, Ended, TypeOK
    <3>2. CASE WaitExpires(c)
      BY <3>2 DEF WaitExpires, Ended, TypeOK
    <3>3. QED
      BY <1>6, <3>1, <3>2
  <2>3. \A d \in Calls \ {c} : calls'[d] = calls[d]
    BY <1>6 DEF DeliverHit, WaitExpires, TypeOK
  <2>4. \A d \in Calls : calls[d].stage = "joined" => calls[d].of # c
    BY <2>1 DEF JoinersAreFresh, InFlight
  <2>5. \A pk \in PendingKeys : pending[pk] # c /\ pending'[pk] = pending[pk]
    BY <1>6, <2>1 DEF OffersAreLive, Shared, InFlight, DeliverHit, WaitExpires
  <2>6. UNCHANGED <<storeVars, generation, server, writing, acked>>
    BY <1>6 DEF DeliverHit, WaitExpires
  <2> DEFINE ended == {c}
  <2>7. /\ ended \in SUBSET Calls /\ c \in ended /\ \A d \in Calls : d \in ended <=> d = c
        /\ \A d \in ended : d = c
        /\ \A pk \in PendingKeys : pending[pk] \notin ended
    BY <2>5
  <2> HIDE DEF ended
  <2>8. QED
    BY <2>2, <2>3, <2>4, <2>5, <2>6, <2>7, EndInv
<1>7. QED
  BY <1>2, <1>3, <1>4, <1>5, <1>6

(* An invalidation makes every former loader one of an older generation.   *)
LEMMA InvalidateInv ==
  ASSUME IInv, TypeOK', Invalidate, UNCHANGED <<calls, server>>, AcknowledgedIsServed'
  PROVE  IInv'
<1> USE DEF IInv
<1>1. /\ calls' = calls /\ server' = server /\ generation' = generation + 1
      /\ generation \in Nat /\ DOMAIN entries' = {}
      /\ \A pk \in PendingKeys : pending'[pk] = NoCall
  BY DEF Invalidate, Clear, TypeOK
<1>2. ASSUME NEW c \in Calls, Running(c)
      PROVE  calls'[c].gen < generation'
  <2>1. calls[c].gen \in Nat /\ calls[c].gen <= generation
    BY <1>2, RunningType DEF LoadersAreFresh, RunningCall, CallFields
  <2>2. QED
    BY <1>1, <2>1
<1>3. EntriesAreFresh'
  BY <1>1 DEF EntriesAreFresh
<1>4. LoadersAreFresh'
  <2> SUFFICES ASSUME NEW c \in Calls, Running(c)
               PROVE  (/\ calls[c].gen <= generation /\ calls[c].gen # generation
                       /\ calls[c].floor <= server[calls[c].key]
                       /\ calls[c].value <= server[calls[c].key]
                       /\ calls[c].value # Nothing => calls[c].floor <= calls[c].value)'
    BY <1>1 DEF LoadersAreFresh, InFlight, Running
  <2>1. calls[c].gen \in Nat /\ generation' \in Nat
    BY <1>1, RunningType DEF RunningCall, CallFields
  <2>2. QED
    BY <1>1, <1>2, <2>1 DEF LoadersAreFresh
<1>5. JoinersAreFresh'
  BY <1>1 DEF JoinersAreFresh, InFlight
<1>6. OffersAreLive'
  BY <1>1 DEF OffersAreLive
<1>7. SharedIsOffered'
  <2> SUFFICES ASSUME NEW c \in Calls, Shared(c)
               PROVE  calls'[c].gen # generation'
    BY <1>1 DEF SharedIsOffered, Shared, InFlight
  <2>1. Running(c)
    BY DEF Shared, InFlight, Running
  <2>2. calls[c].gen \in Nat /\ generation' \in Nat
    BY <1>1, <2>1, RunningType DEF RunningCall, CallFields
  <2>3. QED
    BY <1>1, <1>2, <2>1, <2>2
<1>8. OneLoaderPerGeneration'
  BY <1>1 DEF OneLoaderPerGeneration, Shared, InFlight, PendingKey
<1>9. ReadsSeeAcknowledgedWrites'
  BY <1>1 DEF ReadsSeeAcknowledgedWrites
<1>10. QED
  BY <1>3, <1>4, <1>5, <1>6, <1>7, <1>8, <1>9

(* Steps that touch neither calls nor offers, add nothing to the store and *)
(* only move the server forward.                                           *)
LEMMA QuietInv ==
  ASSUME IInv, TypeOK', Kept, UNCHANGED <<calls, pending, generation, acked>>,
         \A k \in Keys : server[k] <= server'[k], AcknowledgedIsServed'
  PROVE  IInv'
<1> USE DEF IInv
<1>1. /\ calls' = calls /\ pending' = pending /\ generation' = generation /\ acked' = acked
  OBVIOUS
<1>2. \A c \in Calls : /\ Running(c)' = Running(c) /\ InFlight(c)' = InFlight(c)
                        /\ Shared(c)' = Shared(c) /\ PendingKey(c)' = PendingKey(c)
  BY <1>1 DEF Running, InFlight, Shared, PendingKey
<1>3. EntriesAreFresh'
  <2> SUFFICES ASSUME NEW k \in DOMAIN entries'
               PROVE  acked[k] <= entries'[k].data /\ entries'[k].data <= server'[k]
    BY <1>1 DEF EntriesAreFresh
  <2>1. k \in DOMAIN entries /\ entries'[k] = entries[k] /\ k \in Keys
    BY DEF Kept, TypeOK, StoreTypeOK
  <2>2. entries[k].data \in Nat /\ server[k] \in Nat /\ server'[k] \in Nat
    BY <2>1 DEF TypeOK, StoreTypeOK, Entry
  <2>3. QED
    BY <2>1, <2>2 DEF EntriesAreFresh
<1>4. LoadersAreFresh'
  <2> SUFFICES ASSUME NEW c \in Calls, Running(c)
               PROVE  /\ calls[c].floor <= server'[calls[c].key]
                      /\ calls[c].value <= server'[calls[c].key]
    BY <1>1, <1>2 DEF LoadersAreFresh
  <2>1. calls[c].key \in Keys /\ calls[c].floor \in Int /\ calls[c].value \in Int
    BY RunningType DEF RunningCall, CallFields, Nothing
  <2>2. server[calls[c].key] \in Nat /\ server'[calls[c].key] \in Nat
    BY <2>1 DEF TypeOK
  <2>3. QED
    BY <2>1, <2>2 DEF LoadersAreFresh
<1>5. JoinersAreFresh'
  BY <1>1, <1>2 DEF JoinersAreFresh
<1>6. OffersAreLive'
  <2> SUFFICES ASSUME NEW pk \in PendingKeys, pending[pk] # NoCall
               PROVE  /\ Shared(pending[pk])' /\ PendingKey(pending[pk])' = pk
                      /\ calls[pending[pk]].gen = generation
    BY <1>1 DEF OffersAreLive
  <2>1. pending[pk] \in Calls
    BY DEF TypeOK
  <2>2. QED
    BY <1>2, <2>1 DEF OffersAreLive
<1>7. SharedIsOffered'
  BY <1>1, <1>2 DEF SharedIsOffered
<1>8. OneLoaderPerGeneration'
  BY <1>1, <1>2 DEF OneLoaderPerGeneration
<1>9. ReadsSeeAcknowledgedWrites'
  BY <1>1 DEF ReadsSeeAcknowledgedWrites
<1>10. QED
  BY <1>3, <1>4, <1>5, <1>6, <1>7, <1>8, <1>9

LEMMA InitInv == Init => IInv
<1> SUFFICES ASSUME Init PROVE IInv
  OBVIOUS
<1>1. TypeOK
  BY InitType
<1>2. AcknowledgedIsServed
  BY DEF Init, AcknowledgedIsServed
<1>3. EntriesAreFresh
  BY DEF Init, StoreInit, EntriesAreFresh
<1>4. \A c \in Calls : calls[c].stage = "idle"
  BY DEF Init, IdleCall
<1>5. OffersAreLive
  BY DEF Init, OffersAreLive
<1>6. QED
  BY <1>1, <1>2, <1>3, <1>4, <1>5
     DEF IInv, LoadersAreFresh, JoinersAreFresh, SharedIsOffered, OneLoaderPerGeneration,
         ReadsSeeAcknowledgedWrites, Running, Shared, InFlight

LEMMA NextInv == IInv /\ [Next]_vars => IInv'
<1> SUFFICES ASSUME IInv, [Next]_vars PROVE IInv'
  OBVIOUS
<1>1. TypeOK /\ TypeOK'
  BY NextType DEF IInv
<1>2. ASSUME NEW c \in Calls,
             \/ Resolve(c) \/ Serve(c) \/ \E cacheable \in BOOLEAN : Publish(c, cacheable)
             \/ LoaderFails(c) \/ Settle(c) \/ DeliverHit(c) \/ WaitExpires(c)
      PROVE  IInv'
  BY <1>1, <1>2, ResolveInv, CallStepInv
<1>3. CASE ClearCache \/ Destroy
  <2>1. AcknowledgedIsServed'
    BY <1>3 DEF ClearCache, Destroy, IInv, AcknowledgedIsServed
  <2>2. QED
    BY <1>1, <1>3, <2>1, InvalidateInv DEF ClearCache, Destroy
<1>4. ASSUME NEW w \in Writers, AcknowledgeWrite(w) PROVE IInv'
  <2>1. /\ writing[w].key \in Keys /\ writing[w].version \in Versions
        /\ writing[w].version <= server[writing[w].key]
    BY <1>1, <1>4 DEF AcknowledgeWrite, TypeOK, Writing, IInv, AcknowledgedIsServed
  <2>2. AcknowledgedIsServed'
    BY <1>1, <1>4, <2>1 DEF AcknowledgeWrite, TypeOK, IInv, AcknowledgedIsServed
  <2>3. QED
    BY <1>1, <1>4, <2>2, InvalidateInv DEF AcknowledgeWrite
<1>5. ASSUME NEW w \in Writers, NEW k \in Keys, SendWrite(w, k) PROVE IInv'
  <2>1. AcknowledgedIsServed'
    BY <1>1, <1>5 DEF SendWrite, TypeOK, IInv, AcknowledgedIsServed
  <2>2. Kept /\ \A j \in Keys : server[j] <= server'[j]
    BY <1>1, <1>5 DEF SendWrite, storeVars, Kept, TypeOK
  <2>3. QED
    BY <1>1, <1>5, <2>1, <2>2, QuietInv DEF SendWrite
<1>6. ASSUME NEW w \in Writers, ApplyWrite(w) PROVE IInv'
  <2>1. writing[w].key \in Keys
    BY <1>1, <1>6 DEF ApplyWrite, TypeOK, Writing
  <2>2. Kept /\ \A j \in Keys : server[j] <= server'[j]
    BY <1>1, <1>6, <2>1 DEF ApplyWrite, storeVars, Kept, TypeOK
  <2>3. \A k \in Keys : acked'[k] <= server'[k]
    BY <1>1, <1>6, <2>1 DEF ApplyWrite, TypeOK, IInv, AcknowledgedIsServed
  <2>4. ASSUME NEW v \in Writers, writing'[v].stage = "applied"
        PROVE  writing'[v].version <= server'[writing'[v].key]
    <3>1. CASE v = w
      BY <1>1, <1>6, <2>1, <3>1 DEF ApplyWrite, TypeOK
    <3>2. CASE v # w
      <4>1. writing'[v] = writing[v]
        BY <1>1, <1>6, <3>2 DEF ApplyWrite, TypeOK
      <4>2. writing[v].key \in Keys /\ writing[v].version \in Versions
        BY <1>1, <2>4, <4>1 DEF TypeOK, Writing
      <4>3. writing[v].version <= server[writing[v].key]
        BY <2>4, <4>1 DEF IInv, AcknowledgedIsServed
      <4>4. server[writing[v].key] \in Nat /\ server'[writing[v].key] \in Nat
        BY <1>1, <4>2 DEF TypeOK
      <4>5. QED
        BY <2>2, <4>1, <4>2, <4>3, <4>4
    <3>3. QED
      BY <3>1, <3>2
  <2>5. QED
    BY <1>1, <1>6, <2>2, <2>3, <2>4, QuietInv DEF ApplyWrite, AcknowledgedIsServed
<1>7. ASSUME NEW w \in Writers, FailWrite(w) PROVE IInv'
  <2>1. AcknowledgedIsServed'
    BY <1>1, <1>7 DEF FailWrite, TypeOK, IInv, AcknowledgedIsServed
  <2>2. Kept /\ \A j \in Keys : server[j] <= server'[j]
    BY <1>1, <1>7 DEF FailWrite, storeVars, Kept, TypeOK
  <2>3. QED
    BY <1>1, <1>7, <2>1, <2>2, QuietInv DEF FailWrite
<1>8. ASSUME NEW k \in Keys, ForeignWrite(k) PROVE IInv'
  <2>1. Kept /\ \A j \in Keys : server[j] <= server'[j]
    BY <1>1, <1>8 DEF ForeignWrite, storeVars, Kept, TypeOK
  <2>2. \A j \in Keys : acked[j] <= server'[j]
    BY <1>1, <2>1 DEF TypeOK, IInv, AcknowledgedIsServed
  <2>3. ASSUME NEW w \in Writers, writing[w].stage = "applied"
        PROVE  writing[w].version <= server'[writing[w].key]
    <3>1. writing[w].key \in Keys /\ writing[w].version \in Versions
      BY <1>1, <2>3 DEF TypeOK, Writing
    <3>2. server[writing[w].key] \in Nat /\ server'[writing[w].key] \in Nat
      BY <1>1, <3>1 DEF TypeOK
    <3>3. QED
      BY <2>1, <2>3, <3>1, <3>2 DEF IInv, AcknowledgedIsServed
  <2>4. QED
    BY <1>1, <1>8, <2>1, <2>2, <2>3, QuietInv DEF ForeignWrite, AcknowledgedIsServed
<1>9. CASE (RemoveExpiredEntries \/ Tick) /\ UNCHANGED cacheVars
  <2>1. Kept
    BY <1>1, <1>9, SweepType DEF TypeOK, Tick, Kept
  <2>2. /\ UNCHANGED <<calls, pending, generation, acked>>
        /\ \A j \in Keys : server[j] <= server'[j]
    BY <1>1, <1>9 DEF cacheVars, TypeOK
  <2>3. AcknowledgedIsServed'
    BY <1>9 DEF cacheVars, IInv, AcknowledgedIsServed
  <2>4. QED
    BY <1>1, <2>1, <2>2, <2>3, QuietInv
<1>10. CASE UNCHANGED vars
  <2>1. /\ Kept /\ UNCHANGED <<calls, pending, generation, acked>>
        /\ \A j \in Keys : server[j] <= server'[j]
    BY <1>1, <1>10 DEF vars, cacheVars, storeVars, TypeOK, Kept
  <2>2. AcknowledgedIsServed'
    BY <1>10 DEF vars, cacheVars, IInv, AcknowledgedIsServed
  <2>3. QED
    BY <1>1, <2>1, <2>2, QuietInv
<1>11. QED
  BY <1>2, <1>3, <1>4, <1>5, <1>6, <1>7, <1>8, <1>9, <1>10 DEF Next

LEMMA Invariant == Spec => []IInv
BY InitInv, NextInv, PTL DEF Spec

(* A read that began after a write was acknowledged never returns an older *)
(* version, with any number of concurrent reads, writes and invalidations. *)
THEOREM Freshness == Spec => []ReadsSeeAcknowledgedWrites
<1>1. IInv => ReadsSeeAcknowledgedWrites
  BY DEF IInv
<1>2. QED
  BY <1>1, Invariant, PTL

(* Two loaders offered for one pending key never run in one generation:    *)
(* identical reads are coalesced.                                          *)
THEOREM Coalescing == Spec => []OneLoaderPerGeneration
<1>1. IInv => OneLoaderPerGeneration
  BY DEF IInv
<1>2. QED
  BY <1>1, Invariant, PTL

(* Nothing that has ended or has been invalidated is ever on offer.        *)
THEOREM LiveOffers == Spec => []OffersAreLive
<1>1. IInv => OffersAreLive
  BY DEF IInv
<1>2. QED
  BY <1>1, Invariant, PTL

-------------------------------------------------------------------------------
(* Refinement.                                                             *)

(* A call that is unchanged, or goes on running for the same key, looks    *)
(* the same to its caller.                                                 *)
LEMMA SameView ==
  ASSUME NEW c \in Calls,
         \/ calls'[c] = calls[c]
         \/ /\ Running(c) /\ Running(c)'
            /\ calls'[c].key = calls[c].key /\ calls'[c].floor = calls[c].floor
  PROVE  reads'[c] = reads[c]
BY DEF reads, CallerView, Running

LEMMA BeginRefines ==
  ASSUME TypeOK, NEW c \in Calls, NEW k \in Keys, NEW t \in Timeouts,
         NEW stage \in {"loading", "hit", "joined"},
         NEW keyed, NEW bounded, NEW of, NEW value,
         Begin(c, stage, k, t, keyed, bounded, of, value)
  PROVE  Promise!BeginRead(c, k)
<1>1. ~ Running(c) /\ \A d \in Calls \ {c} : calls'[d] = calls[d]
  BY DEF Begin, TypeOK
<1>2. /\ calls'[c].stage \in {"loading", "hit", "joined"}
      /\ calls'[c].key = k /\ calls'[c].floor = acked[k]
  BY DEF Begin, TypeOK
<1>3. reads'[c] = [stage |-> "waiting", key |-> k, floor |-> acked[k]]
  BY <1>2 DEF reads, CallerView
<1>4. reads[c].stage # "waiting"
  <2>1. calls[c].stage \in {"idle", "failed", "answered"}
    BY <1>1 DEF Running, TypeOK, Call, RunningCall, CallFields
  <2>2. QED
    BY <2>1 DEF reads, CallerView
<1>5. \A d \in Calls \ {c} : reads'[d] = reads[d]
  BY <1>1, SameView
<1>6. reads' = [reads EXCEPT ![c] = [stage |-> "waiting", key |-> k, floor |-> acked[k]]]
  BY <1>3, <1>5 DEF reads
<1>7. QED
  BY <1>4, <1>6 DEF Promise!BeginRead, Begin

LEMMA EndRefines ==
  ASSUME NEW ended \in SUBSET Calls,
         \A c \in Calls \ ended : calls'[c] = calls[c],
         \A c \in ended :
           /\ Running(c)
           /\ \/ calls'[c] = [stage |-> "failed"]
              \/ /\ calls'[c].stage = "answered" /\ calls'[c].key = calls[c].key
                 /\ calls'[c].value \in calls[c].floor .. server[calls[c].key],
         UNCHANGED <<server, writing, acked>>
  PROVE  Promise!EndReads(ended, reads')
<1>1. ASSUME NEW c \in ended
      PROVE  /\ reads[c].stage = "waiting"
             /\ \/ reads'[c].stage = "failed"
                \/ /\ reads'[c].stage = "answered" /\ reads'[c].key = reads[c].key
                   /\ reads'[c].value \in reads[c].floor .. server[reads[c].key]
  <2>1. /\ reads[c].stage = "waiting" /\ reads[c].key = calls[c].key
        /\ reads[c].floor = calls[c].floor
    BY DEF reads, CallerView, Running
  <2>2. CASE calls'[c] = [stage |-> "failed"]
    <3>1. calls'[c].stage = "failed"
      BY <2>2
    <3>2. reads'[c].stage = "failed"
      BY <3>1 DEF reads, CallerView
    <3>3. QED
      BY <2>1, <3>2
  <2>3. CASE /\ calls'[c].stage = "answered" /\ calls'[c].key = calls[c].key
             /\ calls'[c].value \in calls[c].floor .. server[calls[c].key]
    <3>1. reads'[c] = [stage |-> "answered", key |-> calls'[c].key, value |-> calls'[c].value]
      BY <2>3 DEF reads, CallerView
    <3>2. QED
      BY <2>1, <2>3, <3>1
  <2>4. QED
    BY <2>1, <2>2, <2>3
<1>2. \A c \in Calls \ ended : reads'[c] = reads[c]
  BY SameView
<1>3. reads' = [c \in Calls |-> IF c \in ended THEN reads'[c] ELSE reads[c]]
  BY <1>2 DEF reads
<1>4. QED
  BY <1>1, <1>3 DEF Promise!EndReads

LEMMA InitRefines == Init => Promise!Init
BY DEF Init, Promise!Init, IdleCall, reads, CallerView

LEMMA NextRefines == IInv /\ [Next]_vars => [Promise!Next]_(Promise!vars)
<1> SUFFICES ASSUME IInv, [Next]_vars PROVE [Promise!Next]_(Promise!vars)
  OBVIOUS
<1> DEFINE PNext == [Promise!Next]_(Promise!vars)
<1>1. TypeOK
  BY DEF IInv
<1>2. ASSUME NEW c \in Calls, NEW k \in Keys, Promise!BeginRead(c, k) PROVE PNext
  BY <1>2 DEF Promise!Next
<1>3. ASSUME NEW ended \in SUBSET Calls, Promise!EndReads(ended, reads') PROVE PNext
  BY <1>3 DEF Promise!Next
<1>4. ASSUME \A c \in Calls : reads'[c] = reads[c], UNCHANGED <<server, writing, acked>>
      PROVE  PNext
  <2>1. reads' = reads
    BY <1>4 DEF reads
  <2>2. QED
    BY <1>4, <2>1 DEF Promise!vars
<1>5. ASSUME NEW c \in Calls, Resolve(c) PROVE PNext
  <2>1. ASSUME NEW k \in Keys, ResolveUncached(c, k) PROVE PNext
    <3> DEFINE t == CHOOSE x \in Timeouts : TRUE
    <3>1. t \in Timeouts
      OBVIOUS
    <3> HIDE DEF t
    <3>2. Begin(c, "loading", k, t, FALSE, TRUE, NoCall, Nothing)
      BY <2>1 DEF ResolveUncached, t
    <3>3. QED
      BY <1>1, <1>2, <3>1, <3>2, BeginRefines
  <2>2. ASSUME NEW k \in Keys, NEW t \in Timeouts, NEW bounded \in BOOLEAN,
               \/ ResolveHit(c, k, t, bounded)
               \/ ResolveJoin(c, k, t, bounded)
               \/ ResolveLoad(c, k, t, bounded)
        PROVE  PNext
    BY <1>1, <1>2, <2>2, BeginRefines DEF ResolveHit, ResolveJoin, ResolveLoad
  <2>3. QED
    BY <1>5, <2>1, <2>2 DEF Resolve
<1>6. ASSUME NEW c \in Calls,
             Serve(c) \/ (\E cacheable \in BOOLEAN : Publish(c, cacheable)) \/ LoaderFails(c)
      PROVE  PNext
  <2>1. calls[c].stage = "loading" /\ calls[c] \in CallFields
    BY <1>1, <1>6, RunningType DEF Serve, Publish, LoaderFails, Running, RunningCall
  <2>2. /\ \A d \in Calls \ {c} : calls'[d] = calls[d]
        /\ Running(c) /\ Running(c)'
        /\ calls'[c].key = calls[c].key /\ calls'[c].floor = calls[c].floor
        /\ UNCHANGED <<server, writing, acked>>
    BY <1>1, <1>6, <2>1 DEF Serve, Publish, LoaderFails, Running, TypeOK, CallFields
  <2>3. QED
    BY <1>4, <2>2, SameView
<1>7. ASSUME NEW c \in Calls, Settle(c) PROVE PNext
  <2> DEFINE ended == {d \in Calls : d = c \/ (calls[d].stage = "joined" /\ calls[d].of = c)}
  <2>1. /\ calls[c].stage = "settling" /\ calls[c] \in RunningCall
    BY <1>1, <1>7, RunningType DEF Settle, Running
  <2>2. ASSUME NEW d \in ended
        PROVE  /\ Running(d)
               /\ \/ calls'[d] = [stage |-> "failed"]
                  \/ /\ calls'[d].stage = "answered" /\ calls'[d].key = calls[d].key
                     /\ calls'[d].value \in calls[d].floor .. server[calls[d].key]
    <3>1. calls'[d] = Ended(d, calls[c].failed, calls[c].value)
      BY <1>7 DEF Settle
    <3>2. Running(d) /\ calls[d] \in CallFields
      BY <1>1, <2>1, RunningType DEF Running, RunningCall
    <3>3. CASE calls[c].failed
      BY <3>1, <3>2, <3>3 DEF Ended
    <3>4. CASE ~ calls[c].failed
      <4>1. calls[c].value # Nothing /\ calls[c] \in CallFields
        BY <2>1, <3>4 DEF RunningCall, Received
      <4>2. calls[d].key = calls[c].key /\ calls[d].floor <= calls[c].value
        BY <2>1, <4>1 DEF IInv, LoadersAreFresh, JoinersAreFresh, Running
      <4>3. calls[c].value <= server[calls[c].key]
        BY <2>1 DEF IInv, LoadersAreFresh, Running
      <4>4. /\ calls[d].floor \in Nat /\ calls[c].value \in Nat
            /\ server[calls[c].key] \in Nat
        BY <1>1, <3>2, <4>1 DEF CallFields, TypeOK
      <4>5. QED
        BY <3>1, <3>2, <3>4, <4>2, <4>3, <4>4 DEF Ended
    <3>5. QED
      BY <3>3, <3>4
  <2>3. \A d \in Calls \ ended : calls'[d] = calls[d]
    BY <1>7 DEF Settle
  <2>4. UNCHANGED <<server, writing, acked>>
    BY <1>7 DEF Settle
  <2>5. ended \in SUBSET Calls
    OBVIOUS
  <2> HIDE DEF ended
  <2>6. QED
    BY <1>3, <2>2, <2>3, <2>4, <2>5, EndRefines
<1>8. ASSUME NEW c \in Calls, DeliverHit(c) \/ WaitExpires(c) PROVE PNext
  <2>1. calls[c] \in RunningCall /\ Running(c)
    BY <1>1, <1>8, RunningType DEF DeliverHit, WaitExpires, Running
  <2>2. \/ calls'[c] = [stage |-> "failed"]
        \/ /\ calls'[c].stage = "answered" /\ calls'[c].key = calls[c].key
           /\ calls'[c].value \in calls[c].floor .. server[calls[c].key]
    <3>1. CASE DeliverHit(c)
      <4>1. calls[c].value # Nothing /\ calls[c] \in CallFields
        BY <2>1, <3>1 DEF DeliverHit, RunningCall, Received
      <4>2. /\ calls[c].floor <= calls[c].value
            /\ calls[c].value <= server[calls[c].key]
        BY <2>1, <4>1 DEF IInv, LoadersAreFresh
      <4>3. /\ calls[c].floor \in Nat /\ calls[c].value \in Nat
            /\ server[calls[c].key] \in Nat
        BY <1>1, <4>1 DEF CallFields, TypeOK
      <4>4. QED
        BY <1>1, <3>1, <4>2, <4>3 DEF DeliverHit, Ended, TypeOK
    <3>2. CASE WaitExpires(c)
      BY <1>1, <3>2 DEF WaitExpires, Ended, TypeOK
    <3>3. QED
      BY <1>8, <3>1, <3>2
  <2>3. \A d \in Calls \ {c} : calls'[d] = calls[d]
    BY <1>1, <1>8 DEF DeliverHit, WaitExpires, TypeOK
  <2>4. UNCHANGED <<server, writing, acked>>
    BY <1>8 DEF DeliverHit, WaitExpires
  <2> DEFINE ended == {c}
  <2>5. ended \in SUBSET Calls /\ \A d \in Calls : d \in ended <=> d = c
    OBVIOUS
  <2>6. \A d \in ended : d = c
    OBVIOUS
  <2> HIDE DEF ended
  <2>7. QED
    BY <1>3, <2>1, <2>2, <2>3, <2>4, <2>5, <2>6, EndRefines
<1>9. ASSUME UNCHANGED <<calls, server, writing, acked>> PROVE PNext
  BY <1>4, <1>9 DEF reads
<1>10. ASSUME UNCHANGED calls PROVE UNCHANGED reads
  BY <1>10 DEF reads
<1>11. ASSUME NEW w \in Writers,
              \/ \E k \in Keys : SendWrite(w, k)
              \/ ApplyWrite(w) \/ AcknowledgeWrite(w) \/ FailWrite(w)
       PROVE  PNext
  <2>1. UNCHANGED reads
    BY <1>10, <1>11 DEF SendWrite, ApplyWrite, AcknowledgeWrite, FailWrite
  <2>2. ASSUME NEW k \in Keys, SendWrite(w, k) PROVE Promise!SendWrite(w, k)
    BY <2>1, <2>2 DEF SendWrite, Promise!SendWrite
  <2>3. ASSUME ApplyWrite(w) PROVE Promise!ApplyWrite(w)
    <3>1. writing[w].key \in Keys
      BY <1>1, <2>3 DEF ApplyWrite, TypeOK, Writing
    <3>2. server'[writing[w].key] = server[writing[w].key] + 1
      BY <1>1, <2>3, <3>1 DEF ApplyWrite, TypeOK
    <3>3. QED
      BY <2>1, <2>3, <3>2 DEF ApplyWrite, Promise!ApplyWrite
  <2>4. ASSUME AcknowledgeWrite(w) PROVE Promise!AcknowledgeWrite(w)
    BY <2>1, <2>4 DEF AcknowledgeWrite, Promise!AcknowledgeWrite
  <2>5. ASSUME FailWrite(w) PROVE Promise!FailWrite(w)
    BY <2>1, <2>5 DEF FailWrite, Promise!FailWrite
  <2>6. QED
    BY <1>11, <2>2, <2>3, <2>4, <2>5 DEF Promise!Next
<1>12. ASSUME NEW k \in Keys, ForeignWrite(k) PROVE PNext
  <2>1. UNCHANGED reads
    BY <1>10, <1>12 DEF ForeignWrite
  <2>2. Promise!ForeignWrite(k)
    BY <1>12, <2>1 DEF ForeignWrite, Promise!ForeignWrite
  <2>3. QED
    BY <2>2 DEF Promise!Next
<1>13. CASE \/ ClearCache \/ Destroy
            \/ (RemoveExpiredEntries \/ Tick) /\ UNCHANGED cacheVars
            \/ UNCHANGED vars
  BY <1>9, <1>13 DEF ClearCache, Destroy, cacheVars, vars
<1>14. QED
  BY <1>5, <1>6, <1>7, <1>8, <1>11, <1>12, <1>13 DEF Next

(* The cache protocol implements FreshReads: whatever is stored, joined,   *)
(* invalidated or expired, each read returns a version the server had, at  *)
(* least as new as the newest write this client had seen succeed when the  *)
(* read began.                                                             *)
THEOREM ImplementsFreshReads == Spec => KeepsPromise
BY InitRefines, NextRefines, Invariant, PTL DEF Spec, KeepsPromise, Promise!Spec

-------------------------------------------------------------------------------
(* Disposal.                                                               *)

DestroyedInv == DestroyedKeepsNothing /\ DestroyedIsInvalidated

LEMMA DestroyedNext == IInv /\ DestroyedInv /\ [Next]_vars => DestroyedInv'
<1> SUFFICES ASSUME IInv, DestroyedInv, [Next]_vars, isDestroyed'
             PROVE  (/\ DOMAIN entries = {} /\ ~ timer
                     /\ \A pk \in PendingKeys : pending[pk] = NoCall
                     /\ \A c \in Calls : Running(c) => calls[c].gen < generation)'
  BY DEF DestroyedInv, DestroyedKeepsNothing, DestroyedIsInvalidated
<1> DEFINE Disposed == /\ DOMAIN entries = {} /\ ~ timer
                       /\ \A pk \in PendingKeys : pending[pk] = NoCall
                       /\ \A c \in Calls : Running(c) => calls[c].gen < generation
<1>1. TypeOK /\ TypeOK'
  BY NextType DEF IInv
<1>2. isDestroyed => Disposed
  BY DEF DestroyedInv, DestroyedKeepsNothing, DestroyedIsInvalidated
<1>3. ASSUME isDestroyed, UNCHANGED <<pending, calls, generation>>,
             DOMAIN entries' = {}, UNCHANGED timer
      PROVE  Disposed'
  BY <1>2, <1>3 DEF Running
<1>4. ASSUME Invalidate, ~ timer', UNCHANGED calls PROVE Disposed'
  <2>1. DOMAIN entries' = {} /\ \A pk \in PendingKeys : pending'[pk] = NoCall
    BY <1>4 DEF Invalidate, Clear
  <2>2. ASSUME NEW c \in Calls, Running(c) PROVE calls'[c].gen < generation'
    <3>1. calls[c].gen \in Nat /\ generation \in Nat
      BY <1>1, <2>2, RunningType DEF RunningCall, CallFields, TypeOK
    <3>2. QED
      BY <1>4, <2>2, <3>1 DEF IInv, LoadersAreFresh, Invalidate
  <2>3. QED
    BY <1>4, <2>1, <2>2 DEF Running
<1>5. ASSUME NEW c \in Calls, Resolve(c) PROVE FALSE
  BY ZenonT(30), <1>5 DEF Resolve, ResolveUncached, ResolveHit, ResolveJoin, ResolveLoad, Begin
<1>6. ASSUME NEW c \in Calls,
             Serve(c) \/ (\E cacheable \in BOOLEAN : Publish(c, cacheable)) \/ LoaderFails(c)
      PROVE  Disposed'
  <2>1. calls[c].stage = "loading" /\ calls[c] \in CallFields /\ isDestroyed
    BY <1>1, <1>6, RunningType DEF Serve, Publish, LoaderFails, Running, RunningCall
  <2>2. calls[c].gen < generation /\ calls[c].gen \in Nat /\ generation \in Nat
    BY <1>1, <1>2, <2>1 DEF Running, CallFields, TypeOK
  <2>3. UNCHANGED <<storeVars, pending, generation>>
    <3>1. calls[c].gen # generation
      BY <2>2
    <3>2. ASSUME NEW cacheable \in BOOLEAN, Publish(c, cacheable)
          PROVE  UNCHANGED <<storeVars, pending, generation>>
      BY <3>1, <3>2 DEF Publish
    <3>3. QED
      BY <1>6, <3>2 DEF Serve, LoaderFails
  <2>4. /\ \A d \in Calls \ {c} : calls'[d] = calls[d]
        /\ calls'[c].gen = calls[c].gen
    BY <1>1, <1>6, <2>1 DEF Serve, Publish, LoaderFails, TypeOK, CallFields
  <2>5. \A d \in Calls : Running(d)' => calls'[d].gen < generation'
    BY <1>2, <2>1, <2>2, <2>3, <2>4 DEF Running
  <2>6. QED
    BY <1>2, <2>1, <2>3, <2>5 DEF storeVars
<1>7. ASSUME NEW c \in Calls, Settle(c) \/ DeliverHit(c) \/ WaitExpires(c) PROVE Disposed'
  <2>1. /\ isDestroyed /\ UNCHANGED <<storeVars, generation>>
        /\ \A pk \in PendingKeys : pending'[pk] = NoCall
    BY <1>1, <1>2, <1>7 DEF Settle, DeliverHit, WaitExpires, TypeOK
  <2>2. \A d \in Calls : calls'[d] = calls[d] \/ ~ Running(d)'
    <3>1. \A d \in Calls : \A failed, value : Ended(d, failed, value).stage \in {"failed", "answered"}
      BY DEF Ended
    <3>2. \A d \in Calls : \/ calls'[d] = calls[d]
                           \/ \E failed, value : calls'[d] = Ended(d, failed, value)
      <4>1. CASE Settle(c)
        BY <4>1 DEF Settle
      <4>2. CASE DeliverHit(c)
        BY <1>1, <4>2 DEF DeliverHit, TypeOK
      <4>3. CASE WaitExpires(c)
        BY <1>1, <4>3 DEF WaitExpires, TypeOK
      <4>4. QED
        BY <1>7, <4>1, <4>2, <4>3
    <3>3. QED
      BY <3>1, <3>2 DEF Running
  <2>3. \A d \in Calls : Running(d)' => calls'[d].gen < generation'
    BY <1>2, <2>1, <2>2 DEF Running
  <2>4. QED
    BY <1>2, <2>1, <2>3 DEF storeVars
<1>8. CASE ClearCache
  BY <1>2, <1>4, <1>8 DEF ClearCache
<1>9. CASE Destroy
  BY <1>4, <1>9 DEF Destroy
<1>10. ASSUME NEW w \in Writers, AcknowledgeWrite(w) PROVE Disposed'
  BY <1>2, <1>4, <1>10 DEF AcknowledgeWrite
<1>11. ASSUME \/ \E w \in Writers : \/ \E k \in Keys : SendWrite(w, k)
                                    \/ ApplyWrite(w) \/ FailWrite(w)
              \/ \E k \in Keys : ForeignWrite(k)
              \/ UNCHANGED vars
       PROVE  Disposed'
  <2>1. isDestroyed /\ UNCHANGED <<storeVars, pending, calls, generation>>
    BY <1>11 DEF SendWrite, ApplyWrite, FailWrite, ForeignWrite, vars, cacheVars
  <2>2. QED
    BY <1>2, <1>3, <2>1 DEF storeVars
<1>12. CASE (RemoveExpiredEntries \/ Tick) /\ UNCHANGED cacheVars
  <2>1. isDestroyed /\ UNCHANGED <<pending, calls, generation>>
    BY <1>12 DEF cacheVars
  <2>2. Tick
    BY <1>2, <1>12, <2>1 DEF RemoveExpiredEntries
  <2>3. QED
    BY <1>2, <1>3, <2>1, <2>2 DEF Tick
<1>13. QED
  BY <1>5, <1>6, <1>7, <1>8, <1>9, <1>10, <1>11, <1>12 DEF Next

(* After destroy() the cache stays empty, whatever still completes.        *)
THEOREM Disposal == Spec => []DestroyedKeepsNothing
<1>1. Init => DestroyedInv
  BY DEF Init, DestroyedInv, DestroyedKeepsNothing, DestroyedIsInvalidated
<1>2. DestroyedInv => DestroyedKeepsNothing
  BY DEF DestroyedInv
<1>3. QED
  BY <1>1, <1>2, DestroyedNext, Invariant, PTL DEF Spec

-------------------------------------------------------------------------------
(* The eviction policy.  The insertion order of the map is the order of last *)
(* use, which is a strict order, total on what is stored.                    *)

Uses ==
  /\ since \in [Keys -> SUBSET Keys]
  /\ \A a, b \in Keys : ~ (a \in since[b] /\ b \in since[a])
  /\ \A a, b, c \in Keys : b \in since[a] /\ c \in since[b] => c \in since[a]

Ranked ==
  \A a, b \in DOMAIN entries :
    /\ <<a, b>> \in order <=> b \in since[a]
    /\ a # b => a \in since[b] \/ b \in since[a]

Fits == MaxEntries > 0 => Cardinality(DOMAIN entries) <= MaxEntries

Stores == DOMAIN entries # {} => EnableStorage

UseInv == StoreTypeOK /\ Uses /\ Ranked /\ Fits /\ Stores

(* A step that removes entries and keeps the order of the others, their use  *)
(* unrecorded.                                                               *)
LEMMA RemovalKeeps ==
  ASSUME UseInv, StoreTypeOK', UNCHANGED since, NEW kept,
         DOMAIN entries' = DOMAIN entries \cap kept, order' = OrderWithin(kept)
  PROVE  UseInv'
<1>1. Uses'
  BY DEF UseInv, Uses
<1>2. Ranked'
  BY DEF UseInv, Ranked, OrderWithin
<1>3. Fits'
  <2>1. IsFiniteSet(DOMAIN entries) /\ IsFiniteSet(DOMAIN entries')
    BY FS_Subset DEF UseInv, StoreTypeOK
  <2>2. /\ Cardinality(DOMAIN entries') <= Cardinality(DOMAIN entries)
        /\ Cardinality(DOMAIN entries') \in Nat /\ Cardinality(DOMAIN entries) \in Nat
    BY <2>1, FS_Subset, FS_CardinalityType
  <2> QED
    BY <2>2 DEF UseInv, Fits
<1> QED
  BY <1>1, <1>2, <1>3 DEF UseInv, Stores

(* Among any stored keys one was used least recently.                        *)
LEMMA Oldest ==
  ASSUME UseInv, NEW S, S \subseteq DOMAIN entries, S # {}
  PROVE  \E j \in S : \A i \in S \ {j} : i \in since[j]
<1> DEFINE Older(a) == {i \in S : a \in since[i]}
           T == {Older(a) : a \in S}
<1>1. S \subseteq Keys /\ DOMAIN entries \subseteq Keys
  BY DEF UseInv, StoreTypeOK
<1>2. \A a \in S : Older(a) \in FiniteSubsetsOf(Keys)
  BY <1>1, FS_Subset DEF FiniteSubsetsOf
<1>3. T \subseteq FiniteSubsetsOf(Keys) /\ T # {}
  <2> HIDE DEF Older
  <2> QED
    BY <1>2
<1>4. PICK x \in T : \A y \in T : ~ (<<y, x>> \in StrictSubsetOrdering(Keys))
  <2> HIDE DEF T
  <2> QED
    BY <1>3, WFMin, FS_StrictSubsetOrderingWellFounded, Zenon
<1>5. PICK j \in S : x = Older(j)
  BY <1>4
<1>6. SUFFICES ASSUME NEW i \in S \ {j}, i \notin since[j] PROVE FALSE
  BY <1>5
<1>7. j \in since[i]
  BY <1>6 DEF UseInv, Ranked
<1>8. i \in Older(j) /\ i \notin Older(i)
  BY <1>1, <1>7 DEF UseInv, Uses
<1>9. Older(i) \subseteq Older(j)
  BY <1>1, <1>7 DEF UseInv, Uses
<1>10. <<Older(i), Older(j)>> \in StrictSubsetOrdering(Keys)
  <2>1. Older(i) \subseteq Keys /\ Older(j) \subseteq Keys
    BY <1>1
  <2> HIDE DEF Older
  <2> QED
    BY <2>1, <1>8, <1>9 DEF StrictSubsetOrdering
<1> QED
  BY <1>4, <1>5, <1>10

(* A use makes k the most recent one.                                        *)
LEMMA UsesKept ==
  ASSUME Uses, NEW k \in Keys, Used(k)
  PROVE  /\ Uses'
         /\ since'[k] = {}
         /\ \A a \in Keys \ {k} : since'[a] = since[a] \cup {k}
<1>1. since' = [j \in Keys |-> IF j = k THEN {} ELSE since[j] \cup {k}]
  BY DEF Used
<1>2. since'[k] = {} /\ \A a \in Keys \ {k} : since'[a] = since[a] \cup {k}
  BY <1>1
<1>3. since' \in [Keys -> SUBSET Keys]
  BY <1>1 DEF Uses
<1>4. \A a, b \in Keys : ~ (a \in since'[b] /\ b \in since'[a])
  BY <1>2 DEF Uses
<1>5. \A a, b, c \in Keys : b \in since'[a] /\ c \in since'[b] => c \in since'[a]
  BY <1>2 DEF Uses
<1> QED
  BY <1>2, <1>3, <1>4, <1>5 DEF Uses

(* Of a full cache, write(k, _) evicts one entry, the one used least         *)
(* recently of those that are not replaced.                                  *)
LEMMA EvictedIsOldest ==
  ASSUME UseInv, NEW k \in Keys
  PROVE  /\ Evicted(k) \subseteq DOMAIN entries \ {k}
         /\ \A j \in Evicted(k) : \A i \in DOMAIN entries \ {k, j} : i \in since[j]
         /\ \A j \in Evicted(k) : Evicted(k) = {j}
         /\ MaxEntries > 0 /\ Cardinality(DOMAIN entries \ {k}) >= MaxEntries => Evicted(k) # {}
         /\ Evicted(k) # {} => MaxEntries > 0 /\ Cardinality(DOMAIN entries \ {k}) >= MaxEntries
<1> DEFINE others == DOMAIN entries \ {k}
<1>1. \A j \in Evicted(k) :
        /\ j \in others /\ MaxEntries > 0 /\ Cardinality(others) >= MaxEntries
        /\ \A i \in others \ {j} : <<j, i>> \in order
  BY DEF Evicted
<1>2. \A j \in others : /\ MaxEntries > 0 /\ Cardinality(others) >= MaxEntries
                        /\ \A i \in others \ {j} : <<j, i>> \in order
                        => j \in Evicted(k)
  BY DEF Evicted
<1>3. \A j \in Evicted(k) : \A i \in others \ {j} : i \in since[j]
  BY <1>1 DEF UseInv, Ranked
<1>4. \A j \in Evicted(k) : Evicted(k) = {j}
  <2>1. \A i, j \in Evicted(k) : i = j
    BY <1>1, <1>3 DEF UseInv, Uses, StoreTypeOK
  <2> QED
    BY <2>1
<1>5. ASSUME MaxEntries > 0, Cardinality(others) >= MaxEntries
      PROVE  Evicted(k) # {}
  <2>1. others # {}
    <3>1. Cardinality({}) = 0
      BY FS_EmptySet
    <3>2. MaxEntries > 0 /\ Cardinality(others) >= MaxEntries /\ MaxEntries \in Nat
      BY <1>5
    <3> HIDE DEF others
    <3> QED
      BY <3>1, <3>2
  <2>2. PICK j \in others : \A i \in others \ {j} : i \in since[j]
    <3> HIDE DEF others
    <3>1. others \subseteq DOMAIN entries
      BY DEF others
    <3> QED
      BY <2>1, <3>1, Oldest
  <2>3. \A i \in others \ {j} : <<j, i>> \in order
    BY <2>2 DEF UseInv, Ranked
  <2> QED
    BY <1>2, <1>5, <2>2, <2>3
<1> QED
  BY <1>1, <1>3, <1>4, <1>5

LEMMA ReadHitKeeps ==
  ASSUME UseInv, StoreTypeOK', NEW k \in Keys, ReadHit(k), Used(k)
  PROVE  UseInv'
<1>1. /\ Uses' /\ since'[k] = {}
      /\ \A a \in Keys \ {k} : since'[a] = since[a] \cup {k}
  BY UsesKept DEF UseInv
<1>2. /\ entries' = entries /\ k \in DOMAIN entries /\ DOMAIN entries \subseteq Keys
      /\ order' = MovedToEnd(DOMAIN entries, k)
  BY DEF ReadHit, Live, UseInv, StoreTypeOK
<1>3. ASSUME NEW a \in DOMAIN entries, NEW b \in DOMAIN entries
      PROVE  /\ <<a, b>> \in order' <=> b \in since'[a]
             /\ a # b => a \in since'[b] \/ b \in since'[a]
  <2>1. CASE a = k
    BY <1>1, <1>2, <2>1 DEF MovedToEnd, OrderWithin
  <2>2. CASE a # k /\ b = k
    BY <1>1, <1>2, <2>2 DEF MovedToEnd, OrderWithin
  <2>3. CASE a # k /\ b # k
    <3>1. <<a, b>> \in order' <=> <<a, b>> \in order
      BY <1>2, <2>3 DEF MovedToEnd, OrderWithin
    <3>2. since'[a] = since[a] \cup {k} /\ since'[b] = since[b] \cup {k}
      BY <1>1, <1>2, <2>3
    <3> QED
      BY <2>3, <3>1, <3>2 DEF UseInv, Ranked
  <2> QED
    BY <2>1, <2>2, <2>3
<1>4. Ranked'
  BY <1>2, <1>3 DEF Ranked
<1> QED
  BY <1>1, <1>2, <1>4 DEF UseInv, Fits, Stores

LEMMA WriteKeeps ==
  ASSUME UseInv, StoreTypeOK', NEW k \in Keys, NEW v \in Versions, Write(k, v), Used(k)
  PROVE  UseInv'
<1>1. /\ Uses' /\ since'[k] = {}
      /\ \A a \in Keys \ {k} : since'[a] = since[a] \cup {k}
  BY UsesKept DEF UseInv
<1>2. CASE ~ EnableStorage
  <2>1. UNCHANGED <<entries, order>>
    BY <1>2 DEF Write
  <2> QED
    BY <1>1, <1>2, <2>1 DEF UseInv, Ranked, Fits, Stores
<1>3. CASE EnableStorage
  <2> DEFINE D == DOMAIN entries
             kept == D \ Evicted(k)
  <2>1. /\ DOMAIN entries' = kept \cup {k}
        /\ order' = MovedToEnd(kept, k)
    BY <1>3 DEF Write
  <2>2. D \subseteq Keys /\ IsFiniteSet(D)
    BY FS_Subset DEF UseInv, StoreTypeOK
  <2>3. Ranked'
    <3>1. ASSUME NEW a \in kept \cup {k}, NEW b \in kept \cup {k}
          PROVE  /\ <<a, b>> \in order' <=> b \in since'[a]
                 /\ a # b => a \in since'[b] \/ b \in since'[a]
      <4>1. CASE a = k
        BY <1>1, <2>1, <2>2, <4>1 DEF MovedToEnd, OrderWithin
      <4>2. CASE a # k /\ b = k
        BY <1>1, <2>1, <2>2, <4>2 DEF MovedToEnd, OrderWithin
      <4>3. CASE a # k /\ b # k
        <5>1. <<a, b>> \in order' <=> <<a, b>> \in order
          BY <2>1, <4>3 DEF MovedToEnd, OrderWithin
        <5>2. since'[a] = since[a] \cup {k} /\ since'[b] = since[b] \cup {k}
          BY <1>1, <2>2, <4>3
        <5> QED
          BY <4>3, <5>1, <5>2 DEF UseInv, Ranked
      <4> QED
        BY <4>1, <4>2, <4>3
    <3> QED
      BY <2>1, <3>1 DEF Ranked
  <2>4. Fits'
    <3> DEFINE others == D \ {k}
    <3> SUFFICES ASSUME MaxEntries > 0 PROVE Cardinality(kept \cup {k}) <= MaxEntries
      BY <2>1 DEF Fits
    <3>1. IsFiniteSet(others) /\ Cardinality(others) \in Nat
      BY <2>2, FS_Subset, FS_CardinalityType
    <3>2. Cardinality(others) <= MaxEntries
      <4>1. Cardinality(others) <= Cardinality(D) /\ Cardinality(D) \in Nat
        BY <2>2, FS_Subset, FS_CardinalityType
      <4>2. Cardinality(D) <= MaxEntries
        BY DEF UseInv, Fits
      <4> HIDE DEF others, D
      <4> QED
        BY <3>1, <4>1, <4>2
    <3>3. CASE Cardinality(others) < MaxEntries
      <4>1. kept \cup {k} \subseteq others \cup {k}
        OBVIOUS
      <4>2. IsFiniteSet(others \cup {k}) /\ Cardinality(others \cup {k}) = Cardinality(others) + 1
        <5>1. k \notin others
          OBVIOUS
        <5> HIDE DEF others
        <5> QED
          BY <3>1, <5>1, FS_AddElement
      <4> HIDE DEF others, kept
      <4>3. /\ Cardinality(kept \cup {k}) <= Cardinality(others) + 1
            /\ Cardinality(kept \cup {k}) \in Nat
        BY <4>1, <4>2, FS_Subset, FS_CardinalityType
      <4> QED
        BY <3>1, <3>3, <4>3
    <3>4. CASE Cardinality(others) = MaxEntries
      <4>1. PICK j : j \in Evicted(k)
        BY <3>4, EvictedIsOldest
      <4>2. j \in others /\ Evicted(k) = {j}
        BY <4>1, EvictedIsOldest
      <4>3. kept \cup {k} = (others \ {j}) \cup {k} /\ k \notin others \ {j}
        BY <4>2
      <4> HIDE DEF others, kept
      <4>4. IsFiniteSet(others \ {j}) /\ Cardinality(others \ {j}) = Cardinality(others) - 1
        BY <3>1, <4>2, FS_RemoveElement
      <4>5. Cardinality((others \ {j}) \cup {k}) = Cardinality(others) - 1 + 1
        BY <4>3, <4>4, FS_AddElement
      <4>6. Cardinality(others) - 1 + 1 = Cardinality(others)
        BY <3>1
      <4> QED
        BY <3>2, <4>3, <4>5, <4>6, Zenon
    <3> QED
      <4> HIDE DEF others, kept
      <4> QED
        BY <3>1, <3>2, <3>3, <3>4
  <2> QED
    BY <1>1, <1>3, <2>3, <2>4 DEF UseInv, Stores
<1> QED
  BY <1>2, <1>3

LEMMA UseInitHolds == UseInit => UseInv
<1> SUFFICES ASSUME UseInit PROVE UseInv
  OBVIOUS
<1>1. DOMAIN entries = {} /\ since = [j \in Keys |-> {}]
  BY DEF UseInit, StoreInit
<1>2. StoreTypeOK
  BY DEF UseInit, StoreInit, StoreTypeOK, Entry
<1>3. Fits
  BY <1>1, FS_EmptySet DEF Fits
<1> QED
  BY <1>1, <1>2, <1>3 DEF UseInv, Uses, Ranked, Stores

LEMMA UseNextKeeps == UseInv /\ [UseNext]_useVars => UseInv'
<1> SUFFICES ASSUME UseInv, [UseNext]_useVars PROVE UseInv'
  OBVIOUS
<1> USE DEF UseInv
<1>1. ASSUME NEW k \in Keys, ReadHit(k), Used(k) PROVE UseInv'
  BY <1>1, ReadType, ReadHitKeeps
<1>2. ASSUME NEW k \in Keys, NEW v \in Versions, Write(k, v), Used(k) PROVE UseInv'
  BY <1>2, WriteType, WriteKeeps
<1>3. ASSUME NEW k \in Keys, ReadMiss(k), UNCHANGED since PROVE UseInv'
  <2>1. /\ DOMAIN entries' = DOMAIN entries \cap (Keys \ {k})
        /\ order' = OrderWithin(Keys \ {k})
    BY <1>3 DEF ReadMiss, EntriesWithin, Restrict
  <2>2. StoreTypeOK'
    BY <1>3, ReadType
  <2> QED
    BY <1>3, <2>1, <2>2, RemovalKeeps
<1>4. ASSUME Discard, UNCHANGED since PROVE UseInv'
  <2>1. StoreTypeOK' /\ DOMAIN entries' = {} /\ order' = {}
    BY <1>4, ClearType DEF Discard, Clear, StoreTypeOK
  <2>2. DOMAIN entries' = DOMAIN entries \cap {} /\ order' = OrderWithin({})
    BY <2>1 DEF OrderWithin
  <2> QED
    BY <1>4, <2>1, <2>2, RemovalKeeps
<1>5. ASSUME RemoveExpiredEntries, UNCHANGED since PROVE UseInv'
  <2> DEFINE kept == {k \in DOMAIN entries : Live(k)}
  <2>1. DOMAIN entries' = DOMAIN entries \cap kept /\ order' = OrderWithin(kept)
    BY <1>5 DEF RemoveExpiredEntries, EntriesWithin, Restrict
  <2>2. StoreTypeOK'
    BY <1>5, SweepType
  <2> HIDE DEF kept
  <2> QED
    BY <1>5, <2>1, <2>2, RemovalKeeps
<1>6. CASE (Tick \/ UNCHANGED storeVars) /\ UNCHANGED since
  <2>1. UNCHANGED <<entries, order, since>>
    BY <1>6 DEF Tick, storeVars
  <2>2. StoreTypeOK'
    BY <1>6 DEF StoreTypeOK, Tick, storeVars, Entry
  <2> QED
    BY <2>1, <2>2 DEF Uses, Ranked, Fits, Stores
<1> QED
  BY <1>1, <1>2, <1>3, <1>4, <1>5, <1>6 DEF UseNext, useVars

(* Every write that evicts a live entry evicts the least recently used one,  *)
(* and only to make room for a key that was not there; nothing else loses    *)
(* one but clear() and the clock; the capacity is never exceeded.            *)
THEOREM LeastRecentlyUsed == UseSpec => LiveLostOnlyToEviction
<1> DEFINE lost == {k \in DOMAIN entries : Live(k)} \ DOMAIN entries'
           Eviction ==
             /\ MaxEntries > 0 => Cardinality(DOMAIN entries') <= MaxEntries
             /\ (now' = now /\ lost # {} /\ entries' # [k \in {} |-> k]) =>
                  /\ Cardinality(lost) = 1
                  /\ Cardinality(DOMAIN entries) = MaxEntries
                  /\ \E k \in DOMAIN entries' : k \notin DOMAIN entries
                  /\ \A k \in lost : DOMAIN entries \cap DOMAIN entries' \subseteq since[k]
<1>1. ASSUME UseInv, UseInv', [UseNext]_useVars PROVE Eviction
  <2>1. MaxEntries > 0 => Cardinality(DOMAIN entries') <= MaxEntries
    BY <1>1 DEF UseInv, Fits
  <2> SUFFICES ASSUME now' = now, lost # {}, entries' # [k \in {} |-> k]
               PROVE  /\ Cardinality(lost) = 1
                      /\ Cardinality(DOMAIN entries) = MaxEntries
                      /\ \E k \in DOMAIN entries' : k \notin DOMAIN entries
                      /\ \A k \in lost : DOMAIN entries \cap DOMAIN entries' \subseteq since[k]
    BY <2>1
  <2>2. PICK j \in lost : j \in DOMAIN entries /\ Live(j) /\ j \notin DOMAIN entries'
    OBVIOUS
  <2>3. PICK k \in Keys, v \in Versions : Write(k, v) /\ EnableStorage
    <3>1. ASSUME NEW k \in Keys, ReadHit(k) PROVE FALSE
      BY <2>2, <3>1 DEF ReadHit
    <3>2. ASSUME NEW k \in Keys, ReadMiss(k) PROVE FALSE
      BY <1>1, <2>2, <3>2 DEF ReadMiss, EntriesWithin, Restrict, UseInv, StoreTypeOK
    <3>3. ~ Discard
      BY DEF Discard, Clear
    <3>4. ~ RemoveExpiredEntries
      BY <2>2 DEF RemoveExpiredEntries, EntriesWithin, Restrict
    <3>5. ~ Tick /\ ~ UNCHANGED useVars
      BY <2>2 DEF Tick, useVars, storeVars
    <3>6. PICK k \in Keys, v \in Versions : Write(k, v)
      BY <1>1, <3>1, <3>2, <3>3, <3>4, <3>5 DEF UseNext
    <3> QED
      BY <2>2, <3>6 DEF Write
  <2>4. DOMAIN entries' = (DOMAIN entries \ Evicted(k)) \cup {k}
    BY <2>3 DEF Write
  <2>5. Evicted(k) = {j} /\ j # k
    BY <1>1, <2>2, <2>4, EvictedIsOldest
  <2>6. lost = {j}
    BY <2>2, <2>4, <2>5
  <2>7. Cardinality(lost) = 1
    BY <2>6, FS_Singleton
  <2> DEFINE D == DOMAIN entries
  <2>8. MaxEntries > 0 /\ Cardinality(D \ {k}) >= MaxEntries
    BY <1>1, <2>5, EvictedIsOldest
  <2>9. /\ IsFiniteSet(D) /\ Cardinality(D) \in Nat /\ Cardinality(D \ {k}) \in Nat
        /\ Cardinality(D) <= MaxEntries
        /\ k \in D => Cardinality(D \ {k}) = Cardinality(D) - 1
        /\ k \notin D => D \ {k} = D
        /\ MaxEntries \in Nat
    <3>1. IsFiniteSet(D)
      BY <1>1, FS_Subset DEF UseInv, StoreTypeOK
    <3>2. IsFiniteSet(D \ {k})
      BY <3>1, FS_Subset
    <3>3. Cardinality(D) <= MaxEntries
      BY <1>1, <2>8 DEF UseInv, Fits
    <3> HIDE DEF D
    <3> QED
      BY <3>1, <3>2, <3>3, FS_CardinalityType, FS_RemoveElement
  <2>10. k \notin D /\ Cardinality(D) = MaxEntries
    <3> HIDE DEF D
    <3>1. CASE k \in D
      <4>1. Cardinality(D) - 1 >= MaxEntries
        BY <2>8, <2>9, <3>1, Zenon
      <4> QED
        BY <2>9, <4>1
    <3>2. CASE k \notin D
      <4>1. Cardinality(D) >= MaxEntries
        BY <2>8, <2>9, <3>2, Zenon
      <4> QED
        BY <2>9, <3>2, <4>1
    <3> QED
      BY <3>1, <3>2
  <2>11. \A i \in DOMAIN entries \cap DOMAIN entries' : i \in since[j]
    BY <1>1, <2>2, <2>5, <2>10, EvictedIsOldest
  <2> QED
    BY <2>4, <2>6, <2>7, <2>10, <2>11
<1>2. UseSpec => []UseInv
  BY UseInitHolds, UseNextKeeps, PTL DEF UseSpec
<1>3. UseInv /\ UseInv' /\ [UseNext]_useVars => [Eviction]_useVars
  BY <1>1
<1> QED
  BY <1>2, <1>3, PTL DEF UseSpec, LiveLostOnlyToEviction

(* Whatever resolve, invalidate, dispose and the sweep do to the map is what *)
(* CacheStore allows, so the eviction policy holds in the whole cache.       *)
THEOREM StoresAsCacheStore == Spec => StoreSpec
<1>1. Init => StoreInit
  BY DEF Init
<1>2. ASSUME TypeOK, [Next]_vars PROVE [StoreNext]_storeVars
  <2>1. ASSUME NEW c \in Calls, Resolve(c) PROVE [StoreNext]_storeVars
    <3>1. ASSUME NEW k \in Keys, ResolveUncached(c, k) PROVE UNCHANGED storeVars
      BY <3>1 DEF ResolveUncached
    <3>2. ASSUME NEW k \in Keys, NEW t \in Timeouts, NEW bounded \in BOOLEAN,
                 \/ ResolveHit(c, k, t, bounded)
                 \/ ResolveJoin(c, k, t, bounded)
                 \/ ResolveLoad(c, k, t, bounded)
          PROVE  ReadHit(k) \/ ReadMiss(k)
      BY <3>2 DEF ResolveHit, ResolveJoin, ResolveLoad
    <3> QED
      BY <2>1, <3>1, <3>2 DEF Resolve, StoreNext
  <2>2. ASSUME NEW c \in Calls, NEW cacheable \in BOOLEAN, Publish(c, cacheable)
        PROVE  [StoreNext]_storeVars
    <3>1. CASE UNCHANGED storeVars
      BY <3>1
    <3>2. CASE Write(calls[c].key, calls[c].value)
      <4>1. calls[c] \in RunningCall /\ calls[c].value # Nothing
        BY <1>2, <2>2, RunningType DEF Publish, TypeOK, Running
      <4>2. calls[c].key \in Keys /\ calls[c].value \in Versions
        BY <4>1 DEF RunningCall, CallFields
      <4> QED
        BY <3>2, <4>2 DEF StoreNext
    <3> QED
      BY <2>2, <3>1, <3>2 DEF Publish
  <2>3. ASSUME NEW c \in Calls,
               \/ Serve(c) \/ LoaderFails(c) \/ Settle(c) \/ DeliverHit(c) \/ WaitExpires(c)
        PROVE  UNCHANGED storeVars
    BY <2>3 DEF Serve, LoaderFails, Settle, DeliverHit, WaitExpires
  <2>4. ASSUME ClearCache \/ Destroy \/ \E w \in Writers : AcknowledgeWrite(w)
        PROVE  StoreNext
    BY <2>4 DEF ClearCache, Destroy, AcknowledgeWrite, Invalidate, Discard, StoreNext
  <2>5. ASSUME NEW w \in Writers,
               (\E k \in Keys : SendWrite(w, k)) \/ ApplyWrite(w) \/ FailWrite(w)
        PROVE  UNCHANGED storeVars
    BY <2>5 DEF SendWrite, ApplyWrite, FailWrite
  <2>6. ASSUME NEW k \in Keys, ForeignWrite(k) PROVE UNCHANGED storeVars
    BY <2>6 DEF ForeignWrite
  <2>7. ASSUME RemoveExpiredEntries \/ Tick PROVE StoreNext
    BY <2>7 DEF StoreNext
  <2> QED
    BY <1>2, <2>1, <2>2, <2>3, <2>4, <2>5, <2>6, <2>7 DEF Next, vars
<1> QED
  BY <1>1, <1>2, TypeCorrect, PTL DEF Spec, StoreSpec
===============================================================================
