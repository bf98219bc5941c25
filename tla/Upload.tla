-------------------------------- MODULE Upload --------------------------------
(***************************************************************************)
(* One multipart upload: the file part of src/upload-source.ts, the        *)
(* teardown in attemptPipeline of src/client-core.ts, the proof that the   *)
(* transport has stopped of src/upload-transport.ts and                    *)
(* src/pinned-dispatcher.ts, and the scope of src/operation-tracking.ts    *)
(* that waits for all of it.                                               *)
(*                                                                         *)
(* The fetch function may send the body in several exchanges, as one that  *)
(* repeats a request does, on pooled sockets or on a shared session that   *)
(* other requests use as well.  A step is one turn of the event loop.      *)
(***************************************************************************)
EXTENDS Integers, FiniteSets

CONSTANTS
  Exchanges,      (* requests the fetch function may send the body in      *)
  Others,         (* requests of somebody else                             *)
  Sockets,        (* HTTP/1 connections of the pool                        *)
  None,           (* no socket, no owner                                   *)
  Size            (* chunks of the file                                    *)

ASSUME UploadAssumption ==
  /\ Size \in Nat
  /\ None \notin Sockets /\ None \notin Exchanges \cup Others
  /\ Exchanges \cap Others = {}
  /\ IsFiniteSet(Exchanges)

VARIABLES
  via,            (* what fetch sends with                                 *)
  stage,          (* "idle", "fetching" to the end of its answer, "done"   *)
  closed,         (* no further stream of the part is handed out           *)
  unread,         (* an answer nobody read is being cancelled               *)
  exchange,       (* what is known of each exchange, and its part          *)
  carries,        (* what each socket carries: HTTP/2 more than one        *)
  destroyed,      (* sockets that are                                      *)
  other,          (* the requests of somebody else                         *)
  observing,      (* the diagnostics listeners are subscribed              *)
  observationsValid,
  requests,       (* what has been observed of the exchanges               *)
  owner,          (* socketOwners: whose headers each socket carried last  *)
  scope           (* the operation this upload is tracked in               *)

upload == <<via, stage, closed, unread>>
transport == <<carries, destroyed, other>>
observer == <<observing, observationsValid, requests, owner>>
vars == <<upload, exchange, transport, observer, scope>>

(* "http1" and "http2" are undici, which publishes diagnostics; "pinned"   *)
(* the dispatcher of the host guard, "silent" anything else.               *)
Transports == {"http1", "http2", "pinned", "silent"}

(* stage   "none", "created", "sending", "sent" to the end, "dead"         *)
(* part    the stream the encoder reads: "flowing", "ended", "errored" by  *)
(*         teardown, "failed" with the file                                *)
(* source  the file under it: "reading", "cancelling", "settled"           *)
(* piped   the pinned dispatcher pipes the encoded body into its request   *)
(* body    what the server has of it: a "truncated" one ends validly       *)
Exchange ==
  [stage : {"none", "created", "sending", "sent", "dead"},
   part : {"unstarted", "flowing", "ended", "errored", "failed"}, read : 0 .. Size,
   pulling : BOOLEAN, piped : BOOLEAN,
   source : {"unopened", "reading", "cancelling", "settled"},
   body : {"partial", "whole", "truncated"}]

NativeUpload ==
  [captured : BOOLEAN, stopped : BOOLEAN, socket : Sockets \cup {None}, stream : BOOLEAN]

TypeOK ==
  /\ via \in Transports
  /\ stage \in {"idle", "fetching", "done"}
  /\ closed \in BOOLEAN /\ unread \in BOOLEAN
  /\ exchange \in [Exchanges -> Exchange]
  /\ carries \in [Sockets -> SUBSET (Exchanges \cup Others)]
  /\ destroyed \subseteq Sockets
  /\ other \in [Others -> {"waiting", "running", "ended", "harmed"}]
  /\ observing \in BOOLEAN /\ observationsValid \in BOOLEAN
  /\ requests \in [Exchanges -> NativeUpload]
  /\ owner \in [Sockets -> Exchanges \cup Others \cup {None}]
  /\ scope \in [pending : Nat, done : BOOLEAN]

Unsent ==
  [stage |-> "none", part |-> "unstarted", read |-> 0, pulling |-> FALSE, piped |-> FALSE,
   source |-> "unopened", body |-> "partial"]

Unseen == [captured |-> FALSE, stopped |-> FALSE, socket |-> None, stream |-> FALSE]

Nothing == [e \in Exchanges |-> Unseen]
Nobody == [s \in Sockets |-> None]

Init ==
  /\ via \in Transports
  /\ stage = "idle" /\ closed = FALSE /\ unread = FALSE
  /\ exchange = [e \in Exchanges |-> Unsent]
  /\ carries = [s \in Sockets |-> {}] /\ destroyed = {}
  /\ other = [o \in Others |-> "waiting"]
  /\ observing = FALSE /\ observationsValid = TRUE
  /\ requests = Nothing /\ owner = Nobody
  /\ scope = [pending |-> 1, done |-> FALSE]
-------------------------------------------------------------------------------
(* The scope resolve() opens for the request, in an operation that is      *)
(* tracked; pending begins with the request's own result.  What has        *)
(* settled is released in the same turn.                                   *)

Observed(n) == scope' = [scope EXCEPT !.pending = @ + n]

Released(n) ==
  scope' = [pending |-> scope.pending - n, done |-> scope.done \/ scope.pending - n <= 0]
-------------------------------------------------------------------------------
(* The fetch function and the encoder, which are not of this repository.   *)

Alive(e) == exchange[e].stage \in {"created", "sending"}
Undici == via \in {"http1", "http2"}

Change(e, value) == exchange' = [exchange EXCEPT ![e] = value]

(* dispatch() of the pinned dispatcher: the request is made and the body   *)
(* piped into it in one turn, and the pipeline is observed.                *)
Dispatch(e) ==
  /\ via = "pinned" /\ stage = "fetching" /\ \A f \in Exchanges : exchange[f].stage = "none"
  /\ Change(e, [exchange[e] EXCEPT !.stage = "created", !.piped = TRUE])
  /\ Observed(1)
  /\ UNCHANGED <<upload, transport, observer>>

(* undici:request:create, in the context that run() has set.               *)
Create(e) ==
  /\ via # "pinned" /\ stage # "idle" /\ exchange[e].stage = "none"
  /\ Change(e, [exchange[e] EXCEPT !.stage = "created"])
  /\ requests' = [requests EXCEPT ![e].captured = Undici /\ observing]
  /\ UNCHANGED <<upload, transport, observing, observationsValid, owner, scope>>

(* A socket that takes one more request: HTTP/1 carries one at a time.     *)
Takes(s) == s \notin destroyed /\ (via # "http2" => carries[s] = {})

(* undici:client:sendHeaders, heard whoever sends them.                    *)
TakesHeaders(s, request) ==
  /\ carries' = [carries EXCEPT ![s] = @ \cup {request}]
  /\ owner' = IF observing THEN [owner EXCEPT ![s] = request] ELSE owner
  /\ UNCHANGED <<destroyed, observing, observationsValid>>

(* With HTTP/2 the stream follows at once, if its creation is published.   *)
SendHeaders(e, s, published) ==
  /\ exchange[e].stage = "created" /\ Undici /\ Takes(s)
  /\ TakesHeaders(s, e)
  /\ Change(e, [exchange[e] EXCEPT !.stage = "sending"])
  /\ requests' = IF requests[e].captured
                 THEN [requests EXCEPT ![e].socket = s, ![e].stream = published /\ via = "http2"]
                 ELSE requests
  /\ UNCHANGED <<upload, other, scope>>

Connect(e) ==
  /\ exchange[e].stage = "created" /\ ~ Undici
  /\ Change(e, [exchange[e] EXCEPT !.stage = "sending"])
  /\ UNCHANGED <<upload, transport, observer, scope>>

(* Of interest until the upload is torn down.                              *)
OtherSends(o, s) ==
  /\ stage # "done"
  /\ other[o] = "waiting" /\ Takes(s)
  /\ other' = [other EXCEPT ![o] = "running"]
  /\ TakesHeaders(s, o)
  /\ UNCHANGED <<upload, exchange, requests, scope>>

Without(request) == [s \in Sockets |-> carries[s] \ {request}]

OtherEnds(o) ==
  /\ stage # "done" /\ other[o] = "running"
  /\ other' = [other EXCEPT ![o] = "ended"]
  /\ carries' = Without(o)
  /\ UNCHANGED <<upload, exchange, destroyed, observer, scope>>

(* A connection is given to the next request once the body is sent and     *)
(* answered, which the reader of the answer may learn later.               *)
Reuse(e) ==
  /\ stage # "done" /\ exchange[e].stage = "sent" /\ \E s \in Sockets : e \in carries[s]
  /\ carries' = Without(e)
  /\ UNCHANGED <<upload, exchange, destroyed, other, observer, scope>>

(* requests.set(request, { ...state, stopped: true }) for a captured one.  *)
Stopped(seen) == [seen EXCEPT !.stopped = seen.captured]

(* undici:request:error; an HTTP/1 connection does not survive it.         *)
Lost(gone) == {s \in Sockets : via # "http2" /\ carries[s] \cap gone # {}}

Dies(e, call) ==
  /\ Change(e, [call EXCEPT !.stage = "dead"])
  /\ requests' = [requests EXCEPT ![e] = Stopped(@)]
  /\ carries' = Without(e)
  /\ destroyed' = destroyed \cup Lost({e})
  /\ UNCHANGED <<upload, other, observing, observationsValid, owner>>

TransportFails(e) == Alive(e) /\ Dies(e, exchange[e]) /\ UNCHANGED scope

(* The part has ended for the encoder, which writes the closing boundary;  *)
(* undici:request:bodySent.                                                *)
Flush(e) ==
  /\ exchange[e].stage = "sending" /\ exchange[e].part = "ended"
  /\ Change(e, [exchange[e] EXCEPT
       !.stage = "sent", !.body = IF exchange[e].read = Size THEN "whole" ELSE "truncated"])
  /\ requests' = [requests EXCEPT ![e] = Stopped(@)]
  /\ UNCHANGED <<upload, transport, observing, observationsValid, owner, scope>>

(* An encoder whose part fails gives up without a boundary, and a pipeline *)
(* with it.                                                                *)
EncoderFails(e) ==
  /\ Alive(e) /\ exchange[e].part \in {"errored", "failed"}
  /\ Dies(e, [exchange[e] EXCEPT !.piped = FALSE])
  /\ IF exchange[e].piped THEN Released(1) ELSE UNCHANGED scope

(* The pipeline of a request that is over ends with its source, which      *)
(* waits for the encoder and this one for the part.                        *)
PipelineEnds(e) ==
  /\ exchange[e].piped /\ ~ Alive(e) /\ exchange[e].part # "flowing"
  /\ Change(e, [exchange[e] EXCEPT !.piped = FALSE])
  /\ Released(1)
  /\ UNCHANGED <<upload, transport, observer>>

(* Another publisher of diagnostics makes no sense.                        *)
Malformed ==
  /\ observing /\ observationsValid
  /\ observationsValid' = FALSE
  /\ UNCHANGED <<upload, exchange, transport, observing, requests, owner, scope>>
-------------------------------------------------------------------------------
(* The file part: the stream that ownUploadStreams hands out.              *)

(* A mutated form: a stream is handed out whenever the encoder asks.       *)
RefusesNever == FALSE

(* Upload stream is closed.                                                *)
RefusesStream == closed

(* stream(): its lifetime is observed.                                     *)
OpenStream(e) ==
  /\ Alive(e) /\ exchange[e].part = "unstarted" /\ ~ RefusesStream
  /\ Change(e, [exchange[e] EXCEPT !.part = "flowing", !.source = "reading"])
  /\ Observed(1)
  /\ UNCHANGED <<upload, transport, observer>>

StreamRefused(e) ==
  /\ Alive(e) /\ exchange[e].part = "unstarted" /\ RefusesStream
  /\ Dies(e, [exchange[e] EXCEPT !.part = "errored"])
  /\ UNCHANGED scope

Pull(e) ==
  /\ Alive(e) /\ exchange[e].part = "flowing" /\ ~ exchange[e].pulling
  /\ Change(e, [exchange[e] EXCEPT !.pulling = TRUE])
  /\ Observed(1)
  /\ UNCHANGED <<upload, transport, observer>>

(* The read of a pull ends; a stream that finished meanwhile does not care.*)
ReadAfterFinish(e) ==
  /\ exchange[e].pulling /\ exchange[e].source # "reading"
  /\ Change(e, [exchange[e] EXCEPT !.pulling = FALSE])
  /\ Released(1)
  /\ UNCHANGED <<upload, transport, observer>>

ReadChunk(e) ==
  /\ exchange[e].pulling /\ exchange[e].source = "reading" /\ exchange[e].read < Size
  /\ Change(e, [exchange[e] EXCEPT !.pulling = FALSE, !.read = @ + 1])
  /\ Released(1)
  /\ UNCHANGED <<upload, transport, observer>>

(* complete(): the stream ends with the file, or fails with it.            *)
Completes(e, part) ==
  /\ exchange[e].pulling /\ exchange[e].source = "reading"
  /\ Change(e, [exchange[e] EXCEPT !.pulling = FALSE, !.part = part, !.source = "settled"])
  /\ Released(2)
  /\ UNCHANGED <<upload, transport, observer>>

ReadDone(e) == exchange[e].read = Size /\ Completes(e, "ended")

ReadFails(e) == Completes(e, "failed")

(* cancel(): without proof that the transport has stopped, the part fails. *)
Cancelled(call, aborted) ==
  [call EXCEPT !.part = IF aborted THEN "ended" ELSE "errored", !.source = "cancelling"]

(* The transport is gone and cancels what it was reading: the part is      *)
(* closed by then, and cancel() can neither close nor fail it.             *)
ConsumerCancels(e) ==
  /\ exchange[e].stage = "dead" /\ exchange[e].source = "reading"
  /\ Change(e, Cancelled(exchange[e], TRUE))
  /\ Observed(1)
  /\ UNCHANGED <<upload, transport, observer>>

(* The cancellation of the file settles, either way; complete().           *)
CancelSettles(e) ==
  /\ exchange[e].source = "cancelling"
  /\ Change(e, [exchange[e] EXCEPT !.source = "settled"])
  /\ Released(2)
  /\ UNCHANGED <<upload, transport, observer>>
-------------------------------------------------------------------------------
(* Proof that the transport has stopped, from what has been seen of the    *)
(* exchanges and from the sockets that are gone.                           *)

Captured(seen) == {e \in Exchanges : seen[e].captured}

Usable(seen) == observationsValid /\ Captured(seen) # {}

(* Exchanges with a socket to lose that nothing else has stopped.          *)
Unstopped(seen, gone) ==
  {e \in Captured(seen) : ~ seen[e].stopped /\ ~ seen[e].stream /\ seen[e].socket \notin gone \cup {None}}

(* A mutated form: the socket is destroyed whatever else it carries.       *)
OwnedShared(seen, gone) == {seen[e].socket : e \in Unstopped(seen, gone)}

(* The sockets an HTTP/1 upload still owns, which stop() destroys.         *)
Owned(seen, gone) ==
  {seen[e].socket : e \in {f \in Unstopped(seen, gone) : via = "http1" /\ owner[seen[f].socket] = f}}

(* Such an exchange cannot send any more once stop() is through.           *)
HasStopped(one, gone) ==
  \/ one.stopped \/ one.stream
  \/ one.socket # None /\ (one.socket \in gone \/ via = "http1")

(* A mutated form: no evidence is taken for proof.                         *)
stopUnproven(seen, gone) ==
  observationsValid /\ \A e \in Captured(seen) : HasStopped(seen[e], gone)

stop(seen, gone) ==
  Usable(seen) /\ \A e \in Captured(seen) : HasStopped(seen[e], gone)

hasStoppedUploading(silenced) ==
  /\ via = "pinned"
  /\ \E e \in Exchanges : exchange[e].stage # "none"
  /\ \A e \in Exchanges : e \in silenced \/ exchange[e].stage \in {"none", "sent", "dead"}

(* What is destroyed with these sockets.                                   *)
CarriedBy(sockets) == UNION {carries[s] : s \in sockets}
-------------------------------------------------------------------------------
(* attemptPipeline.                                                        *)

Fetch ==
  /\ stage = "idle"
  /\ stage' = "fetching"
  /\ observing' = TRUE
  /\ UNCHANGED <<via, closed, unread, exchange, transport, observationsValid, requests, owner, scope>>

Files(sources) == {e \in Exchanges : exchange[e].source \in sources}

(* A mutated form: the part fails whether the transport has stopped or not. *)
TornDownUnproven(call, aborted) ==
  IF call.source = "reading" THEN Cancelled(call, FALSE) ELSE call

(* cleanup(): every stream that is not finished is cancelled.              *)
TornDown(call, aborted) == IF call.source = "reading" THEN Cancelled(call, aborted) ELSE call

(* The signal is aborted, which reaches some of the exchanges.             *)
Seen(reached) == [e \in Exchanges |-> IF e \in reached THEN Stopped(requests[e]) ELSE requests[e]]
Gone(reached) == destroyed \cup Lost(reached)

(* Then what is left is stopped where it can be.                           *)
Destroys(reached) == IF Usable(Seen(reached)) THEN Owned(Seen(reached), Gone(reached)) ELSE {}

Resets(reached) ==
  {e \in Exchanges : Usable(Seen(reached)) /\ Alive(e)
                       /\ (Seen(reached)[e].stream \/ e \in CarriedBy(Destroys(reached)))}

Proof(reached) == hasStoppedUploading(reached) \/ stop(Seen(reached), Gone(reached))

Left(e, silenced) == IF e \in silenced THEN [exchange[e] EXCEPT !.stage = "dead"] ELSE exchange[e]

(* The finally block, however the attempt ended; last the streams are torn *)
(* down, the listeners removed and an answer that was not read cancelled,  *)
(* which is observed.  The pinned dispatcher obeys the signal, or has      *)
(* destroyed its request when the answer was complete.                     *)
Finally(reached, unreadAnswer) ==
  /\ stage = "fetching"
  /\ unreadAnswer => \E e \in Exchanges : exchange[e].stage # "none"
  /\ via = "pinned" => reached = {e \in Exchanges : Alive(e)}
  /\ exchange' = [e \in Exchanges |-> TornDown(Left(e, reached \cup Resets(reached)), Proof(reached))]
  /\ unread' = unreadAnswer
  /\ destroyed' = Gone(reached) \cup Destroys(reached)
  /\ carries' = [s \in Sockets |-> IF s \in Gone(reached) \cup Destroys(reached) THEN {}
                                     ELSE carries[s] \ (reached \cup Resets(reached))]
  /\ other' = [o \in Others |-> IF o \in CarriedBy(Destroys(reached)) THEN "harmed" ELSE other[o]]
  /\ Released((IF unreadAnswer THEN 0 ELSE 1) - Cardinality(Files({"reading"})))
  /\ closed' = TRUE
  /\ stage' = "done"
  /\ observing' = FALSE /\ requests' = Nothing /\ owner' = Nobody
  /\ UNCHANGED <<via, observationsValid>>

AnswerCancelled ==
  /\ unread /\ unread' = FALSE
  /\ Released(1)
  /\ UNCHANGED <<via, stage, closed, exchange, transport, observer>>

Next ==
  \/ Fetch \/ Malformed \/ AnswerCancelled
  \/ \E reached \in SUBSET {e \in Exchanges : Alive(e)}, unreadAnswer \in BOOLEAN :
       Finally(reached, unreadAnswer)
  \/ \E e \in Exchanges :
       \/ Dispatch(e) \/ PipelineEnds(e)
       \/ Create(e) \/ Connect(e) \/ TransportFails(e) \/ Flush(e) \/ EncoderFails(e) \/ Reuse(e)
       \/ OpenStream(e) \/ StreamRefused(e) \/ Pull(e)
       \/ ReadAfterFinish(e) \/ ReadChunk(e) \/ ReadDone(e) \/ ReadFails(e)
       \/ ConsumerCancels(e) \/ CancelSettles(e)
       \/ \E s \in Sockets, published \in BOOLEAN : SendHeaders(e, s, published)
  \/ \E o \in Others :
       \/ OtherEnds(o)
       \/ \E s \in Sockets : OtherSends(o, s)

(* Reads and cancellations settle, of a local file and of an answer whose  *)
(* request was aborted, and so does a pipeline whose request is over.  Not *)
(* so, perhaps, one whose encoder was reading a part that failed: it may   *)
(* stay pending for ever.                                                  *)
MayStayPending(e) == exchange[e].piped /\ exchange[e].part \in {"errored", "failed"}

Fairness ==
  /\ \A e \in Exchanges :
       /\ WF_vars(ReadAfterFinish(e) \/ ReadChunk(e) \/ ReadDone(e) \/ ReadFails(e))
       /\ WF_vars(CancelSettles(e))
       /\ WF_vars(PipelineEnds(e) /\ ~ MayStayPending(e))
  /\ WF_vars(AnswerCancelled)

Spec == Init /\ [][Next]_vars
FairSpec == Spec /\ Fairness
-------------------------------------------------------------------------------
(* The server never gets a part of the file under a valid closing          *)
(* boundary, however fetch, encoder and teardown interleave.               *)
NoTruncatedBody == \A e \in Exchanges : exchange[e].body # "truncated"

(* Teardown ends no request of anybody else.                               *)
OthersUnharmed == \A o \in Others : other[o] # "harmed"

(* An operation has settled only when its file is not read, held or being  *)
(* cancelled any more, its body not piped and its answer not cancelled,    *)
(* and nothing starts to later.                                            *)
SettledIsQuiet ==
  scope.done =>
    /\ stage = "done" /\ ~ unread
    /\ \A e \in Exchanges : /\ ~ exchange[e].pulling /\ ~ exchange[e].piped
                              /\ exchange[e].source \in {"unopened", "settled"}

(* The operation of an upload that has ended settles, however the encoder  *)
(* and the transport were interrupted: teardown leaves no encoder pending. *)
(* The exception is a body still piped whose file could not be read: the   *)
(* encoder of Node may stay pending on a part that fails while it is       *)
(* itself cancelled, and no part of this code could end it.                *)
OperationSettles ==
  (stage = "done" /\ \A e \in Exchanges : ~ (exchange[e].piped /\ exchange[e].part = "failed"))
    ~> scope.done
-------------------------------------------------------------------------------
(* Why it is safe.                                                         *)

Pulls == {e \in Exchanges : exchange[e].pulling}
Pipes == {e \in Exchanges : exchange[e].piped}

(* The scope counts what is outstanding: the result, or the cancellation   *)
(* of an answer after it, each stream from its beginning to complete(),    *)
(* each cancellation, each read and each pipeline.                         *)
PendingCounts ==
  scope.pending = (IF stage = "done" /\ ~ unread THEN 0 ELSE 1)
                  + Cardinality(Files({"reading", "cancelling"}))
                  + Cardinality(Files({"cancelling"})) + Cardinality(Pulls) + Cardinality(Pipes)

(* The listeners are there while the upload is under way; after it nothing *)
(* is read and no stream is handed out.                                    *)
UnderWay ==
  /\ observing <=> stage = "fetching"
  /\ closed <=> stage = "done"
  /\ ~ observing => requests = Nothing /\ owner = Nobody
  /\ unread => stage = "done"
  /\ stage = "idle" => \A e \in Exchanges : exchange[e] = Unsent
  /\ closed => Files({"reading"}) = {}

(* The part of an exchange flows while its file is read, and ends early    *)
(* only for an exchange that cannot send.                                  *)
PartsFollowFiles ==
  \A e \in Exchanges :
    /\ exchange[e].source = "reading" <=> exchange[e].part = "flowing"
    /\ exchange[e].part = "unstarted" => exchange[e].source = "unopened"
    /\ exchange[e].stage = "none" => exchange[e].part = "unstarted" /\ ~ exchange[e].piped
    /\ exchange[e].part = "ended" /\ exchange[e].read # Size => ~ Alive(e)

(* A socket carries what is being sent on it, one request at a time with   *)
(* HTTP/1, and nothing once it is destroyed.                               *)
SocketsCarry ==
  \A s \in Sockets :
    /\ via # "http2" => \A a, b \in carries[s] : a = b
    /\ s \in destroyed => carries[s] = {}
    /\ \A o \in Others : o \in carries[s] => owner[s] \in {o, None} \/ via = "http2"

(* What is observed of an exchange that may still send identifies it.      *)
ObservedIdentify ==
  \A e \in Exchanges :
    /\ observing /\ Undici /\ exchange[e].stage # "none" => requests[e].captured
    /\ requests[e].captured /\ exchange[e].stage = "sending" =>
         /\ requests[e].socket \in Sockets /\ e \in carries[requests[e].socket]
         /\ via = "http1" => owner[requests[e].socket] = e
    /\ requests[e].captured => Undici
    /\ requests[e].socket # None => requests[e].captured /\ exchange[e].stage \notin {"none", "created"}
    /\ requests[e].stopped => exchange[e].stage \in {"sent", "dead"}

IInv ==
  /\ TypeOK /\ PendingCounts /\ UnderWay /\ PartsFollowFiles /\ SocketsCarry /\ ObservedIdentify
  /\ NoTruncatedBody /\ OthersUnharmed /\ SettledIsQuiet
===============================================================================
