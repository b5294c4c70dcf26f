-------------------------------- MODULE Api --------------------------------
(***************************************************************************)
(* One HTTP call against the server: the native routes /generate and      *)
(* /generate/stream (server/api.py) and the OpenAI routes /v1/completions  *)
(* and /v1/chat/completions with and without streaming (server/openai.py). *)
(* The handler runs on the event loop and is interleaved, at its awaits,   *)
(* with the worker thread that owns the request (server/continuous.py),    *)
(* with the deadline, with the client hanging up and with shutdown.        *)
(*                                                                         *)
(* Service is the model of the worker with several clients; here it is     *)
(* reduced to what one handle can see of it, losses included: a handle put *)
(* after the worker's last look at its inbox is never completed.           *)
(* Text is what tokenizer.decode makes of tokens: a sequence of characters *)
(* where special tokens vanish and an unfinished multi-byte character is a *)
(* replacement character until its second half arrives.                    *)
(***************************************************************************)
EXTENDS Naturals, Sequences, SequencesExt, FiniteSets

CONSTANTS
  Route,            \* routes the client may call
  Token,            \* tokens the engine may emit
  MaxNew,           \* max_new_tokens of the call
  PromptLens,       \* prompt lengths, in tokens
  MaxPromptTokens,  \* max_prompt_tokens
  MaxModelLen,      \* engine.max_model_len
  Stops             \* stop strings the client may send (sets of them)

\* A stop string is a sequence of characters; lengths are numbers.
ASSUME ApiAssumption ==
  /\ \A stops \in Stops : \A s \in stops : s \in Seq(STRING)
  /\ PromptLens \subseteq Nat /\ {MaxNew, MaxPromptTokens, MaxModelLen} \subseteq Nat

VARIABLES
  call,    \* what the client sent: route, prompt length, stop strings, unsupported field
  pc,      \* where the handler stands
  svc,     \* the service as the handlers see it
  req,     \* GenerationRequest: state and finish_reason
  out,     \* output_token_ids, appended to by the worker thread
  handle,  \* RequestHandle: completed, accepted, error
  where,   \* where the service keeps the handle
  cancels, \* the cancellation queue (the reasons, all for this request)
  waiter,  \* callback registered on the handle
  woken,   \* the callback has run
  expired, \* request_timeout_s has passed
  gone,    \* the client has disconnected
  done,    \* _stream's local copy of completed.is_set()
  sent,    \* what the client has received of the generation
  resp     \* status line and finish reason received

vars == <<call, pc, svc, req, out, handle, where, cancels, waiter, woken, expired,
          gone, done, sent, resp>>
worker == <<svc, req, out, handle, where>>
local  == <<waiter, woken, done>>

Native    == {"generate", "generate_stream"}
Streaming == {"generate_stream", "openai_stream"}
None      == "none"
Live      == {"WAITING", "ACTIVE"}
Ending    == {<<"FINISHED", "EOS">>, <<"FINISHED", "LENGTH">>, <<"FINISHED", "STOP">>,
              <<"FAILED", "KV_POOL_EXHAUSTED">>, <<"FAILED", "INVALID_PREFIX_ENTRY">>,
              <<"REJECTED", "QUEUE_FULL">>, <<"REJECTED", "KV_CAPACITY_EXCEEDED">>}

Init ==
  /\ call \in [route : Route, prompt : PromptLens, stops : Stops, unsupported : BOOLEAN]
  /\ call.route \in Native => call.stops = {} /\ ~call.unsupported
  /\ pc = "start" /\ svc = "loading"
  /\ req = [state |-> "WAITING", reason |-> None] /\ out = <<>>
  /\ handle = [completed |-> FALSE, accepted |-> FALSE, error |-> None]
  /\ where = "nowhere" /\ cancels = <<>>
  /\ waiter = None /\ woken = FALSE /\ expired = FALSE /\ gone = FALSE
  /\ done = FALSE /\ sent = <<>> /\ resp = [status |-> 0, finish |-> None]

---------------------------------------------------------------------------
(* Text.                                                                   *)

\* What one more token does to the text: "<eos>" vanishes, "<h1>" is the first half of a
\* character that "<h2>" completes.
Shown(text, t) ==
  CASE t = "<eos>" -> text
    [] t = "<h2>" /\ text # <<>> /\ Last(text) = "?" -> Append(Front(text), "e'")
    [] t = "<h1>" \/ (t = "<h2>" /\ (text = <<>> \/ Last(text) # "?")) -> Append(text, "?")
    [] OTHER -> Append(text, t)

\* tokenizer.decode(ids, skip_special_tokens=True).
Decode(ids) ==
  LET text[i \in 0 .. Len(ids)] == IF i = 0 THEN <<>> ELSE Shown(text[i - 1], ids[i])
  IN  text[Len(ids)]

\* text.find(stop): the first index (from 0) at which stop occurs.
Occurrences(text, stop) ==
  {i \in 0 .. Len(text) - Len(stop) : SubSeq(text, i + 1, i + Len(stop)) = stop}

\* Mutant: the longest cut instead of the earliest one.
TruncateAtLatest(text, stops) ==
  LET cuts == UNION {Occurrences(text, s) : s \in stops \ {<<>>}}
  IN  IF cuts = {} THEN [text |-> text, hit |-> FALSE]
      ELSE [text |-> SubSeq(text, 1, CHOOSE i \in cuts : \A j \in cuts : i >= j),
            hit |-> TRUE]

\* truncate_at_stop: the text up to the earliest occurrence of any stop string.
TruncateAtStop(text, stops) ==
  LET cuts == UNION {Occurrences(text, s) : s \in stops \ {<<>>}}
  IN  IF cuts = {} THEN [text |-> text, hit |-> FALSE]
      ELSE [text |-> SubSeq(text, 1, CHOOSE i \in cuts : \A j \in cuts : i <= j),
            hit |-> TRUE]

---------------------------------------------------------------------------
(* The service: what the worker thread and shutdown do to this handle.     *)

Ready == svc = "ready"
Ended == req.state \notin Live
Working == svc \in {"ready", "draining", "closing"}

\* _complete: completed is set once, the error kept, the callbacks run, then _accept.
Completed(error) ==
  IF handle.completed THEN UNCHANGED <<handle, woken>>
  ELSE /\ handle' = [completed |-> TRUE, accepted |-> TRUE, error |-> error]
       /\ woken' = (woken \/ waiter # None)

Loaded == svc = "loading" /\ svc' = "ready"
          /\ UNCHANGED <<call, pc, req, out, handle, where, cancels, local, expired, gone, sent, resp>>

Drain == svc = "ready" /\ svc' = "draining"
         /\ UNCHANGED <<call, pc, req, out, handle, where, cancels, local, expired, gone, sent, resp>>

\* drain() gives up waiting, or finds nothing outstanding, and cancels the leftovers.
Leftovers ==
  /\ svc = "draining" /\ svc' = "closing"
  /\ cancels' = IF where = "active" /\ ~handle.completed
                THEN Append(cancels, "SERVER_SHUTDOWN") ELSE cancels
  /\ UNCHANGED <<call, pc, req, out, handle, where, local, expired, gone, sent, resp>>

\* _drain_inbox takes the handle: the scheduler queues the request or rejects it.
Accept ==
  /\ Working /\ where = "inbox"
  /\ \/ /\ where' = "active" /\ handle' = [handle EXCEPT !.accepted = TRUE]
        /\ woken' = (woken \/ waiter = "accept")
        /\ UNCHANGED req
     \/ /\ where' = "gone" /\ req' = [state |-> "REJECTED", reason |-> "QUEUE_FULL"]
        /\ Completed("rejected")
  /\ UNCHANGED <<call, pc, svc, out, cancels, waiter, done, expired, gone, sent, resp>>

\* A step appends a token of this request.
Emit ==
  /\ Working /\ where = "active" /\ ~Ended
  /\ Len(out) < MaxNew /\ (out # <<>> => Last(out) # "<eos>")
  /\ \E t \in Token : out' = Append(out, t)
  /\ req' = [req EXCEPT !.state = "ACTIVE"]
  /\ UNCHANGED <<call, pc, svc, handle, where, cancels, local, expired, gone, sent, resp>>

\* A step ends the request: by its last token, or because the pool cannot hold it.
End ==
  /\ Working /\ where = "active" /\ ~Ended
  /\ \E e \in Ending :
       /\ e[1] = "FINISHED" =>
            /\ out # <<>>
            /\ e[2] = (IF Last(out) = "<eos>" THEN "EOS"
                       ELSE IF Len(out) = MaxNew THEN "LENGTH" ELSE "STOP")
       /\ e[1] = "REJECTED" => e[2] = "KV_CAPACITY_EXCEEDED" /\ req.state = "WAITING"
       /\ req' = [state |-> e[1], reason |-> e[2]]
  /\ UNCHANGED <<call, pc, svc, out, handle, where, cancels, local, expired, gone, sent, resp>>

PublishCompleted ==
  /\ Working /\ where = "active" /\ Ended
  /\ where' = "gone" /\ Completed(None)
  /\ UNCHANGED <<call, pc, svc, req, out, cancels, waiter, done, expired, gone, sent, resp>>

\* _apply_cancellations: one entry; unknown and ended requests are skipped.
ApplyCancel ==
  /\ Working /\ cancels # <<>> /\ cancels' = Tail(cancels)
  /\ IF where = "active" /\ ~Ended
     THEN /\ req' = [state |-> "CANCELLED", reason |-> Head(cancels)]
          /\ where' = "gone" /\ Completed(None)
     ELSE UNCHANGED <<req, where, handle, woken>>
  /\ UNCHANGED <<call, pc, svc, out, waiter, done, expired, gone, sent, resp>>

\* _fail_all, by the worker that hit an engine error or by stop().
FailAll ==
  /\ \/ Working /\ svc' = "dead"
     \/ svc \in {"closing", "dead"} /\ svc' = "stopped"
  /\ IF where \in {"inbox", "active"}
     THEN where' = "gone" /\ Completed(IF svc' = "dead" THEN "engine" ELSE "shutdown")
     ELSE UNCHANGED <<where, handle, woken>>
  /\ UNCHANGED <<call, pc, req, out, cancels, waiter, done, expired, gone, sent, resp>>

\* lifespan ends: service = None.
Unbind == svc = "stopped" /\ svc' = "none"
          /\ UNCHANGED <<call, pc, req, out, handle, where, cancels, local, expired, gone, sent, resp>>

Worker == \/ Loaded \/ Accept \/ Emit \/ End \/ PublishCompleted \/ ApplyCancel
          \/ Drain \/ Leftovers \/ FailAll \/ Unbind

DeadlinePasses ==
  /\ ~expired /\ pc \in {"waiting", "loop", "text", "yielded", "push"} /\ expired' = TRUE
  /\ UNCHANGED <<call, pc, worker, cancels, local, gone, sent, resp>>

ClientLeaves ==
  /\ ~gone /\ pc # "over" /\ gone' = TRUE
  /\ UNCHANGED <<call, pc, worker, cancels, local, expired, sent, resp>>

---------------------------------------------------------------------------
(* The handler, from await to await.                                       *)

\* service.cancel: only while the handle is not completed.
Queued(reasons) == IF handle.completed THEN cancels ELSE cancels \o reasons

Respond(status) ==
  /\ pc' = "over" /\ resp' = [resp EXCEPT !.status = status]

\* The handler returns or raises before it has a handle.
Refuse(status) == Respond(status) /\ UNCHANGED where

\* require_service and, on the native routes, current.ready; then tokenize.
Enter ==
  /\ pc = "start"
  /\ IF svc \in {"loading", "none"} \/ (call.route \in Native /\ ~Ready)
     THEN Respond(503)
     ELSE pc' = "tokenizing" /\ UNCHANGED resp
  /\ UNCHANGED <<call, worker, cancels, local, expired, gone, sent>>

\* The checks of submit/_submit in the order of the code, ContinuousBatchingService.submit
\* included; 0 when the call may be queued.
Refusal ==
  LET openai == call.route \notin Native IN
  IF openai /\ (svc = "none" \/ ~Ready) THEN 503
  ELSE IF openai /\ (call.unsupported \/ call.prompt = 0) THEN 400
  ELSE IF call.prompt > MaxPromptTokens THEN 413
  ELSE IF call.prompt + MaxNew > MaxModelLen THEN 400
  ELSE IF ~Ready THEN 503
  ELSE IF call.prompt = 0 THEN 400 ELSE 0

Validate ==
  /\ pc = "tokenizing"
  /\ IF Refusal # 0 THEN Respond(Refusal) ELSE pc' = "put" /\ UNCHANGED resp
  /\ UNCHANGED <<call, worker, cancels, local, expired, gone, sent>>

\* put_nowait: the inbox may be full. The service may have stopped since it was checked.
Put ==
  /\ pc = "put"
  /\ \/ Refuse(429)
     \/ /\ where' = "inbox" /\ UNCHANGED resp
        /\ pc' = IF call.route \in Native THEN "register" ELSE "loop"
  /\ UNCHANGED <<call, svc, req, out, handle, cancels, local, expired, gone, sent>>

\* Mutant: registers without looking at the event again.
RegisterBlindly ==
  /\ pc = "register" /\ pc' = "waiting"
  /\ waiter' = (IF call.route = "generate" THEN "complete" ELSE "accept")
  /\ UNCHANGED <<call, worker, cancels, woken, done, expired, gone, sent, resp>>

\* on_complete / on_accept: run the callback now if the event is already set.
Register ==
  /\ pc = "register" /\ pc' = "waiting"
  /\ LET event == IF call.route = "generate" THEN handle.completed ELSE handle.accepted
     IN  IF event THEN woken' = TRUE /\ UNCHANGED waiter
         ELSE waiter' = (IF call.route = "generate" THEN "complete" ELSE "accept")
              /\ UNCHANGED woken
  /\ UNCHANGED <<call, worker, cancels, done, expired, gone, sent, resp>>

\* terminal_status: 0 for a handle in flight or finished normally.
TerminalStatus ==
  CASE req.state = "FINISHED" -> 0
    [] req.state = "REJECTED" -> IF req.reason = "KV_CAPACITY_EXCEEDED" THEN 413 ELSE 429
    [] req.state = "FAILED" -> IF req.reason = "KV_POOL_EXHAUSTED" THEN 503 ELSE 500
    [] req.state = "CANCELLED" -> IF req.reason = "TIMEOUT" THEN 504
                                  ELSE IF req.reason = "SERVER_SHUTDOWN" THEN 503 ELSE 499
    [] ~Ended -> IF handle.error = None THEN 0
                 ELSE IF handle.error = "shutdown" THEN 503 ELSE 500

\* Mutant: waits without the deadline.
AnswerUntimed ==
  /\ pc = "waiting" /\ call.route = "generate" /\ woken
  /\ IF TerminalStatus # 0 THEN Respond(TerminalStatus) /\ UNCHANGED sent
     ELSE pc' = "over" /\ sent' = out /\ resp' = [status |-> 200, finish |-> req.reason]
  /\ UNCHANGED <<call, worker, cancels, local, expired, gone>>

\* /generate after wait_for: 504 on the deadline, else the handle's outcome.
Answer ==
  /\ pc = "waiting" /\ call.route = "generate"
  /\ \/ /\ woken /\ UNCHANGED cancels
        /\ IF TerminalStatus # 0 THEN Respond(TerminalStatus) /\ UNCHANGED sent
           ELSE /\ pc' = "over" /\ sent' = out
                /\ resp' = [status |-> 200, finish |-> req.reason]
     \/ expired /\ cancels' = Queued(<<"TIMEOUT">>) /\ Respond(504) /\ UNCHANGED sent
  /\ UNCHANGED <<call, worker, local, expired, gone>>

\* /generate/stream after wait_for_admission: a real status, or the stream opens.
Admitted ==
  /\ pc = "waiting" /\ call.route = "generate_stream"
  /\ \/ /\ woken /\ UNCHANGED cancels
        /\ IF TerminalStatus # 0 THEN Respond(TerminalStatus)
           ELSE pc' = "loop" /\ resp' = [resp EXCEPT !.status = 200]
     \/ expired /\ cancels' = Queued(<<"TIMEOUT">>) /\ Respond(504)
  /\ UNCHANGED <<call, worker, local, expired, gone, sent>>

Over(finish) == pc' = "over" /\ resp' = [resp EXCEPT !.finish = finish]

\* events(): the top of the loop. A completed handle leads to the closing events,
\* a disconnect to the finally clause alone, the deadline to an error event.
EventsTop ==
  /\ pc = "loop" /\ call.route = "generate_stream"
  /\ \/ handle.completed /\ pc' = "tail" /\ UNCHANGED <<cancels, resp>>
     \/ ~handle.completed /\ gone /\ cancels' = Queued(<<"CLIENT_DISCONNECTED">>) /\ Over(None)
     \/ ~handle.completed /\ expired
        /\ cancels' = Queued(<<"TIMEOUT", "CLIENT_DISCONNECTED">>) /\ Over("TIMEOUT")
     \/ ~handle.completed /\ ~gone /\ ~expired /\ pc' = "push" /\ UNCHANGED <<cancels, resp>>
  /\ UNCHANGED <<call, worker, local, expired, gone, sent>>

\* One token event while the list, which the worker extends, holds more than was sent.
Push ==
  /\ pc = "push"
  /\ IF Len(sent) < Len(out) THEN sent' = Append(sent, out[Len(sent) + 1]) /\ UNCHANGED pc
     ELSE pc' = "loop" /\ UNCHANGED sent
  /\ UNCHANGED <<call, worker, cancels, local, expired, gone, resp>>

\* The closing events: an error event, or the tokens that are left and the finish reason.
Closing ==
  /\ pc = "tail"
  /\ IF TerminalStatus # 0 THEN Over("error") /\ UNCHANGED sent
     ELSE IF Len(sent) < Len(out)
          THEN sent' = Append(sent, out[Len(sent) + 1]) /\ UNCHANGED <<pc, resp>>
          ELSE Over(req.reason) /\ UNCHANGED sent
  /\ UNCHANGED <<call, worker, cancels, local, expired, gone>>

\* openai._finish_reason.
FinishReason == IF req.reason = "LENGTH" THEN "length" ELSE "stop"

\* _collect: one turn of the polling loop, or the answer once the handle is completed.
Collect ==
  LET cut == TruncateAtStop(Decode(out), call.stops) IN
  /\ pc = "loop" /\ call.route = "openai"
  /\ \/ /\ ~handle.completed /\ expired
        /\ cancels' = Queued(<<"TIMEOUT">>) /\ Respond(504) /\ UNCHANGED sent
     \/ /\ ~handle.completed /\ ~expired /\ cut.hit
        /\ cancels' = Queued(<<"STOP_SEQUENCE">>) /\ sent' = cut.text
        /\ pc' = "over" /\ resp' = [status |-> 200, finish |-> "stop"]
     \/ /\ handle.completed /\ UNCHANGED cancels
        /\ IF handle.error # None /\ ~Ended THEN Respond(503) /\ UNCHANGED sent
           ELSE /\ pc' = "over" /\ sent' = cut.text
                /\ resp' = [status |-> 200, finish |-> IF cut.hit THEN "stop" ELSE FinishReason]
  /\ UNCHANGED <<call, worker, local, expired, gone>>

\* _stream: the top of the loop up to `done = handle.completed.is_set()`.
StreamTop ==
  /\ pc = "loop" /\ call.route = "openai_stream"
  /\ \/ /\ gone /\ cancels' = Queued(<<"CLIENT_DISCONNECTED", "CLIENT_DISCONNECTED">>)
        /\ Over(None) /\ UNCHANGED done
     \/ /\ ~gone /\ expired /\ cancels' = Queued(<<"TIMEOUT", "CLIENT_DISCONNECTED">>)
        /\ resp' = [status |-> 200, finish |-> "length"] /\ pc' = "over" /\ UNCHANGED done
     \/ /\ ~gone /\ ~expired /\ done' = handle.completed /\ pc' = "text"
        /\ resp' = [resp EXCEPT !.status = 200] /\ UNCHANGED cancels
  /\ UNCHANGED <<call, worker, waiter, woken, expired, gone, sent>>

\* The text so far, cut at a stop string; what is longer than the text sent is sent.
Delta ==
  LET cut == TruncateAtStop(Decode(out), call.stops) IN
  /\ pc = "text"
  /\ sent' = IF Len(cut.text) > Len(sent)
             THEN sent \o SubSeq(cut.text, Len(sent) + 1, Len(cut.text)) ELSE sent
  /\ pc' = IF cut.hit THEN "stopped" ELSE "yielded"
  /\ UNCHANGED <<call, worker, cancels, local, expired, gone, resp>>

\* Mutant: asks whether the handle is completed after the text was taken.
YieldedLate ==
  /\ \/ /\ pc = "stopped" /\ cancels' = Queued(<<"STOP_SEQUENCE", "CLIENT_DISCONNECTED">>)
        /\ Over("stop")
     \/ pc = "yielded" /\ handle.completed /\ Over(FinishReason) /\ UNCHANGED cancels
     \/ pc = "yielded" /\ ~handle.completed /\ pc' = "loop" /\ UNCHANGED <<cancels, resp>>
  /\ UNCHANGED <<call, worker, local, expired, gone, sent>>

\* After the yield: a stop string cancels the request, a completed handle ends the
\* stream, otherwise the loop goes on. [DONE] and the finally clause follow at once.
Yielded ==
  /\ \/ /\ pc = "stopped" /\ cancels' = Queued(<<"STOP_SEQUENCE", "CLIENT_DISCONNECTED">>)
        /\ Over("stop")
     \/ pc = "yielded" /\ done /\ Over(FinishReason) /\ UNCHANGED cancels
     \/ pc = "yielded" /\ ~done /\ pc' = "loop" /\ UNCHANGED <<cancels, resp>>
  /\ UNCHANGED <<call, worker, local, expired, gone, sent>>

\* Mutant: without the finally clause.
StreamClosedQuietly ==
  /\ gone /\ call.route \in Streaming
  /\ pc \in {"push", "tail", "text", "yielded", "stopped"}
  /\ pc' = "over"
  /\ UNCHANGED <<call, worker, cancels, local, expired, gone, sent, resp>>

\* Starlette closes the generator of a stream whose socket is gone; only the finally
\* clause runs.
StreamClosed ==
  /\ gone /\ call.route \in Streaming
  /\ pc \in {"push", "tail", "text", "yielded", "stopped"}
  /\ pc' = "over" /\ cancels' = Queued(<<"CLIENT_DISCONNECTED">>)
  /\ UNCHANGED <<call, worker, local, expired, gone, sent, resp>>

Handler == \/ Enter \/ Validate \/ Put \/ Register \/ Answer \/ Admitted \/ EventsTop
           \/ Push \/ Closing \/ Collect \/ StreamTop \/ Delta \/ Yielded \/ StreamClosed

Next == Worker \/ Handler \/ DeadlinePasses \/ ClientLeaves

\* The event loop runs every handler that can go on, clocks advance, and the model is
\* loaded or the process would not be there. Nothing is assumed of the worker: it may
\* hang in a step, die, or never see the handle.
Fairness == WF_vars(Handler) /\ WF_vars(DeadlinePasses)

Spec == Init /\ [][Next]_vars /\ Fairness
---------------------------------------------------------------------------
(* Properties.                                                             *)

TypeOK ==
  /\ pc \in {"start", "tokenizing", "put", "register", "waiting", "loop", "push", "tail",
             "text", "yielded", "stopped", "over"}
  /\ svc \in {"loading", "ready", "draining", "closing", "dead", "stopped", "none"}
  /\ req.state \in Live \cup {"FINISHED", "FAILED", "REJECTED", "CANCELLED"}
  /\ Len(out) <= MaxNew /\ Len(cancels) <= 3
  /\ where \in {"nowhere", "inbox", "active", "gone"}
  /\ waiter \in {None, "complete", "accept"}
  /\ {woken, expired, gone, done, handle.completed, handle.accepted} \subseteq BOOLEAN

\* The native routes report what happened: a normal finish reason only for a request
\* that FINISHED so, and then the client has received all of its tokens, in order; at any
\* time what it has received is a prefix of the output, which the worker is extending.
NativeTruth ==
  call.route \in Native =>
    /\ IsPrefix(sent, out)
    /\ resp.finish \notin {None, "error", "TIMEOUT"} =>
         req = [state |-> "FINISHED", reason |-> resp.finish] /\ sent = out

\* An error status of a native route names its cause: 504 only past the deadline, 429
\* and 413 only for a request that got no token, 503 only when the server is not serving or
\* the pool gave out, 500 only for an engine error or a broken cache entry.
StatusMeansCause ==
  call.route \in Native =>
    /\ resp.status = 504 => expired
    /\ resp.status \in {400, 413, 429} => out = <<>>
    /\ resp.status = 503 => svc # "ready" \/ req.reason = "KV_POOL_EXHAUSTED" \/ where = "nowhere"
    /\ resp.status = 500 => handle.error = "engine" \/ req.reason = "INVALID_PREFIX_ENTRY"

\* A handler that waits on an event that has happened has been woken: registering the
\* callback and setting the event cannot miss each other.
WaiterIsWoken ==
  pc = "waiting" =>
    ((IF call.route = "generate" THEN handle.completed ELSE handle.accepted) => woken)

\* A native stream that is over leaves nothing running ("Always reclaim unfinished
\* scheduler/KV state through the worker-owned cancellation queue"): the request has
\* ended, is lost with the worker, or a cancellation that cannot be dropped is queued,
\* because the stream only opened once the scheduler had the request.
AbandonedIsCancelled ==
  (pc = "over" /\ call.route = "generate_stream" /\ resp.status = 200 /\ where = "active") =>
    Ended \/ cancels # <<>> \/ ~Working

\* An OpenAI stream that ends because the request completed has sent all of its text:
\* taking `done` before the text is what guarantees it. (For tokens whose text is final,
\* and without stop strings: see StopWithheld.)
StreamIsWhole ==
  (call.route = "openai_stream" /\ pc = "over" /\ resp.finish # None
     /\ ~gone /\ ~expired /\ call.stops = {}) => sent = Decode(out)

\* The text of a completion answer is the generated text up to where a stop string could
\* begin: no stop string (but the empty one, which truncate_at_stop skips) occurs in it,
\* whichever of several came first and however many tokens the worker appended between
\* the handler's looks.
NoStopInAnswer ==
  (call.route = "openai" /\ resp.status = 200) =>
    /\ IsPrefix(sent, Decode(out))
    /\ \A s \in call.stops \ {<<>>} : Occurrences(sent, s) = {}

\* What a client is told is true, whenever it is told: finish reasons and tokens, the
\* cause behind an error status, and the text up to a stop string.
AnswersAreTrue == TypeOK /\ NativeTruth /\ StatusMeansCause /\ NoStopInAnswer

\* Every call is answered, also when the worker hangs, dies or loses the handle: the
\* deadline is enough.
EveryCallAnswered == <>(pc = "over")

\* User guide and api.py: "429 queue full", "503 ... a request was dropped by the
\* pool/shutdown", for the whole HTTP surface. An OpenAI answer with a finish reason is
\* then one of a request that finished or was stopped at a stop string.
OpenAITruth ==
  (call.route = "openai" /\ resp.finish # None) =>
    req.state = "FINISHED" \/ TruncateAtStop(Decode(out), call.stops).hit

\* truncate_at_stop: "The stop string itself is not returned". What a stream has sent is
\* then never more than the text before the stop string.
StopWithheld ==
  (call.route = "openai_stream" /\ resp.finish = "stop") =>
    IsPrefix(sent, TruncateAtStop(Decode(out), call.stops).text)
=============================================================================
