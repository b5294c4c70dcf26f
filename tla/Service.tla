------------------------------- MODULE Service -------------------------------
(***************************************************************************)
(* ContinuousBatchingService (src/engine/server/continuous.py): one worker *)
(* thread owns the engine; client threads put handles into a bounded inbox *)
(* and ids into a cancellation queue; a shutdown thread runs stop(), which *)
(* drains first.  Every access to shared state is a step of its own, so    *)
(* the threads interleave between them.                                    *)
(*                                                                         *)
(* The engine is seen through its contract (module Engine): submit accepts *)
(* a request, rejects it, or raises for one past max_model_len; a step     *)
(* ends some live requests, or raises.                                     *)
(*                                                                         *)
(* The wake event only shortens the worker's 50 ms wait and is left out.   *)
(***************************************************************************)
EXTENDS Integers, FiniteSets, SequencesExt

CONSTANTS Handle,        \* the handles client threads submit
          TooLong,       \* those past max_model_len that reach the service
          InboxSize,     \* max_pending_submissions
          MayRaise,      \* engine.step can raise
          MayTimeOut,    \* drain's deadline and stop's join can pass
          None           \* no handle

ASSUME ServiceAssumption ==
    /\ IsFiniteSet(Handle) /\ TooLong \subseteq Handle
    /\ InboxSize \in Nat \ {0}
    /\ MayRaise \in BOOLEAN /\ MayTimeOut \in BOOLEAN
    /\ None \notin Handle

VARIABLES inbox,      \* _inbox
          cancels,    \* _cancellations
          active,     \* _active: the handles the worker has accepted
          draining, stopping, fatal,   \* the service's flags
          client,     \* where each handle's client thread is
          state,      \* request.state of each handle
          completed,  \* handle.completed
          error,      \* handle.error is set
          pc,         \* where the worker and the shutdown thread are
          cur,        \* the handle _drain_inbox has taken from the inbox
          batch       \* the handles a thread's _fail_all has collected

flags == <<draining, stopping, fatal>>
vars == <<inbox, cancels, active, flags, client, state, completed, error, pc, cur, batch>>

Thread == {"worker", "stopper"}
Terminal == {"FINISHED", "CANCELLED", "FAILED", "REJECTED"}

Init ==
    /\ inbox = << >> /\ cancels = << >> /\ active = {}
    /\ draining = FALSE /\ stopping = FALSE /\ fatal = FALSE
    /\ client = [h \in Handle |-> "idle"]
    /\ state = [h \in Handle |-> "WAITING"]
    /\ completed = [h \in Handle |-> FALSE]
    /\ error = [h \in Handle |-> FALSE]
    /\ pc = [t \in Thread |-> IF t = "worker" THEN "top" ELSE "off"]
    /\ cur = None
    /\ batch = [t \in Thread |-> {}]

Live == {h \in Handle : state[h] = "LIVE"}
Alive == pc["worker"] # "dead"

Goto(t, l) == pc' = [pc EXCEPT ![t] = l]

\* RequestHandle._complete of every handle in H: the first caller wins.
Complete(H, failed) ==
    /\ completed' = [h \in Handle |-> completed[h] \/ h \in H]
    /\ error' = [h \in Handle |-> error[h] \/ (failed /\ h \in H /\ ~completed[h])]

-----------------------------------------------------------------------------
(* Client threads. *)

\* submit, up to the checks ...
SubmitCheck(h) ==
    /\ client[h] = "idle"
    /\ client' = [client EXCEPT ![h] =
          IF fatal \/ ~Alive \/ draining \/ stopping THEN "refused" ELSE "checked"]
    /\ UNCHANGED <<inbox, cancels, active, flags, state, completed, error, pc, cur, batch>>

\* ... and its put_nowait.
SubmitPut(h) ==
    /\ client[h] = "checked"
    /\ IF Len(inbox) >= InboxSize
       THEN client' = [client EXCEPT ![h] = "refused"] /\ UNCHANGED inbox
       ELSE client' = [client EXCEPT ![h] = "sent"] /\ inbox' = Append(inbox, h)
    /\ UNCHANGED <<cancels, active, flags, state, completed, error, pc, cur, batch>>

\* A client gives up (deadline, disconnect) on a handle it holds, once.
Cancel(h) ==
    /\ client[h] = "sent" /\ ~completed[h]
    /\ client' = [client EXCEPT ![h] = "gone"]
    /\ cancels' = Append(cancels, h)
    /\ UNCHANGED <<inbox, active, flags, state, completed, error, pc, cur, batch>>

-----------------------------------------------------------------------------
(* _fail_all, run by the worker after an exception and by stop(). *)

TakeActive(t) ==
    /\ pc[t] = "takeActive"
    /\ batch' = [batch EXCEPT ![t] = active]
    /\ active' = {}
    /\ Goto(t, "takeInbox")
    /\ UNCHANGED <<inbox, cancels, flags, client, state, completed, error, cur>>

TakeInbox(t) ==
    /\ pc[t] = "takeInbox"
    /\ IF inbox = << >> THEN Goto(t, "failBatch") /\ UNCHANGED <<inbox, batch>>
       ELSE /\ batch' = [batch EXCEPT ![t] = @ \cup {Head(inbox)}]
            /\ inbox' = Tail(inbox)
            /\ UNCHANGED pc
    /\ UNCHANGED <<cancels, active, flags, client, state, completed, error, cur>>

FailBatch(t) ==
    /\ pc[t] = "failBatch"
    /\ Complete(batch[t], TRUE)
    /\ batch' = [batch EXCEPT ![t] = {}]
    /\ Goto(t, IF t = "worker" THEN "dead" ELSE "done")
    /\ UNCHANGED <<inbox, cancels, active, flags, client, state, cur>>

-----------------------------------------------------------------------------
(* The worker thread. *)

LoopTop ==
    /\ pc["worker"] = "top"
    /\ Goto("worker", IF stopping THEN "dead" ELSE "drain")
    /\ UNCHANGED <<inbox, cancels, active, flags, client, state, completed, error, cur, batch>>

\* _drain_inbox: take a handle, or go on to the cancellations.
DrainGet ==
    /\ pc["worker"] = "drain"
    /\ IF inbox = << >> THEN Goto("worker", "cancel") /\ UNCHANGED <<inbox, cur>>
       ELSE /\ cur' = Head(inbox) /\ inbox' = Tail(inbox)
            /\ Goto("worker", "submit")
    /\ UNCHANGED <<cancels, active, flags, client, state, completed, error, batch>>

\* Mutant: the accepted handle is not entered in the table.
EngineAcceptsUnlisted ==
    /\ pc["worker"] = "submit" /\ cur \notin TooLong
    /\ state' = [state EXCEPT ![cur] = "LIVE"]
    /\ cur' = None
    /\ Goto("worker", "drain")
    /\ UNCHANGED <<inbox, cancels, active, flags, client, completed, error, batch>>

EngineAccepts ==
    /\ pc["worker"] = "submit" /\ cur \notin TooLong
    /\ state' = [state EXCEPT ![cur] = "LIVE"]
    /\ active' = active \cup {cur}
    /\ cur' = None
    /\ Goto("worker", "drain")
    /\ UNCHANGED <<inbox, cancels, flags, client, completed, error, batch>>

EngineRejects ==
    /\ pc["worker"] = "submit" /\ cur \notin TooLong
    /\ state' = [state EXCEPT ![cur] = "REJECTED"]
    /\ Complete({cur}, TRUE)
    /\ cur' = None
    /\ Goto("worker", "drain")
    /\ UNCHANGED <<inbox, cancels, active, flags, client, batch>>

\* An exception in the loop: _fail_all marks the service and takes over.
Raise ==
    /\ fatal' = TRUE
    /\ cur' = None
    /\ Goto("worker", "takeActive")
    /\ UNCHANGED <<inbox, cancels, active, draining, stopping, client, state,
                   completed, error, batch>>

EngineRefuses == pc["worker"] = "submit" /\ cur \in TooLong /\ Raise

\* Mutant: the handle is completed, the engine keeps the request.
ApplyCancellationKeepsRequest ==
    /\ pc["worker"] = "cancel" /\ cancels # << >>
    /\ LET h == Head(cancels)
       IN  IF h \notin active \/ state[h] \in Terminal
           THEN UNCHANGED <<active, completed, error>>
           ELSE /\ active' = active \ {h}
                /\ Complete({h}, FALSE)
    /\ cancels' = Tail(cancels)
    /\ UNCHANGED <<inbox, flags, client, state, pc, cur, batch>>

\* One turn of _apply_cancellations.
ApplyCancellation ==
    /\ pc["worker"] = "cancel" /\ cancels # << >>
    /\ LET h == Head(cancels)
       IN  IF h \notin active \/ state[h] \in Terminal
           THEN UNCHANGED <<state, active, completed, error>>
           ELSE /\ state' = [state EXCEPT ![h] = "CANCELLED"]
                /\ active' = active \ {h}
                /\ Complete({h}, FALSE)
    /\ cancels' = Tail(cancels)
    /\ UNCHANGED <<inbox, flags, client, pc, cur, batch>>

CancellationsApplied ==
    /\ pc["worker"] = "cancel" /\ cancels = << >>
    /\ Goto("worker", IF Live = {} THEN "top" ELSE "step")
    /\ UNCHANGED <<inbox, cancels, active, flags, client, state, completed, error, cur, batch>>

\* engine.step: the requests in ended reach a terminal state.
StepEnding(ended) ==
    /\ pc["worker"] = "step"
    /\ \E outcome \in [ended -> {"FINISHED", "FAILED", "REJECTED"}] :
          state' = [h \in Handle |-> IF h \in ended THEN outcome[h] ELSE state[h]]
    /\ Goto("worker", "publish")
    /\ UNCHANGED <<inbox, cancels, active, flags, client, completed, error, cur, batch>>

EngineStep == \E ended \in SUBSET Live : StepEnding(ended)

StepRaises == MayRaise /\ pc["worker"] = "step" /\ Raise

\* Mutant: failed requests are not published.
PublishFinishedOnly ==
    LET done == {h \in active : state[h] \in Terminal \ {"FAILED"}}
    IN  /\ pc["worker"] = "publish"
        /\ active' = active \ done
        /\ Complete(done, FALSE)
        /\ Goto("worker", "top")
        /\ UNCHANGED <<inbox, cancels, flags, client, state, cur, batch>>

PublishCompleted ==
    LET done == {h \in active : state[h] \in Terminal}
    IN  /\ pc["worker"] = "publish"
        /\ active' = active \ done
        /\ Complete(done, FALSE)
        /\ Goto("worker", "top")
        /\ UNCHANGED <<inbox, cancels, flags, client, state, cur, batch>>

-----------------------------------------------------------------------------
(* The shutdown thread: stop(), which calls drain() while the worker lives. *)

StopBegins ==
    /\ pc["stopper"] = "off"
    /\ IF Alive THEN draining' = TRUE /\ Goto("stopper", "wait")
       ELSE Goto("stopper", "flag") /\ UNCHANGED draining
    /\ UNCHANGED <<inbox, cancels, active, stopping, fatal, client, state, completed,
                   error, cur, batch>>

\* drain's loop sees nothing outstanding, or no worker.
DrainSettles ==
    /\ pc["stopper"] = "wait"
    /\ ~Alive \/ (active = {} /\ inbox = << >>)
    /\ Goto("stopper", "leftovers")
    /\ UNCHANGED <<inbox, cancels, active, flags, client, state, completed, error, cur, batch>>

\* drain's deadline passes.
DrainTimesOut ==
    /\ MayTimeOut /\ pc["stopper"] = "wait"
    /\ Goto("stopper", "leftovers")
    /\ UNCHANGED <<inbox, cancels, active, flags, client, state, completed, error, cur, batch>>

CancelLeftovers ==
    /\ pc["stopper"] = "leftovers"
    /\ cancels' = cancels \o SetToSeq({h \in active : ~completed[h]})
    /\ Goto("stopper", "flag")
    /\ UNCHANGED <<inbox, active, flags, client, state, completed, error, cur, batch>>

SetStopping ==
    /\ pc["stopper"] = "flag"
    /\ stopping' = TRUE
    /\ Goto("stopper", "join")
    /\ UNCHANGED <<inbox, cancels, active, draining, fatal, client, state, completed,
                   error, cur, batch>>

\* Mutant: stop does not wait for the worker.
JoinAtOnce ==
    /\ pc["stopper"] = "join"
    /\ Goto("stopper", "takeActive")
    /\ UNCHANGED <<inbox, cancels, active, flags, client, state, completed, error, cur, batch>>

\* join: the worker has ended, or a step outlasts the ten seconds.
Join ==
    /\ pc["stopper"] = "join"
    /\ ~Alive \/ (MayTimeOut /\ pc["worker"] = "step")
    /\ Goto("stopper", "takeActive")
    /\ UNCHANGED <<inbox, cancels, active, flags, client, state, completed, error, cur, batch>>

-----------------------------------------------------------------------------
Worker ==
    \/ LoopTop \/ DrainGet \/ EngineAccepts \/ EngineRejects \/ EngineRefuses
    \/ ApplyCancellation \/ CancellationsApplied \/ EngineStep \/ StepRaises
    \/ PublishCompleted
    \/ TakeActive("worker") \/ TakeInbox("worker") \/ FailBatch("worker")

Stopper ==
    \/ DrainSettles \/ DrainTimesOut \/ CancelLeftovers \/ SetStopping \/ Join
    \/ TakeActive("stopper") \/ TakeInbox("stopper") \/ FailBatch("stopper")

Next ==
    \/ \E h \in Handle : SubmitCheck(h) \/ SubmitPut(h) \/ Cancel(h)
    \/ Worker
    \/ StopBegins \/ Stopper

\* Both threads run once started; nobody has to call stop.  A step that ends
\* a request comes again and again while one is live (EveryRequestEnds of
\* module Engine).
Spec ==
    /\ Init /\ [][Next]_vars
    /\ WF_vars(Worker) /\ WF_vars(Stopper)
    /\ SF_vars(\E ended \in SUBSET Live : ended # {} /\ StepEnding(ended))

-----------------------------------------------------------------------------
TypeOK ==
    /\ inbox \in Seq(Handle) /\ Len(inbox) <= InboxSize
    /\ cancels \in Seq(Handle) /\ active \subseteq Handle
    /\ state \in [Handle -> {"WAITING", "LIVE"} \cup Terminal]
    /\ completed \in [Handle -> BOOLEAN] /\ error \in [Handle -> BOOLEAN]
    /\ cur \in Handle \cup {None}

(***************************************************************************)
(* What a caller reads is final: a handle that was completed without an    *)
(* error belongs to a request that has ended, whichever of the step, the   *)
(* cancellation queue and the shutdown got to it first.                    *)
(***************************************************************************)
CompletedIsFinal ==
    \A h \in Handle : completed[h] /\ ~error[h] => state[h] \in Terminal

(***************************************************************************)
(* Nobody waits for a request that no thread will report: a live request's *)
(* handle is in the worker's table or in the hands of _fail_all, unless    *)
(* the handle was already failed.                                          *)
(***************************************************************************)
NoOrphans ==
    \A h \in Live : h \in active \cup batch["worker"] \cup batch["stopper"] \/ error[h]

(***************************************************************************)
(* When stop() has returned, the table is empty and stays so: no handle is *)
(* accepted behind its back, and every accepted one has been completed, or *)
(* is about to be by the _fail_all of a worker that outlived the join.     *)
(***************************************************************************)
StopIsFinal ==
    pc["stopper"] = "done" => active = {} /\ \A h \in Live : completed[h] \/ h \in batch["worker"]

(***************************************************************************)
(* A handle whose request the engine has accepted is completed, whether    *)
(* the request ends, is cancelled, the engine raises or the server stops.  *)
(***************************************************************************)
AcceptedCompletes == \A h \in Handle : state[h] # "WAITING" ~> completed[h]

(***************************************************************************)
(* "Every outstanding handle is completed": once submit has returned a     *)
(* handle, somebody completes it.  The checks of submit and its put are    *)
(* not one step, so the put can come after the last look at the inbox; and *)
(* a handle taken from the inbox is in no table when engine.submit raises. *)
(***************************************************************************)
EveryHandleCompletes == \A h \in Handle : client[h] = "sent" ~> completed[h]

(***************************************************************************)
(* A cancellation reaches its request: when it has left the queue, the     *)
(* request has ended.  One that overtakes its own submission does not.     *)
(***************************************************************************)
CancellationApplied ==
    [][cancels # << >> /\ cancels' = Tail(cancels)
         => state'[Head(cancels)] \in Terminal \/ completed[Head(cancels)]]_vars

(***************************************************************************)
(* drain lets in-flight work finish: if its deadline does not pass, no     *)
(* request is still live when stop fails the handles that are left.        *)
(***************************************************************************)
DrainLetsWorkFinish ==
    ~MayTimeOut /\ ~fatal => \A h \in Handle : error[h] => state[h] # "LIVE"

=============================================================================
