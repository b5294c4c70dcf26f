---------------------------- MODULE ServiceProofs ----------------------------
(***************************************************************************)
(* Service is correct for every finite set of handles and every inbox      *)
(* size.  The inductive invariant says where a handle can be: with its     *)
(* client, in the inbox, in the worker's hand (cur), in the table, or in   *)
(* the batch of a _fail_all, and what its request and its flags are there. *)
(***************************************************************************)
EXTENDS Service, TLAPS

Returned(h) == client[h] \in {"sent", "gone"}

InInbox(h) == \E i \in 1 .. Len(inbox) : inbox[i] = h

InBatch(h) == \E t \in Thread : h \in batch[t]

\* A handle no thread of the service has decided on.
Fresh(h) == /\ state[h] = "WAITING" /\ ~completed[h]
            /\ h \notin active /\ ~InBatch(h)

Types ==
    /\ inbox \in Seq(Handle)
    /\ active \subseteq Handle
    /\ cur \in Handle \cup {None}
    /\ batch \in [Thread -> SUBSET Handle]
    /\ client \in [Handle -> {"idle", "refused", "checked", "sent", "gone"}]
    /\ state \in [Handle -> {"WAITING", "LIVE"} \cup Terminal]
    /\ completed \in [Handle -> BOOLEAN] /\ error \in [Handle -> BOOLEAN]
    /\ pc \in [Thread -> {"top", "drain", "submit", "cancel", "step", "publish", "dead",
                          "takeActive", "takeInbox", "failBatch",
                          "off", "wait", "leftovers", "flag", "join", "done"}]

\* Before submit has returned, and while it waits for the worker, a handle is
\* fresh and in one place only.
Places ==
    /\ \A h \in Handle : ~Returned(h) => Fresh(h) /\ ~InInbox(h) /\ cur # h
    /\ \A h \in Handle : InInbox(h) => Fresh(h) /\ cur # h
    /\ \A i, j \in 1 .. Len(inbox) : inbox[i] = inbox[j] => i = j
    /\ cur # None => Fresh(cur)
    /\ pc["worker"] = "submit" => cur # None

\* A batch is filled only inside _fail_all; errors are set by completion.
Batches ==
    /\ \A t \in Thread : pc[t] \notin {"takeInbox", "failBatch"} => batch[t] = {}
    /\ \A h \in Handle : error[h] => completed[h]

\* Once stop has given up on the worker, the worker takes no further handle.
Stopped ==
    /\ pc["stopper"] = "join" => stopping
    /\ pc["stopper"] \in {"takeActive", "takeInbox", "failBatch", "done"} =>
        /\ stopping
        /\ pc["worker"] \in {"step", "publish", "top", "dead",
                             "takeActive", "takeInbox", "failBatch"}
        /\ pc["stopper"] # "takeActive" => active = {}

IInv ==
    /\ Types /\ Places /\ Batches /\ Stopped
    /\ CompletedIsFinal /\ NoOrphans

LEMMA TailElements ==
    ASSUME NEW S, NEW s \in Seq(S), s # << >>
    PROVE  /\ Head(s) = s[1] /\ Head(s) \in S
           /\ Len(s) \in Nat /\ Len(s) > 0
           /\ Tail(s) \in Seq(S) /\ Len(Tail(s)) = Len(s) - 1
           /\ \A i \in 1 .. Len(s) - 1 : Tail(s)[i] = s[i + 1]
  OBVIOUS

LEMMA AppendElements ==
    ASSUME NEW S, NEW s \in Seq(S), NEW x \in S
    PROVE  /\ Append(s, x) \in Seq(S) /\ Len(s) \in Nat
           /\ Len(Append(s, x)) = Len(s) + 1
           /\ Append(s, x)[Len(s) + 1] = x
           /\ \A i \in 1 .. Len(s) : Append(s, x)[i] = s[i]
  OBVIOUS

LEMMA AppendMembers ==
    ASSUME NEW S, NEW s \in Seq(S), NEW x \in S, NEW y
    PROVE  (\E i \in 1 .. Len(Append(s, x)) : Append(s, x)[i] = y)
              <=> (\E i \in 1 .. Len(s) : s[i] = y) \/ y = x
  <1> DEFINE a == Append(s, x)
  <1>1. /\ Len(s) \in Nat /\ Len(a) = Len(s) + 1 /\ a[Len(s) + 1] = x
        /\ \A i \in 1 .. Len(s) : a[i] = s[i]
    BY AppendElements
  <1> HIDE DEF a
  <1>2. ASSUME NEW i \in 1 .. Len(a), a[i] = y
        PROVE  (\E j \in 1 .. Len(s) : s[j] = y) \/ y = x
    <2>1. i \in 1 .. Len(s) \/ i = Len(s) + 1
      BY <1>1
    <2> QED
      BY <1>1, <1>2, <2>1
  <1>3. ASSUME NEW i \in 1 .. Len(s), s[i] = y
        PROVE  \E j \in 1 .. Len(a) : a[j] = y
    <2>1. i \in 1 .. Len(a) /\ a[i] = y
      BY <1>1, <1>3
    <2> QED
      BY <2>1
  <1>4. Len(s) + 1 \in 1 .. Len(a)
    BY <1>1
  <1>5. (\E i \in 1 .. Len(a) : a[i] = y) <=> (\E i \in 1 .. Len(s) : s[i] = y) \/ y = x
    BY <1>1, <1>2, <1>3, <1>4
  <1> QED
    BY <1>5 DEF a

LEMMA TailMembers ==
    ASSUME NEW S, NEW s \in Seq(S), s # << >>, NEW y,
           \A i, j \in 1 .. Len(s) : s[i] = s[j] => i = j
    PROVE  (\E i \in 1 .. Len(Tail(s)) : Tail(s)[i] = y)
              <=> (\E i \in 1 .. Len(s) : s[i] = y) /\ y # Head(s)
  <1> DEFINE r == Tail(s)
  <1>1. /\ Head(s) = s[1] /\ Len(s) \in Nat /\ Len(s) > 0 /\ Len(r) = Len(s) - 1
        /\ \A i \in 1 .. Len(s) - 1 : r[i] = s[i + 1]
    BY TailElements
  <1> HIDE DEF r
  <1>2. ASSUME NEW i \in 1 .. Len(r), r[i] = y
        PROVE  (\E j \in 1 .. Len(s) : s[j] = y) /\ y # Head(s)
    <2>1. /\ i + 1 \in 1 .. Len(s) /\ i + 1 # 1 /\ 1 \in 1 .. Len(s)
          /\ i \in 1 .. Len(s) - 1
      BY <1>1
    <2>2. s[i + 1] = y
      BY <1>1, <1>2, <2>1
    <2>3. s[i + 1] # s[1]
      BY <2>1
    <2> QED
      BY <1>1, <2>1, <2>2, <2>3
  <1>3. ASSUME NEW i \in 1 .. Len(s), s[i] = y, y # Head(s)
        PROVE  \E j \in 1 .. Len(r) : r[j] = y
    <2>1. i # 1
      BY <1>1, <1>3
    <2>2. i - 1 \in 1 .. Len(r) /\ i - 1 \in 1 .. Len(s) - 1 /\ (i - 1) + 1 = i
      BY <1>1, <2>1
    <2>3. r[i - 1] = y
      BY <1>1, <1>3, <2>2
    <2> QED
      BY <2>2, <2>3
  <1>4. (\E i \in 1 .. Len(r) : r[i] = y) <=> (\E i \in 1 .. Len(s) : s[i] = y) /\ y # Head(s)
    BY <1>2, <1>3
  <1> QED
    BY <1>4 DEF r

LEMMA ServiceInductive == Spec => []IInv
  <1>1. Init => IInv
    BY ServiceAssumption DEF Init, IInv, Types, Places, Batches, Stopped, CompletedIsFinal, NoOrphans,
       Returned, InInbox, InBatch, Fresh, Live, Thread, Terminal
  <1>2. IInv /\ [Next]_vars => IInv'
    <2> SUFFICES ASSUME IInv, [Next]_vars
                 PROVE  IInv'
      OBVIOUS
    <2> USE ServiceAssumption, TailElements, AppendElements
    <2> USE DEF IInv, Types, Places, Batches, Stopped, CompletedIsFinal, NoOrphans,
                Returned, InInbox, InBatch, Fresh, Live, Thread, Terminal, flags, Goto, Alive
    <2>1. ASSUME NEW h \in Handle, SubmitCheck(h)
          PROVE  IInv'
      BY <2>1 DEF SubmitCheck
    <2>2. ASSUME NEW h \in Handle, SubmitPut(h)
          PROVE  IInv'
      <3>1. CASE Len(inbox) >= InboxSize
        BY <2>2, <3>1, SMTT(30) DEF SubmitPut
      <3>2. CASE ~(Len(inbox) >= InboxSize)
        <4>1. /\ client' = [client EXCEPT ![h] = "sent"] /\ inbox' = Append(inbox, h)
              /\ UNCHANGED <<active, stopping, state, completed, error, pc, cur, batch>>
          BY <2>2, <3>2 DEF SubmitPut
        <4>2. ~Returned(h)
          BY <2>2 DEF SubmitPut
        <4>3. \A x \in Handle : InInbox(x)' <=> InInbox(x) \/ x = h
          <5> HIDE DEF Places, Batches, Stopped, CompletedIsFinal, NoOrphans, Returned, InBatch, Fresh
          <5> SUFFICES ASSUME NEW x \in Handle PROVE InInbox(x)' <=> InInbox(x) \/ x = h
            OBVIOUS
          <5> QED
            BY <4>1, AppendMembers
        <4>4. \A x \in Handle : Returned(x)' <=> Returned(x) \/ x = h
          BY <4>1
        <4>5. Types' /\ Batches' /\ Stopped' /\ CompletedIsFinal' /\ NoOrphans'
          BY <4>1
        <4>6. Places'
          BY <4>1, <4>2, <4>3, <4>4
        <4> QED
          BY <4>5, <4>6
      <3> QED
        BY <3>1, <3>2
    <2>3. ASSUME NEW h \in Handle, Cancel(h)
          PROVE  IInv'
      BY <2>3 DEF Cancel
    <2>4. ASSUME LoopTop
          PROVE  IInv'
      BY <2>4 DEF LoopTop
    <2>5. ASSUME DrainGet
          PROVE  IInv'
      <3>1. CASE inbox = << >>
        BY <2>5, <3>1 DEF DrainGet
      <3>2. CASE inbox # << >>
        <4> DEFINE h == Head(inbox)
        <4>1. /\ cur' = h /\ inbox' = Tail(inbox)
              /\ pc' = [pc EXCEPT !["worker"] = "submit"] /\ pc["worker"] = "drain"
              /\ UNCHANGED <<active, stopping, client, state, completed, error, batch>>
          BY <2>5, <3>2 DEF DrainGet
        <4>2. h \in Handle /\ InInbox(h)
          BY <3>2
        <4>3. \A x \in Handle : InInbox(x)' <=> InInbox(x) /\ x # h
          <5> SUFFICES ASSUME NEW x \in Handle PROVE InInbox(x)' <=> InInbox(x) /\ x # h
            OBVIOUS
          <5>1. \A i, j \in 1 .. Len(inbox) : inbox[i] = inbox[j] => i = j
            OBVIOUS
          <5>2. inbox \in Seq(Handle)
            OBVIOUS
          <5>3. (\E i \in 1 .. Len(Tail(inbox)) : Tail(inbox)[i] = x)
                   <=> (\E i \in 1 .. Len(inbox) : inbox[i] = x) /\ x # Head(inbox)
            <6> HIDE DEF IInv
            <6> QED
              BY <3>2, <5>1, <5>2, TailMembers, Zenon
          <5> QED
            BY <4>1, <5>3
        <4>4. Types' /\ Batches' /\ Stopped' /\ CompletedIsFinal' /\ NoOrphans'
          BY <3>2, <4>1, <4>2
        <4>5. Places'
          <5>1. \A i, j \in 1 .. Len(inbox') : inbox'[i] = inbox'[j] => i = j
            BY <3>2, <4>1
          <5> QED
            BY <4>1, <4>2, <4>3, <5>1
        <4> QED
          BY <4>4, <4>5
      <3> QED
        BY <3>1, <3>2
    <2>6. ASSUME EngineAccepts
          PROVE  IInv'
      BY <2>6 DEF EngineAccepts
    <2>7. ASSUME EngineRejects
          PROVE  IInv'
      BY <2>7 DEF EngineRejects, Complete
    <2>8. ASSUME EngineRefuses
          PROVE  IInv'
      BY <2>8 DEF EngineRefuses, Raise
    <2>9. ASSUME ApplyCancellation
          PROVE  IInv'
      <3> DEFINE h == Head(cancels)
      <3>1. CASE h \notin active \/ state[h] \in Terminal
        <4>1. UNCHANGED <<state, active, completed, error, inbox, stopping, client, pc, cur, batch>>
          BY <2>9, <3>1 DEF ApplyCancellation
        <4> QED
          BY <4>1
      <3>2. CASE ~(h \notin active \/ state[h] \in Terminal)
        <4>1. /\ state' = [state EXCEPT ![h] = "CANCELLED"]
              /\ active' = active \ {h}
              /\ completed' = [x \in Handle |-> completed[x] \/ x \in {h}]
              /\ error' = [x \in Handle |-> error[x] \/ (FALSE /\ x \in {h} /\ ~completed[x])]
              /\ UNCHANGED <<inbox, stopping, client, pc, cur, batch>>
          BY <2>9, <3>2 DEF ApplyCancellation, Complete
        <4>2. h \in Handle /\ h \in active
          BY <3>2
        <4> HIDE DEF h
        <4>3. /\ completed' \in [Handle -> BOOLEAN] /\ error' = error
              /\ \A x \in Handle : completed'[x] <=> completed[x] \/ x = h
              /\ \A x \in Handle : x # h => state'[x] = state[x]
              /\ state'[h] = "CANCELLED"
          <5> HIDE DEF Places, Batches, Stopped, CompletedIsFinal, NoOrphans, Returned, InBatch, Fresh
          <5>1. completed' \in [Handle -> BOOLEAN]
            BY <4>1
          <5>2. error' = error
            BY <4>1
          <5>3. \A x \in Handle : completed'[x] <=> completed[x] \/ x = h
            BY <4>1
          <5>4. state'[h] = "CANCELLED" /\ \A x \in Handle : x # h => state'[x] = state[x]
            BY <4>1, <4>2
          <5> QED
            BY <5>1, <5>2, <5>3, <5>4
        <4>4. Types' /\ Batches' /\ Stopped' /\ CompletedIsFinal' /\ NoOrphans'
          BY <4>1, <4>2, <4>3
        <4>5. Places'
          BY <4>1, <4>2, <4>3
        <4> QED
          BY <4>4, <4>5
      <3> QED
        BY <3>1, <3>2
    <2>10. ASSUME CancellationsApplied
          PROVE  IInv'
      BY <2>10 DEF CancellationsApplied
    <2>11. ASSUME EngineStep
          PROVE  IInv'
      BY <2>11 DEF EngineStep, StepEnding
    <2>12. ASSUME StepRaises
          PROVE  IInv'
      BY <2>12 DEF StepRaises, Raise
    <2>13. ASSUME PublishCompleted
          PROVE  IInv'
      BY <2>13 DEF PublishCompleted, Complete
    <2>14. ASSUME NEW t \in Thread, TakeActive(t)
          PROVE  IInv'
      BY <2>14 DEF TakeActive
    <2>15. ASSUME NEW t \in Thread, TakeInbox(t)
          PROVE  IInv'
      <3>1. CASE inbox = << >>
        BY <2>15, <3>1 DEF TakeInbox
      <3>2. CASE inbox # << >>
        <4> DEFINE h == Head(inbox)
        <4>1. /\ batch' = [batch EXCEPT ![t] = @ \cup {h}] /\ inbox' = Tail(inbox)
              /\ pc[t] = "takeInbox"
              /\ UNCHANGED <<active, stopping, client, state, completed, error, pc, cur>>
          BY <2>15, <3>2 DEF TakeInbox
        <4>2. h \in Handle /\ InInbox(h)
          BY <3>2
        <4>3. \A x \in Handle : InInbox(x)' <=> InInbox(x) /\ x # h
          <5> SUFFICES ASSUME NEW x \in Handle PROVE InInbox(x)' <=> InInbox(x) /\ x # h
            OBVIOUS
          <5>1. \A i, j \in 1 .. Len(inbox) : inbox[i] = inbox[j] => i = j
            OBVIOUS
          <5>2. inbox \in Seq(Handle)
            OBVIOUS
          <5>3. (\E i \in 1 .. Len(Tail(inbox)) : Tail(inbox)[i] = x)
                   <=> (\E i \in 1 .. Len(inbox) : inbox[i] = x) /\ x # Head(inbox)
            <6> HIDE DEF IInv
            <6> QED
              BY <3>2, <5>1, <5>2, TailMembers, Zenon
          <5> QED
            BY <4>1, <5>3
        <4>4. \A x \in Handle : InBatch(x)' <=> InBatch(x) \/ x = h
          BY <2>15, <4>1, <4>2
        <4>5. Types' /\ Batches' /\ Stopped' /\ CompletedIsFinal' /\ NoOrphans'
          BY <2>15, <3>2, <4>1, <4>2
        <4>6. Places'
          <5>1. \A i, j \in 1 .. Len(inbox') : inbox'[i] = inbox'[j] => i = j
            BY <3>2, <4>1
          <5> QED
            BY <4>1, <4>2, <4>3, <4>4, <5>1
        <4> QED
          BY <4>5, <4>6
      <3> QED
        BY <3>1, <3>2
    <2>16. ASSUME NEW t \in Thread, FailBatch(t)
          PROVE  IInv'
      <3>1. /\ batch' = [batch EXCEPT ![t] = {}]
            /\ pc' = [pc EXCEPT ![t] = IF t = "worker" THEN "dead" ELSE "done"]
            /\ pc[t] = "failBatch"
            /\ UNCHANGED <<inbox, active, stopping, client, state, cur>>
        BY <2>16 DEF FailBatch
      <3>2. /\ completed' \in [Handle -> BOOLEAN] /\ error' \in [Handle -> BOOLEAN]
            /\ \A x \in Handle : completed'[x] <=> completed[x] \/ x \in batch[t]
            /\ \A x \in Handle : error'[x] <=> error[x] \/ (x \in batch[t] /\ ~completed[x])
        BY <2>16 DEF FailBatch, Complete
      <3>3. Types' /\ Batches' /\ Stopped' /\ CompletedIsFinal'
        BY <2>16, <3>1, <3>2
      <3>4. NoOrphans'
        BY <2>16, <3>1, <3>2
      <3>5. Places'
        BY <2>16, <3>1, <3>2
      <3> QED
        BY <3>3, <3>4, <3>5
    <2>17. ASSUME StopBegins
          PROVE  IInv'
      BY <2>17 DEF StopBegins
    <2>18. ASSUME DrainSettles
          PROVE  IInv'
      BY <2>18 DEF DrainSettles
    <2>19. ASSUME DrainTimesOut
          PROVE  IInv'
      BY <2>19 DEF DrainTimesOut
    <2>20. ASSUME CancelLeftovers
          PROVE  IInv'
      BY <2>20 DEF CancelLeftovers
    <2>21. ASSUME SetStopping
          PROVE  IInv'
      BY <2>21 DEF SetStopping
    <2>22. ASSUME Join
          PROVE  IInv'
      BY <2>22 DEF Join
    <2>23. CASE UNCHANGED vars
      BY <2>23 DEF vars
    <2> QED
      BY <2>1, <2>2, <2>3, <2>4, <2>5, <2>6, <2>7, <2>8, <2>9, <2>10, <2>11, <2>12, <2>13, <2>14, <2>15, <2>16, <2>17, <2>18, <2>19, <2>20, <2>21, <2>22, <2>23
         DEF Next, Worker, Stopper
  <1> QED
    BY <1>1, <1>2, PTL DEF Spec

(***************************************************************************)
(* A handle completed without an error belongs to a request that has ended *)
(* (_publish_completed, _apply_cancellations and _fail_all all complete).  *)
(***************************************************************************)
THEOREM CompletionIsFinal == Spec => []CompletedIsFinal
  BY ServiceInductive, PTL DEF IInv

(***************************************************************************)
(* A live request's handle is in the table or in the hands of _fail_all,   *)
(* or already failed, also while the worker's and stop()'s _fail_all       *)
(* overlap.                                                                *)
(***************************************************************************)
THEOREM NoRequestOrphaned == Spec => []NoOrphans
  BY ServiceInductive, PTL DEF IInv

(***************************************************************************)
(* After stop() has returned the table stays empty and every live request  *)
(* is completed or about to be, even when the worker outlives the join.    *)
(***************************************************************************)
THEOREM StopLeavesNothing == Spec => []StopIsFinal
  <1>1. IInv => StopIsFinal
    <2> SUFFICES ASSUME IInv, pc["stopper"] = "done"
                 PROVE  active = {} /\ \A h \in Live : completed[h] \/ h \in batch["worker"]
      BY DEF StopIsFinal
    <2>1. active = {} /\ batch["stopper"] = {}
      BY DEF IInv, Stopped, Batches, Thread
    <2>2. \A h \in Live : h \in batch["worker"] \/ error[h]
      BY <2>1 DEF IInv, NoOrphans
    <2> QED
      BY <2>1, <2>2 DEF IInv, Batches, Live
  <1> QED
    BY <1>1, ServiceInductive, PTL

=============================================================================
