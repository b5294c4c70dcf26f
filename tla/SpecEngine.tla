----------------------------- MODULE SpecEngine -----------------------------
(***************************************************************************)
(* The worker of Engine with a speculative proposer: the branch of step()  *)
(* that calls speculative_decode_step (src/engine/batching/                *)
(* continuous_batching.py), and the lifecycle of the proposer's state.     *)
(*                                                                         *)
(* A step that starts with decoding rows first proposes for each of them,  *)
(* then verifies the rows group by group, shallowest proposals first:      *)
(*                                                                         *)
(*   group      the next depth, or the rows without a proposal             *)
(*   specCap    capacity for the pending token and the proposal, by age    *)
(*   verify     one forward over both                                      *)
(*   specCommit the accepted prefix, row by row                            *)
(*                                                                         *)
(* The rows without a proposal then take Engine's decodeCap, decode and    *)
(* commitD, and the step goes on with admission.  Such a step is never     *)
(* fused; steps without decoding rows are Engine's.                        *)
(***************************************************************************)
EXTENDS Engine, Speculation

CONSTANTS Depth,     \* speculation_depth
          Proposers  \* the kinds of proposer an engine is built with

ASSUME SpecAssumption == /\ Depth \in Nat \ {0}
                         /\ Proposers \subseteq {"ngram", "draft_model"}

VARIABLES proposer,   \* "ngram" or "draft_model", for the life of the engine
          drafts,     \* the proposer's _states
          proposals,  \* what was proposed for each row of this step
          depth,      \* the depth of the group being verified
          decoding    \* the rows that were decoding when the step began

specVars == <<vars, proposer, drafts, proposals, depth, decoding>>

None == [r \in Req |-> << >>]

SpecInit == /\ Init
            /\ ~Fused             \* step() fuses nothing with a proposer
            /\ proposer \in Proposers
            /\ drafts = [r \in Req |-> NoDraft]
            /\ proposals = None /\ depth = 0 /\ decoding = {}

-----------------------------------------------------------------------------
History(r) == req[r].kind.prompt \o req[r].out

\* _speculation_eligible, of a decoding request
Eligible(r) == req[r].kind.greedy /\ req[r].kind.maxNew - Len(req[r].out) >= 2

MostTokens(r) == Min({Depth, req[r].kind.maxNew - Len(req[r].out) - 1})

\* [tokens, state] of propose for row r
Propose(r) ==
    IF ~Eligible(r) THEN [tokens |-> << >>, state |-> drafts[r]]
    ELSE IF proposer = "ngram"
    THEN [tokens |-> NgramPropose(History(r), MostTokens(r)), state |-> drafts[r]]
    ELSE DraftPropose(drafts[r], History(r), MostTokens(r))

\* speculative_decode_step's first loop: every decoding row proposes.
BeginSpeculation ==
    LET D == {r \in ToSet(active) : req[r].state = "DECODING"}
    IN  /\ pc = "idle" /\ D # {}
        /\ proposals' = [r \in Req |-> IF r \in D THEN Propose(r).tokens ELSE << >>]
        /\ drafts' = [r \in Req |-> IF r \in D THEN Propose(r).state ELSE drafts[r]]
        /\ decoding' = D
        /\ depth' = 0
        /\ pc' = "group"
        /\ UNCHANGED <<sched, todo, rows, plans, proposer>>

Deeper == {d \in 1 .. Depth : d > depth /\ \E r \in Req : Len(proposals[r]) = d}

\* The rows of a group that no other group's capacity has displaced.
Group(S) == {r \in S : req[r].state = "DECODING"}

NextGroup ==
    /\ pc = "group" /\ Deeper # {}
    /\ depth' = Min(Deeper)
    /\ todo' \in ByAge(Group({r \in Req : Len(proposals[r]) = depth'}))
    /\ rows' = << >>
    /\ pc' = IF todo' = << >> THEN "group" ELSE "specCap"
    /\ UNCHANGED <<sched, plans, drafts, proposals, decoding, proposer>>

\* The other rows take the ordinary decode_step.
OrdinaryRows ==
    /\ pc = "group" /\ Deeper = {}
    /\ todo' \in ByAge({r \in decoding : proposals[r] = << >> /\ req[r].state = "DECODING"})
    /\ rows' = << >>
    /\ pc' = "decodeCap"
    /\ UNCHANGED <<sched, plans, drafts, proposals, depth, decoding, proposer>>

SpecRowCapacity ==
    /\ pc = "specCap" /\ todo # << >>
    /\ LET r == Head(todo)
       IN  \/ /\ req[r].state = "DECODING"
              /\ Acquire(r, mem.len[r] + depth + 1,
                         rows' = Append(rows, r) /\ UNCHANGED plans)
           \/ /\ req[r].state # "DECODING"
              /\ todo' = Tail(todo)
              /\ UNCHANGED <<sched, rows, plans>>
    /\ UNCHANGED <<pc, proposals, depth, decoding, proposer>>

SpecRowsReady ==
    /\ pc = "specCap" /\ todo = << >>
    /\ rows' = StillDecoding(rows)
    /\ pc' = IF rows' = << >> THEN "group" ELSE "verify"
    /\ UNCHANGED <<sched, todo, plans, drafts, proposals, depth, decoding, proposer>>

\* _verify_forward: the pending token and the proposal, at the next positions.
VerifyWork == [i \in 1 .. Len(rows) |->
                 [r |-> rows[i], from |-> mem.len[rows[i]],
                  toks |-> <<req[rows[i]].next>> \o proposals[rows[i]]]]

Verify ==
    /\ pc = "verify"
    /\ mem' = ForwardAll(mem, VerifyWork)
    /\ todo' = rows
    /\ pc' = "specCommit"
    /\ UNCHANGED <<req, waiting, active, order, epoch, rows, plans,
                   drafts, proposals, depth, decoding, proposer>>

\* The target's token after the pending input and the first k proposals.
Prediction(r, k) == Model(Context(mem, r, mem.len[r] + 1 + k))

\* Mutant: all verified inputs become visible, the rejected ones too.
CommittedAll(r, p) == Commit(mem, r, Len(proposals[r]) + 1)

\* append_tokens: as many inputs as tokens were emitted
Committed(r, p) == Commit(mem, r, p.cached)

SpecCommitRow ==
    /\ pc = "specCommit" /\ todo # << >>
    /\ LET r == Head(todo)
           q == req[r]
           p == Plan(proposals[r], [k \in 1 .. depth |-> Prediction(r, k - 1)],
                     Prediction(r, depth), q.kind.maxNew - Len(q.out),
                     EosIds, q.kind.stop, q.kind.ignoreEos)
           n == [q EXCEPT !.next = Last(p.emitted), !.out = @ \o p.emitted]
           reason == IF p.reason # "none" THEN p.reason ELSE FinishReason(n)
       IN  IF reason = "none"
           THEN /\ mem' = Committed(r, p)
                /\ req' = [req EXCEPT ![r] = n]
                /\ UNCHANGED <<waiting, active, order, epoch>>
           ELSE Retire(Committed(r, p), r, Ended(n, "FINISHED", reason))
    /\ todo' = Tail(todo)
    /\ UNCHANGED <<pc, rows, plans, proposals, depth, decoding, proposer>>

SpecCommitted ==
    /\ pc = "specCommit" /\ todo = << >>
    /\ rows' = << >>
    /\ pc' = "group"
    /\ UNCHANGED <<sched, todo, plans, drafts, proposals, depth, decoding, proposer>>

-----------------------------------------------------------------------------
(* The proposer's forget. *)

\* The end of step(): rows that were decoding and are parked now.
Parked == {r \in decoding : pc # "idle" /\ pc' = "idle" /\ req'[r].state = "WAITING"}

\* Mutant: a cancelled request keeps its draft state.
JustFinished == {r \in Req : req'[r].state \in {"FINISHED", "FAILED"} /\ req[r].state \notin Terminal}

\* _finish_request, _fail_request and cancel
JustEnded == {r \in Req : req'[r].state \in Terminal /\ req[r].state \notin Terminal}

ForgetDrafts ==
    drafts' = [r \in Req |-> IF r \in JustEnded \cup Parked THEN NoDraft ELSE drafts[r]]

\* A step of Engine; at the end of step() its local variables are gone.
EngineMove(A) ==
    /\ A
    /\ ForgetDrafts
    /\ UNCHANGED proposer
    /\ IF pc' = "idle"
       THEN proposals' = None /\ depth' = 0 /\ decoding' = {}
       ELSE UNCHANGED <<proposals, depth, decoding>>

SpecStep ==
    \/ BeginSpeculation \/ NextGroup \/ OrdinaryRows
    \/ SpecRowCapacity /\ ForgetDrafts
    \/ SpecRowsReady \/ Verify
    \/ SpecCommitRow /\ ForgetDrafts
    \/ SpecCommitted
    \/ EngineMove(/\ Step
                  /\ pc = "idle" => ~ \E r \in ToSet(active) : req[r].state = "DECODING")

SpecNext ==
    \/ \E k \in Workload : EngineMove(Create(k))
    \/ \E r \in Req : EngineMove(Submit(r)) \/ EngineMove(Cancel(r))
    \/ SpecStep
    \/ EngineMove(WaitForWork)

SpecWorkerRuns == []<>~Busy \/ []<><<SpecStep>>_specVars

SpecSpec == SpecInit /\ [][SpecNext]_specVars /\ SpecWorkerRuns

-----------------------------------------------------------------------------
(***************************************************************************)
(* A row is verified against a proposal for its present history, never one *)
(* made for a history that rejection, preemption or a rebuild has left     *)
(* behind, and the draft cache holds exactly the tokens it is filed under. *)
(***************************************************************************)
ProposalsAreCurrent ==
    /\ \A r \in Req : DraftExact(drafts[r])
    /\ (proposer = "draft_model" /\ pc = "verify") =>
          \A i \in 1 .. Len(rows) :
              proposals[rows[i]] = GreedyDraft(History(rows[i]), depth)

(***************************************************************************)
(* Draft state exists only for requests that still run or wait: nothing    *)
(* survives a request's end.                                               *)
(***************************************************************************)
DraftsOfTheLiving ==
    \A r \in Req : drafts[r] # NoDraft => req[r].state \in {"PREFILLING", "DECODING", "WAITING"}

(***************************************************************************)
(* Between steps a parked request holds no draft cache.                    *)
(***************************************************************************)
ParkedHoldsNoDraft ==
    pc = "idle" => \A r \in ToSet(waiting) : drafts[r] = NoDraft

=============================================================================
