------------------------------ MODULE Staging ------------------------------
(***************************************************************************)
(* How the engine hands a batch to the GPU.  Decode and prefill metadata   *)
(* are written into pinned host buffers that live as long as the engine,   *)
(* copied to fixed device buffers with non-blocking copies, and read by a  *)
(* forward (eager or a replayed graph) that is queued behind them on one   *)
(* stream.  The host runs ahead of the stream until it needs the sampled   *)
(* tokens, which is the only point where it waits.                         *)
(*                                                                         *)
(* A token is named by its request and position, so that what a row reads  *)
(* or a page holds can be compared with the request it was meant for.      *)
(* The four (five) copies of one staging call are one queued operation.    *)
(***************************************************************************)
EXTENDS Integers, Sequences, FiniteSets, FiniteSetsExt, SequencesExt

CONSTANTS Requests,    \* positive integers, the order in which batches list them
          Prompt,      \* Prompt[r]: prompt length of request r
          MaxNew,      \* tokens every request generates
          NumBlocks, BlockSize,
          MaxActive,   \* rows of the staging buffers
          Buckets,     \* widths for which graphs exist (cuda_graph_batch_sizes)
          ChunkSize,   \* columns of the prefill staging buffers
          MaxYields,   \* bound: preemptions of one request
          MaxAhead     \* operations still queued when the host stages again, at most

VARIABLES req,       \* the requests: state, pages, committed length, outputs
          hostDec, devDec,   \* decode staging rows: pinned host and device
          hostPre, devPre,   \* prefill staging rows: pinned host and device
          stream,    \* operations queued on the GPU and not yet executed
          kv,        \* kv[page][slot]: the token whose keys and values it holds
          logits,    \* what each row of the last forward was computed from
          cpu        \* what the host is waiting for or looping over

vars == <<req, hostDec, devDec, hostPre, devPre, stream, kv, logits, cpu>>

Pages == 1..NumBlocks
Slots == 0..(BlockSize - 1)
Rows == 1..MaxActive
NoPage == 0                  \* -1 in the tables
Pad == <<0, 0>>              \* the pad token, and what uninitialised memory holds
Idle == [op |-> "idle"]
BlocksFor(n) == (n + BlockSize - 1) \div BlockSize
History(r, n) == [i \in 1..n |-> <<r, i - 1>>]
InOrder(S) == SetToSortSeq(S, <)
Widest == IF Buckets = {} THEN 0 ELSE Max(Buckets)

----------------------------------------------------------------------------
(* Reserved slots for the padded rows of a graph.                          *)

DummyPages == 1..BlocksFor(Widest)

DummySlots == [i \in 1..Widest |-> <<((i - 1) \div BlockSize) + 1, (i - 1) % BlockSize>>]

Bucket(n) ==
    LET fitting == {b \in Buckets : n <= b /\ b <= MaxActive}
    IN  IF fitting = {} THEN n ELSE Min(fitting)

RowBucket(n) ==
    LET fitting == {b \in Buckets \cup {1} : n <= b /\ b <= MaxActive}
    IN  IF Buckets = {} \/ fitting = {} THEN n ELSE Min(fitting)

----------------------------------------------------------------------------
(* Staging.                                                                *)

\* Mutant: only the first entry of the table is staged.
DecodeRowStaleTable(old, r) ==
    [tok |-> <<r, req[r].len>>, len |-> req[r].len,
     tab |-> [c \in Pages |-> IF c = 1 THEN req[r].table[1] ELSE old.tab[c]]]

DecodeRow(old, r) ==
    [tok |-> <<r, req[r].len>>, len |-> req[r].len,
     tab |-> [c \in Pages |-> IF c <= Len(req[r].table) THEN req[r].table[c] ELSE old.tab[c]]]

PaddedRow(old, k) ==
    [tok |-> Pad, len |-> DummySlots[k][2], tab |-> [old.tab EXCEPT ![1] = DummySlots[k][1]]]

\* The host decode buffer after staging `rows` in a bucket of n rows.
PrepareDecode(rows, n) ==
    [i \in Rows |->
        IF i <= Len(rows) THEN DecodeRow(hostDec[i], rows[i])
        ELSE IF i <= n THEN PaddedRow(hostDec[i], i - Len(rows))
        ELSE hostDec[i]]

ChunkRow(plan) ==
    LET r == plan[1]  IN
    [ids |-> [j \in 1..ChunkSize |-> IF j <= plan[2] THEN <<r, req[r].len + j - 1>> ELSE Pad],
     start |-> req[r].len, count |-> plan[2],
     tab |-> [c \in Pages |-> IF c <= Len(req[r].table) THEN req[r].table[c] ELSE NoPage]]

InertRow == [ids |-> [j \in 1..ChunkSize |-> Pad], start |-> 0, count |-> 0,
             tab |-> [c \in Pages |-> NoPage]]

\* Mutant: padding rows keep what an earlier batch left.
PreparePrefillNoInert(plans, n) ==
    [i \in Rows |-> IF i <= Len(plans) THEN ChunkRow(plans[i]) ELSE hostPre[i]]

PreparePrefill(plans, n) ==
    [i \in Rows |->
        IF i <= Len(plans) THEN ChunkRow(plans[i])
        ELSE IF i <= n THEN InertRow
        ELSE hostPre[i]]

CopyDecode(n) == [op |-> "copyDecode", rows |-> n]
CopyPrefill(n) == [op |-> "copyPrefill", rows |-> n]
Forward(d, p, width) == [op |-> "forward", dec |-> d, pre |-> p, width |-> width]

----------------------------------------------------------------------------
(* A forward, executed on whatever the device buffers hold by then.        *)

At(tab, pos) == <<tab[(pos \div BlockSize) + 1], pos % BlockSize>>

\* The K/V stores of one forward: rows of the decode part, tokens of the chunks.
Writes(d, p) ==
    {[row |-> <<"dec", i>>, at |-> At(devDec[i].tab, devDec[i].len), tok |-> devDec[i].tok]
        : i \in 1..d} \cup
    UNION {{[row |-> <<"pre", i, j>>, at |-> At(devPre[i].tab, devPre[i].start + j - 1),
             tok |-> devPre[i].ids[j]] : j \in 1..devPre[i].count} : i \in 1..p}

Written(d, p) ==
    LET ws == Writes(d, p)  IN
    [pg \in Pages |-> [s \in Slots |->
        LET here == {w \in ws : w.at = <<pg, s>>}
        IN  IF here = {} THEN kv[pg][s] ELSE (CHOOSE w \in here : TRUE).tok]]

Read(mem, tab, n) ==
    [k \in 1..n |-> LET a == At(tab, k - 1)
                    IN  IF a[1] \in Pages THEN mem[a[1]][a[2]] ELSE Pad]

\* The packed row of hidden states: decode tokens, then each chunk at `width` columns;
\* an entry is the tokens its attention covered.
Hidden(mem, d, p, width) ==
    [x \in 0..(d + p * width - 1) |->
        IF x < d THEN Read(mem, devDec[x + 1].tab, devDec[x + 1].len + 1)
        ELSE LET i == ((x - d) \div width) + 1
                 j == (x - d) % width
             IN  IF j < devPre[i].count
                 THEN Read(mem, devPre[i].tab, devPre[i].start + j + 1)
                 ELSE <<>>]

\* Mutant: the last column of the chunk, padding or not.
LastIndexOfRow(i, d, width) == d + (i - 1) * width + (width - 1)

LastIndex(i, d, width) == d + (i - 1) * width + Max({devPre[i].count - 1, 0})

Logits(mem, d, p, width) ==
    LET hidden == Hidden(mem, d, p, width)
    IN  [i \in 1..(d + p) |->
            IF i <= d THEN hidden[i - 1] ELSE hidden[LastIndex(i - d, d, width)]]

LiveRows(decodeCount, decodeRows, prefillCount) ==
    [i \in 1..(decodeCount + prefillCount) |->
        IF i <= decodeCount THEN i ELSE decodeRows + (i - decodeCount)]

GPU ==
    /\ stream # <<>>
    /\ stream' = Tail(stream)
    /\ LET o == Head(stream)  IN
       \/ /\ o.op = "copyDecode"
          /\ devDec' = [i \in Rows |-> IF i <= o.rows THEN hostDec[i] ELSE devDec[i]]
          /\ UNCHANGED <<devPre, kv, logits>>
       \/ /\ o.op = "copyPrefill"
          /\ devPre' = [i \in Rows |-> IF i <= o.rows THEN hostPre[i] ELSE devPre[i]]
          /\ UNCHANGED <<devDec, kv, logits>>
       \/ /\ o.op = "forward"
          /\ kv' = Written(o.dec, o.pre)
          /\ logits' = Logits(kv', o.dec, o.pre, o.width)
          /\ UNCHANGED <<devDec, devPre>>
    /\ UNCHANGED <<req, hostDec, hostPre, cpu>>

----------------------------------------------------------------------------
(* Requests.                                                               *)

Fresh == [state |-> "waiting", table |-> <<>>, len |-> 0, out |-> 0, yields |-> 0]
Resuming(q) == q.out > 0
PrefillCount(r) == Prompt[r] + (IF Resuming(req[r]) THEN req[r].out - 1 ELSE 0)
Remaining(r) == PrefillCount(r) - req[r].len
InState(s) == {r \in Requests : req[r].state = s}
Free == Pages \ (DummyPages \cup UNION {ToSet(req[r].table) : r \in Requests})

Completed(q) ==   \* prefill finished: a fresh request has its first token
    LET out == Max({q.out, 1})
    IN  IF out >= MaxNew THEN [q EXCEPT !.state = "done", !.table = <<>>, !.out = out]
        ELSE [q EXCEPT !.state = "decode", !.out = out]

CommitDecode(q) ==
    LET s == [q EXCEPT !.len = q.len + 1, !.out = q.out + 1]
    IN  IF s.out >= MaxNew THEN [s EXCEPT !.state = "done", !.table = <<>>] ELSE s

CommitChunk(r, n) ==
    LET s == [req[r] EXCEPT !.len = req[r].len + n]
    IN  IF n = Remaining(r) THEN Completed(s) ELSE s

Admit(r) ==
    /\ cpu = Idle
    /\ r \in InState("waiting") /\ r = Min(InState("waiting"))
    /\ req' = [req EXCEPT ![r].state = "prefill"]
    /\ UNCHANGED <<hostDec, devDec, hostPre, devPre, stream, kv, logits, cpu>>

HasRoom(r, n) == req[r].len + n <= Len(req[r].table) * BlockSize

\* Requests without a slot for their next token (a prefill wants its whole prompt).
Short == {r \in InState("prefill") \cup InState("decode") :
            ~ HasRoom(r, IF req[r].state = "decode" THEN 1 ELSE Remaining(r))}

\* Pages for what a step is about to write, in batch order.
Acquire ==
    /\ cpu = Idle
    /\ Short # {} /\ Free # {}
    /\ req' = [req EXCEPT ![Min(Short)].table = Append(@, Min(Free))]
    /\ UNCHANGED <<hostDec, devDec, hostPre, devPre, stream, kv, logits, cpu>>

\* The newest request yields its pages when one of them cannot grow.
Preempt ==
    /\ cpu = Idle
    /\ Short # {} /\ Free = {}
    /\ LET r == Max(InState("prefill") \cup InState("decode"))  IN
       /\ req[r].yields < MaxYields
       /\ req' = [req EXCEPT ![r] = [@ EXCEPT !.state = "waiting", !.table = <<>>, !.len = 0,
                                              !.yields = @ + 1]]
    /\ UNCHANGED <<hostDec, devDec, hostPre, devPre, stream, kv, logits, cpu>>

Plans == {<<r, n>> \in InState("prefill") \X (1..ChunkSize) :
            n <= Remaining(r) /\ HasRoom(r, n)}

\* One forward for the decode rows and the chunk rows (either may be empty); the
\* host then waits for the sampled tokens.
Issue(rows, plans, drows, prows, width) ==
    /\ Len(stream) <= MaxAhead
    /\ IF drows > 0 THEN hostDec' = PrepareDecode(rows, drows) ELSE UNCHANGED hostDec
    /\ IF prows > 0 THEN hostPre' = PreparePrefill(plans, prows) ELSE UNCHANGED hostPre
    /\ stream' = stream \o (IF drows > 0 THEN <<CopyDecode(drows)>> ELSE <<>>)
                        \o (IF prows > 0 THEN <<CopyPrefill(prows)>> ELSE <<>>)
                        \o <<Forward(drows, prows, width)>>
    /\ cpu' = [op |-> "sync", rows |-> rows, plans |-> plans, drows |-> drows]
    /\ UNCHANGED <<req, devDec, devPre, kv, logits>>

DecodeRows ==
    /\ cpu = Idle
    /\ InState("decode") # {}
    /\ \A r \in InState("decode") : HasRoom(r, 1)
    /\ LET rows == InOrder(InState("decode"))
       IN  Issue(rows, <<>>, Bucket(Len(rows)), 0, 0)

\* At most one plan per request, in order.
PlanSeqs == {InOrder(S) : S \in SUBSET InState("prefill") \ {{}}}

PrefillChunks ==
    /\ cpu = Idle
    /\ \E s \in PlanSeqs : \E n \in [1..Len(s) -> 1..ChunkSize] :
         /\ \A i \in 1..Len(s) : <<s[i], n[i]>> \in Plans
         /\ \E i \in 1..Len(s) : req[s[i]].len # 0 \/ n[i] # PrefillCount(s[i])
         /\ Issue(<<>>, [i \in 1..Len(s) |-> <<s[i], n[i]>>], 0, RowBucket(Len(s)), ChunkSize)

FusedRows ==
    /\ cpu = Idle
    /\ InState("decode") # {}
    /\ \A r \in InState("decode") : HasRoom(r, 1)
    /\ LET rows == InOrder(InState("decode"))  IN
       \E s \in PlanSeqs : \E n \in [1..Len(s) -> 1..ChunkSize] :
         /\ \A i \in 1..Len(s) : <<s[i], n[i]>> \in Plans
         /\ Issue(rows, [i \in 1..Len(s) |-> <<s[i], n[i]>>], Bucket(Len(rows)),
                  RowBucket(Len(s)), ChunkSize)

\* Graph capture stages no request at all: every row of the bucket is padding.
CaptureFused ==
    /\ cpu = Idle
    /\ \E b \in Buckets, p \in Buckets \cup {1} :
         b <= MaxActive /\ p <= MaxActive /\ Issue(<<>>, <<>>, b, p, ChunkSize)

\* The requests after the batch the host waited for.
CommittedBatch ==
    [r \in Requests |->
        IF r \in ToSet(cpu.rows) THEN CommitDecode(req[r])
        ELSE LET mine == {i \in 1..Len(cpu.plans) : cpu.plans[i][1] = r}
             IN  IF mine = {} THEN req[r] ELSE CommitChunk(r, cpu.plans[Min(mine)][2])]

\* The sampled tokens arrive (the transfer waits for the stream) and are committed.
Collect ==
    /\ cpu.op = "sync"
    /\ stream = <<>>
    /\ req' = CommittedBatch
    /\ cpu' = Idle
    /\ logits' = <<>>
    /\ UNCHANGED <<hostDec, devDec, hostPre, devPre, stream, kv>>

\* Whole fresh prompts: a padded forward on tensors created for it (their creation
\* and the sampling wait for the stream); the prompt goes straight into the pages.
PrefillBatch ==
    /\ cpu = Idle
    /\ stream = <<>>
    /\ \E S \in SUBSET InState("prefill") \ {{}} :
         /\ \A r \in S : /\ req[r].len = 0
                         /\ PrefillCount(r) <= ChunkSize
                         /\ HasRoom(r, PrefillCount(r))
         /\ kv' = [pg \in Pages |-> [s \in Slots |->
                    LET here == {<<r, k>> \in S \X (0..ChunkSize) :
                                   k < Prompt[r] /\ At(req[r].table, k) = <<pg, s>>}
                    IN  IF here = {} THEN kv[pg][s] ELSE CHOOSE t \in here : TRUE]]
         /\ req' = [r \in Requests |-> IF r \in S THEN [req[r] EXCEPT !.len = Prompt[r]] ELSE req[r]]
         /\ cpu' = [op |-> "replay", todo |-> InOrder(S)]
    /\ UNCHANGED <<hostDec, devDec, hostPre, devPre, stream, logits>>

\* A resumed request's generated tokens are fed again one by one through the decode
\* path; the logits are discarded, so nothing here waits for the stream.
ReplayDecodeInput ==
    /\ cpu.op = "replay"
    /\ cpu.todo # <<>>
    /\ Len(stream) <= MaxAhead
    /\ LET r == Head(cpu.todo)  IN
       /\ Remaining(r) > 0
       /\ hostDec' = PrepareDecode(<<r>>, 1)
       /\ stream' = stream \o <<CopyDecode(1), Forward(1, 0, 0)>>
       /\ req' = [req EXCEPT ![r].len = @ + 1]
    /\ UNCHANGED <<devDec, hostPre, devPre, kv, logits, cpu>>

ReplayDone ==
    /\ cpu.op = "replay"
    /\ IF cpu.todo = <<>>
       THEN cpu' = Idle /\ UNCHANGED req
       ELSE LET r == Head(cpu.todo)  IN
            /\ Remaining(r) = 0
            /\ req' = [req EXCEPT ![r] = Completed(@)]
            /\ cpu' = [cpu EXCEPT !.todo = Tail(@)]
    /\ UNCHANGED <<hostDec, devDec, hostPre, devPre, stream, kv, logits>>

Init ==
    LET emptyTab == [c \in Pages |-> NoPage]
        decRow == [tok |-> Pad, len |-> 0, tab |-> emptyTab]
    IN  /\ req = [r \in Requests |-> Fresh]
        /\ hostDec = [i \in Rows |-> decRow] /\ devDec = [i \in Rows |-> decRow]
        /\ hostPre = [i \in Rows |-> InertRow] /\ devPre = [i \in Rows |-> InertRow]
        /\ stream = <<>>
        /\ kv = [pg \in Pages |-> [s \in Slots |-> Pad]]
        /\ logits = <<>>
        /\ cpu = Idle

Next ==
    \/ GPU
    \/ \E r \in Requests : Admit(r)
    \/ Acquire \/ Preempt
    \/ DecodeRows \/ PrefillChunks \/ FusedRows \/ CaptureFused
    \/ Collect \/ PrefillBatch \/ ReplayDecodeInput \/ ReplayDone

Spec == Init /\ [][Next]_vars

----------------------------------------------------------------------------
(* Properties.                                                             *)

\* Shape of the state: requests never hold more tokens than their pages have
\* slots, and no page belongs to two requests or to the padded rows.
TypeOK ==
    /\ \A r \in Requests :
         /\ req[r].state \in {"waiting", "prefill", "decode", "done"}
         /\ req[r].out \in 0..MaxNew
         /\ req[r].state \in {"prefill", "decode"} => HasRoom(r, 0)
         /\ IsInjective(req[r].table)
    /\ \A r, q \in Requests : r # q => ToSet(req[r].table) \cap ToSet(req[q].table) = {}
    /\ \A i \in 1..Len(stream) : stream[i].op \in {"copyDecode", "copyPrefill", "forward"}
    /\ cpu.op \in {"idle", "sync", "replay"}

\* A forward is about to run for the batch the host waits on.
AboutToRun == cpu.op = "sync" /\ stream # <<>> /\ Head(stream).op = "forward"

\* No two rows of a forward store into the same slot, padding included, and also when a
\* capture stages no request and every row is padding (_reserve_graph_dummy_blocks: "no
\* two padded rows write the same address").
DistinctWrites ==
    AboutToRun =>
        LET ws == Writes(Head(stream).dec, Head(stream).pre)
        IN  \A v, w \in ws : v.at = w.at => v = w

\* What a comment says of the widest of those captures ("wraps around: two inert rows
\* then store the same pad token into the same slot").  It does not hold, and no run
\* checks it: a slot is reserved for each row of the widest bucket.
CaptureWrapsAround ==
    (AboutToRun /\ cpu.rows = <<>> /\ Widest > 1 /\ Head(stream).dec = Widest) =>
        \E v, w \in Writes(Head(stream).dec, 0) : v.row # w.row /\ v.at = w.at

\* A row of a forward reaches only pages of its own request, and padding only the
\* reserved pages: the stale columns of a staged block table, and rows staged for an
\* earlier batch, are never followed.
OwnPagesOnly ==
    AboutToRun =>
        /\ \A i \in 1..Head(stream).dec :
             LET own == IF i <= Len(cpu.rows) THEN ToSet(req[cpu.rows[i]].table) ELSE DummyPages
             IN  \A k \in 0..devDec[i].len : At(devDec[i].tab, k)[1] \in own
        /\ \A i \in 1..Head(stream).pre :
             IF i <= Len(cpu.plans)
             THEN \A k \in 0..(devPre[i].start + devPre[i].count - 1) :
                    At(devPre[i].tab, k)[1] \in ToSet(req[cpu.plans[i][1]].table)
             ELSE devPre[i].count = 0

\* Whatever earlier batches left in the buffers, a forward stays inside the pages of its
\* own requests and no two of its rows collide.
RowsStayApart == TypeOK /\ DistinctWrites /\ OwnPagesOnly

\* The token a request is given was computed from that request's own history, whatever
\* padding, chunk width and packing put around it: the row the host reads out for it
\* attended to all its earlier tokens and nothing else.
SampledFromOwnHistory ==
    (cpu.op = "sync" /\ stream = <<>> /\ logits # <<>>) =>
        LET live == LiveRows(Len(cpu.rows), cpu.drows, Len(cpu.plans))
        IN  /\ \A i \in 1..Len(cpu.rows) :
                 LET r == cpu.rows[i]  IN logits[live[i]] = History(r, req[r].len + 1)
            /\ \A i \in 1..Len(cpu.plans) :
                 LET r == cpu.plans[i][1]
                 IN  logits[live[Len(cpu.rows) + i]] = History(r, req[r].len + cpu.plans[i][2])

\* Once the stream has drained, the pages of every request hold exactly its committed
\* tokens: a resumed request "continues exactly where it was preempted".
PagesHoldHistory ==
    stream = <<>> =>
        \A r \in Requests : req[r].table # <<>> =>
            Read(kv, req[r].table, req[r].len) = History(r, req[r].len)
============================================================================
