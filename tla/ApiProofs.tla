----------------------------- MODULE ApiProofs -----------------------------
(***************************************************************************)
(* What a client is told is true, for every set of tokens, every set of    *)
(* stop strings and every limit on the lengths.  The inductive invariant   *)
(* says where the service may hold the handle while the handler stands at  *)
(* each of its awaits, what lies behind each way a request ends, what the  *)
(* callback registered on the handle has seen, and what was sent.          *)
(***************************************************************************)
EXTENDS Api, SequenceLemmas

States  == Live \cup {"FINISHED", "FAILED", "REJECTED", "CANCELLED"}
Cancels == {"TIMEOUT", "SERVER_SHUTDOWN", "CLIENT_DISCONNECTED", "STOP_SEQUENCE"}
Char    == Token \cup {"?", "e'"}
Before  == {"start", "tokenizing", "put"}

\* The service no longer serves: the shutdown has reached the leftovers, or the
\* worker is dead.
Late == svc \in {"closing", "dead", "stopped", "none"}

CallShape == call \in [route : Route, prompt : PromptLens, stops : Stops, unsupported : BOOLEAN]
FlagShape ==
  /\ pc \in {"start", "tokenizing", "put", "register", "waiting", "loop", "push", "tail",
             "text", "yielded", "stopped", "over"}
  /\ svc \in {"loading", "ready", "draining", "closing", "dead", "stopped", "none"}
  /\ where \in {"nowhere", "inbox", "active", "gone"}
  /\ waiter \in {None, "complete", "accept"}
  /\ woken \in BOOLEAN /\ expired \in BOOLEAN /\ gone \in BOOLEAN /\ done \in BOOLEAN
ReqShape == req.state \in States /\ req = [state |-> req.state, reason |-> req.reason]
OutShape == out \in Seq(Char) /\ Len(out) <= MaxNew
HandleShape ==
  /\ handle = [completed |-> handle.completed, accepted |-> handle.accepted,
               error |-> handle.error]
  /\ handle.completed \in BOOLEAN /\ handle.accepted \in BOOLEAN
  /\ handle.error \in {None, "rejected", "engine", "shutdown"}
QueueShape == cancels \in Seq(Cancels)
SentShape == sent \in Seq(Char)
RespShape == resp = [status |-> resp.status, finish |-> resp.finish]

Shapes == /\ CallShape /\ FlagShape /\ ReqShape /\ OutShape /\ HandleShape
          /\ QueueShape /\ SentShape /\ RespShape

\* Where the handle is, and what its flags say there.
Places ==
  /\ handle.accepted <=> where \in {"active", "gone"}
  /\ handle.completed <=> where = "gone"
  /\ ~handle.completed => handle.error = None
  /\ handle.completed /\ handle.error = None => Ended
  /\ handle.error = "rejected" => Ended
  /\ handle.error = "shutdown" => svc \in {"stopped", "none"}
  /\ where \in {"nowhere", "inbox"} => req = [state |-> "WAITING", reason |-> None]
  /\ where = "nowhere" => pc \in Before \cup {"over"}
  /\ pc \in Before => where = "nowhere"
  /\ svc = "loading" => where = "nowhere" /\ pc \in {"start", "over"}

\* What lies behind the end of a request and behind a queued cancellation.
Causes ==
  /\ req.state \in {"WAITING", "REJECTED"} => out = <<>>
  /\ req.state = "FAILED" => req.reason \in {"KV_POOL_EXHAUSTED", "INVALID_PREFIX_ENTRY"}
  /\ req.state = "CANCELLED" /\ req.reason = "TIMEOUT" => expired
  /\ req.state = "CANCELLED" /\ req.reason = "SERVER_SHUTDOWN" => Late
  /\ \A i \in 1 .. Len(cancels) : cancels[i] = "TIMEOUT" => expired
  /\ \A i \in 1 .. Len(cancels) : cancels[i] = "SERVER_SHUTDOWN" => Late
  /\ Len(cancels) <= (IF Late THEN 1 ELSE 0) + (IF pc = "over" THEN 2 ELSE 0)

Wanted == IF call.route = "generate" THEN "complete" ELSE "accept"
Event  == IF call.route = "generate" THEN handle.completed ELSE handle.accepted

\* Which handler stands where, and what its callback has seen.
Waits ==
  /\ pc \in Before \cup {"register"} => waiter = None /\ ~woken
  /\ pc \in {"register", "waiting"} => call.route \in Native
  /\ pc = "waiting" => (woken <=> Event) /\ (~woken => waiter = Wanted)
  /\ pc = "loop" => call.route # "generate"
  /\ pc \in {"push", "tail"} => call.route = "generate_stream"
  /\ pc \in {"text", "yielded", "stopped"} => call.route = "openai_stream"
  /\ pc = "tail" => handle.completed
  /\ call.route = "generate_stream" /\ resp.status = 200 =>
       handle.accepted /\ pc \in {"loop", "push", "tail", "over"}
  /\ call.route = "generate_stream" /\ pc \in {"loop", "push", "tail"} => resp.status = 200

\* What has been said before the answer is over.
Unsaid ==
  /\ pc # "over" => resp.finish = None
  /\ pc # "over" /\ call.route # "openai_stream" => resp.status \in {0, 200}
  /\ pc # "over" /\ call.route \in {"generate", "openai"} => resp.status = 0
  /\ pc # "over" /\ call.route # "generate_stream" /\ call.route # "openai_stream" => sent = <<>>

\* The causes behind a status of a native route, and behind the finish reason.
Said ==
  call.route \in Native =>
    /\ IsPrefix(sent, out)
    /\ resp.finish \notin {None, "error", "TIMEOUT"} =>
         handle.completed /\ req = [state |-> "FINISHED", reason |-> resp.finish] /\ sent = out
    /\ resp.status = 504 => expired
    /\ resp.status \in {400, 413, 429} => where = "nowhere" \/ req.state = "REJECTED"
    /\ resp.status = 503 =>
         \/ Late \/ svc = "draining" \/ where = "nowhere"
         \/ req.state = "FAILED" /\ req.reason = "KV_POOL_EXHAUSTED"
    /\ resp.status = 500 =>
         handle.error = "engine" \/ (req.state = "FAILED" /\ req.reason = "INVALID_PREFIX_ENTRY")

\* The text of an answer is a prefix of the text generated since, and free of stop
\* strings: it ends before the last character, or the request is over.
Texts ==
  call.route = "openai" /\ resp.status = 200 =>
    /\ IsPrefix(sent, Decode(out))
    /\ handle.completed \/ Len(sent) < Len(Decode(out))
    /\ \A s \in call.stops \ {<<>>} : Occurrences(sent, s) = {}

ApiInv == /\ Shapes /\ Places /\ Causes /\ Waits /\ Unsaid /\ Said /\ Texts
          /\ AbandonedIsCancelled

\* The text a stream without stop strings has sent is final where it was sent whole.
Wholly ==
  call.route = "openai_stream" /\ call.stops = {} =>
    /\ IsPrefix(sent, Decode(out))
    /\ pc # "stopped"
    /\ done => handle.completed
    /\ pc = "yielded" /\ done => sent = Decode(out)
    /\ pc = "over" /\ resp.finish # None /\ ~gone /\ ~expired =>
         handle.completed /\ sent = Decode(out)


-----------------------------------------------------------------------------
(* Text. *)

LEMMA Characters == "?" \in Char /\ "e'" \in Char
  BY DEF Char

LEMMA FrontElements ==
    ASSUME NEW S, NEW s \in Seq(S), s # <<>>
    PROVE  /\ Front(s) \in Seq(S) /\ Len(Front(s)) = Len(s) - 1
           /\ \A i \in 1 .. Len(s) - 1 : Front(s)[i] = s[i]
  <1> DEFINE n == Len(s)
             m == n - 1
             f == SubSeq(s, 1, m)
  <1>1. Front(s) = f
    BY DEF Front
  <1>2. n \in Nat /\ n # 0 /\ \A i \in 1 .. n : s[i] \in S
    OBVIOUS
  <1>3. 1 \in Int /\ m \in Int /\ \A i \in 1 .. m : s[i] \in S
    BY <1>2
  <1>4. /\ f \in Seq(S)
        /\ Len(f) = (IF 1 <= m THEN (m - 1) + 1 ELSE 0)
        /\ \A i \in 1 .. (m - 1) + 1 : f[i] = s[(1 + i) - 1]
    <2> HIDE DEF m
    <2> QED BY <1>3, SubSeqProperties
  <1> HIDE DEF f, n
  <1>5. Len(f) = n - 1
    BY <1>2, <1>4
  <1>6. ASSUME NEW i \in 1 .. n - 1 PROVE f[i] = s[i]
    <2>1. i \in 1 .. (m - 1) + 1 /\ (1 + i) - 1 = i
      BY <1>2
    <2> QED BY <1>4, <2>1
  <1> QED
    BY <1>1, <1>4, <1>5, <1>6 DEF n

\* One more token keeps the text, but for its last character.
LEMMA ShownText ==
    ASSUME NEW text \in Seq(Char), NEW t \in Char
    PROVE  /\ Shown(text, t) \in Seq(Char)
           /\ Len(Shown(text, t)) >= Len(text)
           /\ \A i \in 1 .. Len(text) - 1 : Shown(text, t)[i] = text[i]
           /\ t \notin {"<h1>", "<h2>"} =>
                \A i \in 1 .. Len(text) : Shown(text, t)[i] = text[i]
  <1>1. CASE t = "<eos>"
    BY <1>1 DEF Shown
  <1>2. CASE t = "<h2>" /\ text # <<>> /\ Last(text) = "?"
    <2> DEFINE f == Front(text)
    <2>1. Len(text) \in Nat /\ Len(text) > 0
      BY <1>2
    <2>2. f \in Seq(Char) /\ Len(f) = Len(text) - 1
          /\ \A i \in 1 .. Len(text) - 1 : f[i] = text[i]
      BY <1>2, FrontElements
    <2>3. Shown(text, t) = Append(f, "e'")
      BY <1>2 DEF Shown
    <2> HIDE DEF f
    <2>4. "e'" \in Char
      BY Characters
    <2>5. /\ Append(f, "e'") \in Seq(Char) /\ Len(Append(f, "e'")) = Len(f) + 1
          /\ \A i \in 1 .. Len(f) : Append(f, "e'")[i] = f[i]
      BY <2>2, <2>4
    <2> QED
      BY <1>2, <2>1, <2>2, <2>3, <2>5, SMTT(30)
  <1>3. CASE t = "<h1>" \/ (t = "<h2>" /\ (text = <<>> \/ Last(text) # "?"))
    <2>1. Shown(text, t) = Append(text, "?")
      BY <1>3 DEF Shown
    <2>2. "?" \in Char
      BY Characters
    <2> QED
      BY <2>1, <2>2, <1>3
  <1>4. CASE t \notin {"<eos>", "<h1>", "<h2>"}
    <2>1. Shown(text, t) = Append(text, t)
      BY <1>4 DEF Shown
    <2> QED
      BY <2>1
  <1> QED
    BY <1>1, <1>2, <1>3, <1>4

\* f[i] is the text of the first i tokens.
DecodeRun(f, ids) ==
    /\ f \in [0 .. Len(ids) -> Seq(Char)]
    /\ f[0] = <<>>
    /\ \A i \in 1 .. Len(ids) : f[i] = Shown(f[i - 1], ids[i])
    /\ Decode(ids) = f[Len(ids)]

LEMMA DecodeRuns ==
    ASSUME NEW ids \in Seq(Char)
    PROVE  \E f : DecodeRun(f, ids)
  <1> DEFINE n == Len(ids)
             G == [i \in 1 .. n |-> [x \in Seq(Char) |-> Shown(x, ids[i])]]
             step(f) == [i \in 0 .. n |-> IF i = 0 THEN <<>> ELSE Shown(f[i - 1], ids[i])]
             k == CHOOSE f : f = step(f)
  <1>0. Decode(ids) = k[n]
    BY DEF Decode
  <1>1. n \in Nat /\ <<>> \in Seq(Char) /\ \A i \in 1 .. n : ids[i] \in Char
    OBVIOUS
  <1> HIDE DEF n
  <1>2. \A i \in 1 .. n : \A x \in Seq(Char) : Shown(x, ids[i]) \in Seq(Char)
    BY <1>1, ShownText
  <1>3. G \in [1 .. n -> [Seq(Char) -> Seq(Char)]]
    BY <1>2
  <1>4. \A i \in 1 .. n : \A x \in Seq(Char) : G[i][x] = Shown(x, ids[i])
    OBVIOUS
  <1> HIDE DEF G
  <1>5. PICK h : Recursion(h, n, Seq(Char), <<>>, G)
    BY <1>1, <1>3, RecursionExists
  <1>6. /\ h \in [0 .. n -> Seq(Char)] /\ h[0] = <<>>
        /\ \A i \in 1 .. n : h[i] = Shown(h[i - 1], ids[i])
    <2>1. h \in [0 .. n -> Seq(Char)] /\ h[0] = <<>> /\ \A i \in 1 .. n : h[i] = G[i][h[i - 1]]
      BY <1>5 DEF Recursion
    <2>2. ASSUME NEW i \in 1 .. n PROVE h[i] = Shown(h[i - 1], ids[i])
      <3>1. i - 1 \in 0 .. n
        BY <1>1
      <3>2. h[i - 1] \in Seq(Char)
        BY <3>1, <2>1
      <3> QED BY <2>1, <3>2, <1>4
    <2> QED BY <2>1, <2>2
  <1>7. h = step(h)
    <2>1. \A i \in 0 .. n : h[i] = IF i = 0 THEN <<>> ELSE Shown(h[i - 1], ids[i])
      BY <1>1, <1>6
    <2> QED BY <2>1, <1>6
  <1>8. k = step(k)
    BY <1>7
  <1> HIDE DEF k
  <1>9. k[0] = <<>> /\ \A i \in 1 .. n : k[i] = Shown(k[i - 1], ids[i])
    <2>1. \A i \in 0 .. n : k[i] = IF i = 0 THEN <<>> ELSE Shown(k[i - 1], ids[i])
      BY <1>8
    <2> QED BY <2>1, <1>1
  <1>10. \A i \in 0 .. n : k[i] \in Seq(Char)
    <2> DEFINE U == {i \in 0 .. n : k[i] \in Seq(Char)}
    <2>1. 0 \in U
      <3>1. 0 \in 0 .. n
        BY <1>1
      <3> QED BY <1>1, <1>9, <3>1
    <2>2. ASSUME NEW i \in 0 .. n - 1, i \in U PROVE i + 1 \in U
      <3>1. i + 1 \in 1 .. n /\ i + 1 \in 0 .. n /\ (i + 1) - 1 = i
        BY <1>1
      <3>2. k[i + 1] = Shown(k[i], ids[i + 1])
        BY <3>1, <1>9
      <3>3. k[i] \in Seq(Char)
        BY <2>2
      <3>4. k[i + 1] \in Seq(Char)
        BY <3>1, <3>2, <3>3, <1>2
      <3> QED BY <3>1, <3>4
    <2>3. \A i \in 0 .. n - 1 : i \in U => i + 1 \in U
      BY <2>2
    <2> HIDE DEF U
    <2>4. \A i \in 0 .. n : i \in U
      BY <1>1, <2>1, <2>3, BoundedInduction
    <2> QED BY <2>4 DEF U
  <1>11. k \in [0 .. n -> Seq(Char)]
    BY <1>8, <1>10
  <1> QED BY <1>0, <1>9, <1>11 DEF n, DecodeRun

\* Decoding one token more shows one token more.
LEMMA DecodeAppend ==
    ASSUME NEW ids \in Seq(Char), NEW t \in Char
    PROVE  /\ Decode(ids) \in Seq(Char)
           /\ Decode(Append(ids, t)) = Shown(Decode(ids), t)
  <1> DEFINE more == Append(ids, t)
             n == Len(ids)
  <1>1. /\ n \in Nat /\ more \in Seq(Char) /\ Len(more) = n + 1 /\ more[n + 1] = t
        /\ \A i \in 1 .. n : more[i] = ids[i]
    OBVIOUS
  <1> HIDE DEF more
  <1>2. PICK f : DecodeRun(f, ids)
    BY DecodeRuns
  <1>3. PICK g : DecodeRun(g, more)
    BY <1>1, DecodeRuns
  <1>4. /\ f \in [0 .. n -> Seq(Char)] /\ f[0] = <<>> /\ Decode(ids) = f[n]
        /\ \A i \in 1 .. n : f[i] = Shown(f[i - 1], ids[i])
    BY <1>2 DEF DecodeRun
  <1>5. /\ g \in [0 .. n + 1 -> Seq(Char)] /\ g[0] = <<>> /\ Decode(more) = g[n + 1]
        /\ \A i \in 1 .. n + 1 : g[i] = Shown(g[i - 1], more[i])
    BY <1>1, <1>3 DEF DecodeRun
  <1> HIDE DEF n
  <1>6. \A i \in 0 .. n : g[i] = f[i]
    <2> DEFINE U == {i \in 0 .. n : g[i] = f[i]}
    <2>1. 0 \in U
      BY <1>1, <1>4, <1>5
    <2>2. ASSUME NEW i \in 0 .. n - 1, i \in U PROVE i + 1 \in U
      <3>1. i + 1 \in 1 .. n /\ i + 1 \in 0 .. n /\ i + 1 \in 1 .. n + 1 /\ (i + 1) - 1 = i
        BY <1>1
      <3>2. f[i + 1] = Shown(f[i], ids[i + 1]) /\ g[i + 1] = Shown(g[i], more[i + 1])
        BY <3>1, <1>4, <1>5
      <3>3. g[i] = f[i] /\ more[i + 1] = ids[i + 1]
        BY <2>2, <3>1, <1>1
      <3> QED BY <3>1, <3>2, <3>3
    <2>3. \A i \in 0 .. n - 1 : i \in U => i + 1 \in U
      BY <2>2
    <2> HIDE DEF U
    <2>4. \A i \in 0 .. n : i \in U
      BY <1>1, <2>1, <2>3, BoundedInduction
    <2> QED BY <2>4 DEF U
  <1>7. n \in 0 .. n /\ n + 1 \in 1 .. n + 1 /\ (n + 1) - 1 = n
    BY <1>1
  <1>8. g[n + 1] = Shown(g[n], t)
    BY <1>1, <1>5, <1>7
  <1> QED BY <1>4, <1>5, <1>6, <1>7, <1>8 DEF more

LEMMA PrefixElements ==
    ASSUME NEW S, NEW s \in Seq(S), NEW t \in Seq(S)
    PROVE  IsPrefix(s, t) <=> Len(s) <= Len(t) /\ \A i \in 1 .. Len(s) : s[i] = t[i]
  <1> DEFINE n == Len(s)
             a == SubSeq(s, 1, n)
             b == SubSeq(t, 1, n)
  <1>1. n \in Nat /\ Len(t) \in Nat /\ \A i \in 1 .. n : s[i] \in S
    OBVIOUS
  <1>2. \A i \in 1 .. Len(t) : t[i] \in S
    OBVIOUS
  <1>3. IsPrefix(s, t) <=> n <= Len(t) /\ a = b
    BY DEF IsPrefix
  <1>4. a = s
    BY <1>1
  <1>5. CASE n <= Len(t)
    <2>1. 1 \in Int /\ n \in Int /\ \A i \in 1 .. n : t[i] \in S
      BY <1>1, <1>2, <1>5
    <2>2. /\ b \in Seq(S) /\ Len(b) = (IF 1 <= n THEN (n - 1) + 1 ELSE 0)
          /\ \A i \in 1 .. (n - 1) + 1 : b[i] = t[(1 + i) - 1]
      <3> HIDE DEF n
      <3> QED BY <2>1, SubSeqProperties
    <2> HIDE DEF b
    <2>3. Len(b) = n
      BY <1>1, <2>2
    <2>4. ASSUME NEW i \in 1 .. n PROVE b[i] = t[i]
      <3>1. i \in 1 .. (n - 1) + 1 /\ (1 + i) - 1 = i
        BY <1>1
      <3> QED BY <2>2, <3>1
    <2>5. (\A i \in 1 .. n : s[i] = b[i]) => s = b
      BY <2>2, <2>3
    <2> QED
      BY <1>3, <1>4, <1>5, <2>3, <2>4, <2>5
  <1>6. CASE ~(n <= Len(t))
    BY <1>3, <1>6
  <1> QED
    BY <1>5, <1>6

\* The text of one token more extends what the text had before its last
\* character, and all of it when the token is not half a character.
LEMMA DecodeGrows ==
    ASSUME NEW ids \in Seq(Char), NEW t \in Char, NEW p \in Seq(Char),
           IsPrefix(p, Decode(ids))
    PROVE  /\ Len(p) < Len(Decode(ids)) \/ t \notin {"<h1>", "<h2>"} =>
                IsPrefix(p, Decode(Append(ids, t)))
           /\ Len(p) < Len(Decode(ids)) => Len(p) < Len(Decode(Append(ids, t)))
  <1> DEFINE d == Decode(ids)
             e == Decode(Append(ids, t))
  <1>1. d \in Seq(Char) /\ e = Shown(d, t)
    BY DecodeAppend
  <1> HIDE DEF d, e
  <1>2. /\ e \in Seq(Char) /\ Len(e) >= Len(d)
        /\ \A i \in 1 .. Len(d) - 1 : e[i] = d[i]
        /\ t \notin {"<h1>", "<h2>"} => \A i \in 1 .. Len(d) : e[i] = d[i]
    BY <1>1, ShownText
  <1>3. Len(d) \in Nat /\ Len(e) \in Nat /\ Len(p) \in Nat
    BY <1>1, <1>2
  <1>4. Len(p) <= Len(d) /\ \A i \in 1 .. Len(p) : p[i] = d[i]
    BY <1>1, PrefixElements DEF d
  <1>5. ASSUME Len(p) < Len(d) \/ t \notin {"<h1>", "<h2>"} PROVE IsPrefix(p, e)
    <2>1. ASSUME NEW i \in 1 .. Len(p) PROVE p[i] = e[i]
      <3>1. i \in 1 .. Len(d)
        BY <1>3, <1>4
      <3>2. Len(p) < Len(d) => i \in 1 .. Len(d) - 1
        BY <1>3
      <3> QED BY <1>2, <1>4, <1>5, <3>1, <3>2
    <2> QED BY <1>2, <1>3, <1>4, <2>1, PrefixElements
  <1>6. Len(p) < Len(d) => Len(p) < Len(e)
    BY <1>2, <1>3
  <1> QED BY <1>5, <1>6 DEF d, e

\* What truncate_at_stop returns: a prefix without a stop string, all of the
\* text unless a stop string occurs in it.
Truncated(cut, text, stops) ==
    /\ cut.hit \in BOOLEAN /\ cut.text \in Seq(Char) /\ IsPrefix(cut.text, text)
    /\ cut.hit => Len(cut.text) < Len(text)
    /\ ~cut.hit => cut.text = text
    /\ stops = {} => ~cut.hit
    /\ \A s \in stops \ {<<>>} : Occurrences(cut.text, s) = {}

LEMMA SomeLength ==
    ASSUME NEW S, NEW s \in Seq(S), s # <<>>
    PROVE  Len(s) \in Nat /\ Len(s) > 0
  OBVIOUS

LEMMA TruncateAtStopCuts ==
    ASSUME NEW text \in Seq(Char), NEW stops, \A s \in stops : s \in Seq(STRING)
    PROVE  Truncated(TruncateAtStop(text, stops), text, stops)
  <1> DEFINE proper == stops \ {<<>>}
             cuts == UNION {Occurrences(text, s) : s \in proper}
             least == CHOOSE i \in cuts : \A j \in cuts : i <= j
             head == SubSeq(text, 1, least)
  <1>1. TruncateAtStop(text, stops) = IF cuts = {} THEN [text |-> text, hit |-> FALSE]
                                      ELSE [text |-> head, hit |-> TRUE]
    BY DEF TruncateAtStop
  <1>2. \A s \in proper : Len(s) \in Nat /\ Len(s) > 0
    BY SomeLength
  <1>3. Len(text) \in Nat
    OBVIOUS
  <1>4. \A s \in proper : \A i : i \in Occurrences(text, s) <=>
           i \in 0 .. Len(text) - Len(s) /\ SubSeq(text, i + 1, i + Len(s)) = s
    BY DEF Occurrences
  <1>5. \A i : i \in cuts <=> \E s \in proper : i \in Occurrences(text, s)
    OBVIOUS
  <1> HIDE DEF proper, cuts
  <1>6. CASE cuts = {}
    <2>1. \A s \in proper : Occurrences(text, s) = {}
      BY <1>5, <1>6
    <2>2. IsPrefix(text, text)
      BY PrefixElements, <1>3
    <2> DEFINE cut == TruncateAtStop(text, stops)
    <2>3. cut.hit = FALSE /\ cut.text = text
      BY <1>1, <1>6
    <2> HIDE DEF cut
    <2> QED BY <2>1, <2>2, <2>3 DEF Truncated, proper, cut
  <1>7. CASE cuts # {}
    <2>1. cuts \subseteq Nat /\ \A i \in cuts : i < Len(text)
      BY <1>2, <1>3, <1>4, <1>5
    <2>2. least \in cuts /\ \A j \in cuts : least <= j
      BY <2>1, <1>7, MinProperties DEF Min
    <2> HIDE DEF least
    <2>3. least \in Nat /\ least < Len(text)
      BY <2>1, <2>2
    <2>4. head \in Seq(Char) /\ Len(head) = least /\ \A i \in 1 .. least : head[i] = text[i]
      <3>1. 1 \in Int /\ least \in Int /\ \A i \in 1 .. least : text[i] \in Char
        BY <1>3, <2>3
      <3>2. /\ head \in Seq(Char) /\ Len(head) = (IF 1 <= least THEN (least - 1) + 1 ELSE 0)
            /\ \A i \in 1 .. (least - 1) + 1 : head[i] = text[(1 + i) - 1]
        BY <3>1, SubSeqProperties
      <3> HIDE DEF head
      <3>3. Len(head) = least
        BY <2>3, <3>2
      <3>4. ASSUME NEW i \in 1 .. least PROVE head[i] = text[i]
        <4>1. i \in 1 .. (least - 1) + 1 /\ (1 + i) - 1 = i
          BY <2>3
        <4> QED BY <3>2, <4>1
      <3> QED BY <3>2, <3>3, <3>4
    <2>5. IsPrefix(head, text)
      <3> HIDE DEF head
      <3> QED BY <1>3, <2>3, <2>4, PrefixElements
    <2>6. ASSUME NEW s \in proper PROVE Occurrences(head, s) = {}
      <3> SUFFICES ASSUME NEW i \in Occurrences(head, s) PROVE FALSE
        OBVIOUS
      <3>1. i \in 0 .. Len(head) - Len(s) /\ SubSeq(head, i + 1, i + Len(s)) = s
        BY DEF Occurrences
      <3>2. Len(s) \in Nat /\ Len(s) > 0
        BY <1>2
      <3>3. /\ i \in Nat /\ i < least /\ i + Len(s) <= least
            /\ i \in 0 .. Len(text) - Len(s)
        BY <2>3, <2>4, <3>1, <3>2, <1>3
      <3>4. SubSeq(text, i + 1, i + Len(s)) = SubSeq(head, i + 1, i + Len(s))
        <4> DEFINE m == i + 1
                   n == i + Len(s)
        <4>1. /\ m \in Int /\ n \in Int /\ m >= 1 /\ n <= least
              /\ \A j \in m .. n : head[j] = text[j] /\ head[j] \in Char
          <5>1. \A j \in i + 1 .. i + Len(s) : j \in 1 .. least
            BY <3>2, <3>3, <2>3
          <5>2. \A j \in 1 .. least : head[j] \in Char
            BY <2>4
          <5> QED BY <5>1, <5>2, <2>3, <2>4, <3>2, <3>3
        <4> HIDE DEF m, n, head
        <4> DEFINE u == SubSeq(text, m, n)
                   v == SubSeq(head, m, n)
        <4>2. /\ u \in Seq(Char) /\ Len(u) = (IF m <= n THEN (n - m) + 1 ELSE 0)
              /\ \A j \in 1 .. (n - m) + 1 : u[j] = text[(m + j) - 1]
          BY <4>1, SubSeqProperties
        <4>3. /\ v \in Seq(Char) /\ Len(v) = (IF m <= n THEN (n - m) + 1 ELSE 0)
              /\ \A j \in 1 .. (n - m) + 1 : v[j] = head[(m + j) - 1]
          BY <4>1, SubSeqProperties
        <4> HIDE DEF u, v
        <4>4. ASSUME NEW j \in 1 .. Len(u) PROVE u[j] = v[j]
          <5>1. j \in 1 .. (n - m) + 1 /\ (m + j) - 1 \in m .. n
            BY <4>1, <4>2
          <5> QED BY <4>1, <4>2, <4>3, <5>1
        <4>5. u = v
          BY <4>2, <4>3, <4>4
        <4> QED BY <4>5 DEF u, v, m, n
      <3>5. i \in cuts
        BY <1>4, <1>5, <3>1, <3>3, <3>4
      <3> QED BY <2>2, <2>3, <3>3, <3>5
    <2> DEFINE cut == TruncateAtStop(text, stops)
    <2> HIDE DEF head
    <2>7. cut.hit = TRUE /\ cut.text = head
      BY <1>1, <1>7
    <2>8. stops # {}
      BY <1>5, <1>7 DEF proper
    <2> HIDE DEF cut
    <2> QED BY <2>3, <2>4, <2>5, <2>6, <2>7, <2>8 DEF Truncated, proper, cut
  <1> QED BY <1>6, <1>7

LEMMA PrefixSteps ==
    ASSUME NEW S, NEW s \in Seq(S), NEW t \in Seq(S), IsPrefix(s, t)
    PROVE  /\ \A x \in S : IsPrefix(s, Append(t, x))
           /\ Len(s) < Len(t) => /\ t[Len(s) + 1] \in S
                                 /\ Append(s, t[Len(s) + 1]) \in Seq(S)
                                 /\ IsPrefix(Append(s, t[Len(s) + 1]), t)
           /\ ~(Len(s) < Len(t)) => s = t
  <1>1. /\ Len(s) \in Nat /\ Len(t) \in Nat
        /\ Len(s) <= Len(t) /\ \A i \in 1 .. Len(s) : s[i] = t[i]
    BY PrefixElements
  <1>2. ASSUME NEW x \in S PROVE IsPrefix(s, Append(t, x))
    <2> DEFINE u == Append(t, x)
    <2>1. u \in Seq(S) /\ Len(u) = Len(t) + 1 /\ \A i \in 1 .. Len(t) : u[i] = t[i]
      OBVIOUS
    <2> HIDE DEF u
    <2>2. Len(s) <= Len(u) /\ \A i \in 1 .. Len(s) : s[i] = u[i]
      BY <1>1, <2>1
    <2>3. IsPrefix(s, u)
      BY <2>1, <2>2, PrefixElements
    <2> QED BY <2>3 DEF u
  <1>3. ASSUME Len(s) < Len(t)
        PROVE  /\ t[Len(s) + 1] \in S
               /\ Append(s, t[Len(s) + 1]) \in Seq(S)
               /\ IsPrefix(Append(s, t[Len(s) + 1]), t)
    <2> DEFINE x == t[Len(s) + 1]
               u == Append(s, x)
    <2>1. x \in S
      BY <1>1, <1>3
    <2> HIDE DEF x
    <2>2. /\ u \in Seq(S) /\ Len(u) = Len(s) + 1 /\ u[Len(s) + 1] = x
          /\ \A i \in 1 .. Len(s) : u[i] = s[i]
      BY <2>1
    <2> HIDE DEF u
    <2>3. ASSUME NEW i \in 1 .. Len(u) PROVE u[i] = t[i]
      <3>1. i \in 1 .. Len(s) \/ i = Len(s) + 1
        BY <1>1, <2>2
      <3> QED BY <1>1, <2>2, <3>1 DEF x
    <2>4. Len(u) <= Len(t)
      BY <1>1, <1>3, <2>2
    <2>5. IsPrefix(u, t)
      BY <2>2, <2>3, <2>4, PrefixElements
    <2> QED BY <2>1, <2>2, <2>5 DEF u, x
  <1>4. ASSUME ~(Len(s) < Len(t)) PROVE s = t
    <2>1. Len(s) = Len(t)
      BY <1>1, <1>4
    <2> QED BY <1>1, <2>1
  <1> QED BY <1>2, <1>3, <1>4

LEMMA PrefixSelf ==
    ASSUME NEW S, NEW s \in Seq(S)
    PROVE  IsPrefix(s, s) /\ IsPrefix(<<>>, s)
  <1>1. Len(s) \in Nat /\ <<>> \in Seq(S) /\ Len(<<>>) = 0
    OBVIOUS
  <1>2. IsPrefix(s, s)
    BY <1>1, PrefixElements
  <1>3. \A i \in 1 .. Len(<<>>) : <<>>[i] = s[i]
    BY <1>1
  <1>4. Len(<<>>) <= Len(s)
    BY <1>1
  <1> DEFINE e == <<>>
  <1>5. e \in Seq(S) /\ Len(e) <= Len(s) /\ \A i \in 1 .. Len(e) : e[i] = s[i]
    BY <1>1, <1>3, <1>4
  <1> HIDE DEF e
  <1>6. IsPrefix(e, s)
    BY <1>5, PrefixElements
  <1> QED BY <1>2, <1>6 DEF e

\* What _stream sends after the text it has sent completes it.
LEMMA PrefixCompleted ==
    ASSUME NEW S, NEW s \in Seq(S), NEW t \in Seq(S), Len(t) > Len(s)
    PROVE  /\ s \o SubSeq(t, Len(s) + 1, Len(t)) \in Seq(S)
           /\ IsPrefix(s, t) => s \o SubSeq(t, Len(s) + 1, Len(t)) = t
  <1> DEFINE m == Len(s) + 1
             n == Len(t)
             u == SubSeq(t, m, n)
             v == s \o u
  <1>1. Len(s) \in Nat /\ n \in Nat /\ \A i \in 1 .. n : t[i] \in S
    OBVIOUS
  <1>2. m \in Int /\ n \in Int /\ m <= n /\ m >= 1 /\ \A i \in m .. n : t[i] \in S
    BY <1>1
  <1>3. /\ u \in Seq(S) /\ Len(u) = (IF m <= n THEN (n - m) + 1 ELSE 0)
        /\ \A i \in 1 .. (n - m) + 1 : u[i] = t[(m + i) - 1]
    <2> HIDE DEF m, n
    <2> QED BY <1>2, SubSeqProperties
  <1> HIDE DEF u
  <1>4. Len(u) = n - Len(s)
    BY <1>1, <1>2, <1>3
  <1>5. ASSUME NEW i \in 1 .. n - Len(s) PROVE u[i] = t[Len(s) + i]
    <2>1. i \in 1 .. (n - m) + 1 /\ (m + i) - 1 = Len(s) + i
      BY <1>1
    <2> QED BY <1>3, <2>1
  <1>6. /\ v \in Seq(S) /\ Len(v) = Len(s) + Len(u)
        /\ \A i \in 1 .. Len(s) : v[i] = s[i]
        /\ \A i \in 1 .. Len(u) : v[Len(s) + i] = u[i]
    BY <1>1, <1>3, SMTT(30)
  <1> HIDE DEF v
  <1>7. ASSUME IsPrefix(s, t) PROVE v = t
    <2>1. \A i \in 1 .. Len(s) : s[i] = t[i]
      BY <1>7, PrefixElements
    <2>2. ASSUME NEW i \in 1 .. n PROVE v[i] = t[i]
      <3>1. CASE i <= Len(s)
        <4>1. i \in 1 .. Len(s)
          BY <1>1, <3>1
        <4> QED BY <4>1, <1>6, <2>1
      <3>2. CASE ~(i <= Len(s))
        <4>1. i - Len(s) \in 1 .. n - Len(s) /\ Len(s) + (i - Len(s)) = i
          BY <1>1, <3>2
        <4> QED BY <4>1, <1>4, <1>5, <1>6
      <3> QED BY <3>1, <3>2
    <2>3. Len(v) = n
      BY <1>1, <1>4, <1>6
    <2> QED BY <1>6, <2>2, <2>3
  <1> QED BY <1>6, <1>7 DEF v, u

-----------------------------------------------------------------------------
(* The invariant. *)

\* What terminal_status says of a request is so.
TerminalTruth ==
    /\ TerminalStatus \in {0, 413, 429, 499, 500, 503, 504}
    /\ TerminalStatus = 504 => expired
    /\ TerminalStatus \in {413, 429} => req.state = "REJECTED"
    /\ TerminalStatus = 503 => Late \/ (req.state = "FAILED" /\ req.reason = "KV_POOL_EXHAUSTED")
    /\ TerminalStatus = 500 => \/ handle.error = "engine"
                               \/ req.state = "FAILED" /\ req.reason = "INVALID_PREFIX_ENTRY"
    /\ TerminalStatus = 0 /\ handle.completed => req.state = "FINISHED"

LEMMA TerminalStatusTrue ==
    ASSUME Shapes, Places, Causes
    PROVE  TerminalTruth
  <1>0. Late \in BOOLEAN /\ expired \in BOOLEAN
    BY DEF Late, Shapes, FlagShape
  <1>1. /\ req.state \in States /\ req = [state |-> req.state, reason |-> req.reason]
        /\ handle.error \in {None, "rejected", "engine", "shutdown"}
    BY DEF Shapes, ReqShape, HandleShape
  <1>2. CASE req.state \in {"FINISHED", "REJECTED"}
    <2>1. /\ req.state = "FINISHED" => TerminalStatus = 0
          /\ req.state = "REJECTED" => TerminalStatus \in {413, 429}
      BY <1>1, <1>2 DEF TerminalStatus, Ended, Live
    <2> QED
      BY <1>2, <2>1 DEF TerminalTruth
  <1>3. CASE req.state = "FAILED"
    <2>1. TerminalStatus = IF req.reason = "KV_POOL_EXHAUSTED" THEN 503 ELSE 500
      BY <1>1, <1>3 DEF TerminalStatus, Ended, Live
    <2> QED
      BY <1>3, <2>1 DEF TerminalTruth, Causes
  <1>4. CASE req.state = "CANCELLED"
    <2>1. TerminalStatus = IF req.reason = "TIMEOUT" THEN 504
                           ELSE IF req.reason = "SERVER_SHUTDOWN" THEN 503 ELSE 499
      BY <1>1, <1>4 DEF TerminalStatus, Ended, Live
    <2> QED
      BY <1>4, <2>1 DEF TerminalTruth, Causes
  <1>5. CASE req.state \in Live
    <2>1. TerminalStatus = IF handle.error = None THEN 0
                           ELSE IF handle.error = "shutdown" THEN 503 ELSE 500
      BY <1>1, <1>5 DEF TerminalStatus, Ended, Live, None
    <2>2. ~Ended
      BY <1>5 DEF Ended
    <2> QED
      BY <1>0, <1>1, <2>1, <2>2 DEF TerminalTruth, Places, Late
  <1> QED
    BY <1>1, <1>2, <1>3, <1>4, <1>5 DEF States

\* service.cancel queues what it is given unless the handle is completed.
QueuedMore(reasons) ==
    /\ Queued(reasons) \in Seq(Cancels)
    /\ Len(Queued(reasons)) <= Len(cancels) + Len(reasons)
    /\ handle.completed => Queued(reasons) = cancels
    /\ ~handle.completed => Len(Queued(reasons)) = Len(cancels) + Len(reasons)
    /\ \A i \in 1 .. Len(Queued(reasons)) :
         \/ \E j \in 1 .. Len(cancels) : Queued(reasons)[i] = cancels[j]
         \/ \E j \in 1 .. Len(reasons) : Queued(reasons)[i] = reasons[j]

LEMMA QueuedReasons ==
    ASSUME QueueShape, HandleShape, NEW reasons \in Seq(Cancels)
    PROVE  QueuedMore(reasons)
  <1> DEFINE all == cancels \o reasons
  <1>1. /\ cancels \in Seq(Cancels) /\ Len(cancels) \in Nat /\ Len(reasons) \in Nat
        /\ handle.completed \in BOOLEAN
    BY DEF QueueShape, HandleShape
  <1>2. /\ all \in Seq(Cancels) /\ Len(all) = Len(cancels) + Len(reasons)
        /\ \A i \in 1 .. Len(cancels) : all[i] = cancels[i]
        /\ \A i \in 1 .. Len(reasons) : all[Len(cancels) + i] = reasons[i]
    BY <1>1
  <1> HIDE DEF all
  <1>3. CASE handle.completed
    <2>1. Queued(reasons) = cancels
      BY <1>3 DEF Queued
    <2> QED BY <1>1, <1>3, <2>1 DEF QueuedMore
  <1>4. CASE ~handle.completed
    <2>1. Queued(reasons) = all
      BY <1>4 DEF Queued, all
    <2>2. ASSUME NEW i \in 1 .. Len(all)
          PROVE  \/ \E j \in 1 .. Len(cancels) : all[i] = cancels[j]
                 \/ \E j \in 1 .. Len(reasons) : all[i] = reasons[j]
      <3>1. CASE i <= Len(cancels)
        <4>1. i \in 1 .. Len(cancels)
          BY <1>1, <3>1
        <4> QED BY <4>1, <1>2
      <3>2. CASE ~(i <= Len(cancels))
        <4>1. /\ i - Len(cancels) \in 1 .. Len(reasons)
              /\ Len(cancels) + (i - Len(cancels)) = i
          BY <1>1, <1>2, <3>2
        <4>2. all[i] = reasons[i - Len(cancels)]
          BY <4>1, <1>2
        <4> QED BY <4>1, <4>2
      <3> QED BY <3>1, <3>2
    <2>3. /\ all \in Seq(Cancels) /\ Len(all) <= Len(cancels) + Len(reasons)
          /\ ~handle.completed /\ Len(all) = Len(cancels) + Len(reasons)
      BY <1>1, <1>2, <1>4
    <2> QED BY <2>1, <2>2, <2>3 DEF QueuedMore
  <1> QED BY <1>1, <1>3, <1>4

\* The reasons the handlers give.
LEMMA ReasonsGiven ==
    /\ \A a \in Cancels : <<a>> \in Seq(Cancels) /\ Len(<<a>>) = 1 /\ <<a>>[1] = a
    /\ \A a, b \in Cancels : /\ <<a, b>> \in Seq(Cancels) /\ Len(<<a, b>>) = 2
                             /\ <<a, b>>[1] = a /\ <<a, b>>[2] = b
  OBVIOUS

\* A handler that ends and cancels with these reasons keeps the causes true.
LEMMA QueueCauses ==
    ASSUME Shapes, Causes, NEW a \in Cancels, NEW b \in Cancels,
           cancels' = Queued(<<a, b>>), pc # "over", pc' = "over",
           {a, b} \subseteq {"CLIENT_DISCONNECTED", "STOP_SEQUENCE"} \/ expired,
           a # "SERVER_SHUTDOWN", b # "SERVER_SHUTDOWN",
           UNCHANGED <<svc, req, out, expired>>
    PROVE  Causes'
  <1> DEFINE rs == <<a, b>>
             q == Queued(rs)
  <1>1. rs \in Seq(Cancels) /\ Len(rs) = 2 /\ rs[1] = a /\ rs[2] = b
    BY ReasonsGiven
  <1> HIDE DEF rs
  <1>2. QueuedMore(rs)
    BY <1>1, QueuedReasons DEF Shapes
  <1>3. /\ q \in Seq(Cancels) /\ Len(q) <= Len(cancels) + 2
        /\ \A i \in 1 .. Len(q) : \/ \E j \in 1 .. Len(cancels) : q[i] = cancels[j]
                                 \/ q[i] = a \/ q[i] = b
    <2>1. \A j \in 1 .. Len(rs) : j = 1 \/ j = 2
      BY <1>1
    <2> QED BY <1>1, <1>2, <2>1 DEF QueuedMore
  <1>4. /\ Len(cancels) <= (IF Late THEN 1 ELSE 0)
        /\ \A i \in 1 .. Len(cancels) : cancels[i] = "TIMEOUT" => expired
        /\ \A i \in 1 .. Len(cancels) : cancels[i] = "SERVER_SHUTDOWN" => Late
        /\ Len(cancels) \in Nat /\ Len(q) \in Nat
    BY <1>3 DEF Causes, Shapes, QueueShape
  <1>5. cancels' = q /\ Late' = Late
    BY DEF rs, Late
  <1> HIDE DEF q
  <1>6. /\ \A i \in 1 .. Len(q) : q[i] = "TIMEOUT" => expired
        /\ \A i \in 1 .. Len(q) : q[i] = "SERVER_SHUTDOWN" => Late
    BY <1>3, <1>4
  <1>7. Len(q) <= (IF Late THEN 1 ELSE 0) + 2
    BY <1>3, <1>4
  <1> QED BY <1>5, <1>6, <1>7 DEF Causes

LEMMA CompletedShape ==
    ASSUME HandleShape, NEW e \in {None, "rejected", "engine", "shutdown"}, Completed(e)
    PROVE  HandleShape'
  <1>1. CASE handle.completed
    <2>1. handle' = handle
      BY <1>1 DEF Completed
    <2> QED BY <2>1 DEF HandleShape
  <1>2. CASE ~handle.completed
    <2>1. handle' = [completed |-> TRUE, accepted |-> TRUE, error |-> e]
      BY <1>2 DEF Completed
    <2> QED BY <2>1 DEF HandleShape
  <1> QED BY <1>1, <1>2

\* Completing the handle runs the callback that waits for it.
LEMMA CompletedWaits ==
    ASSUME Shapes, Places, Waits, NEW e, Completed(e), ~handle.completed,
           UNCHANGED <<call, pc, waiter, resp>>
    PROVE  Waits'
  <1>1. handle'.completed = TRUE /\ handle'.accepted = TRUE
    BY DEF Completed
  <1>2. woken' = (woken \/ waiter # None)
    BY DEF Completed
  <1>3. Event' = TRUE
    BY <1>1 DEF Event
  <1>4. /\ woken \in BOOLEAN /\ (pc = "waiting" /\ ~woken => waiter = Wanted)
        /\ (pc \in Before \cup {"register"} => waiter = None /\ ~woken)
    BY DEF Waits, Shapes, FlagShape
  <1>5. Wanted # None /\ Wanted' = Wanted
    BY DEF Wanted, None
  <1>6. pc' = "waiting" => woken' = TRUE
    BY <1>2, <1>4, <1>5
  <1>7. pc' \in Before \cup {"register"} => waiter' = None /\ ~woken'
    BY <1>2, <1>4
  <1>8. /\ pc \in {"register", "waiting"} => call.route \in Native
        /\ pc = "loop" => call.route # "generate"
        /\ pc \in {"push", "tail"} => call.route = "generate_stream"
        /\ pc \in {"text", "yielded", "stopped"} => call.route = "openai_stream"
        /\ call.route = "generate_stream" /\ resp.status = 200 =>
             pc \in {"loop", "push", "tail", "over"}
        /\ call.route = "generate_stream" /\ pc \in {"loop", "push", "tail"} => resp.status = 200
    BY DEF Waits
  <1> QED BY <1>1, <1>3, <1>6, <1>7, <1>8 DEF Waits

\* So does the acceptance of the handle, for a handler that waits for no more.
LEMMA AcceptedWaits ==
    ASSUME Shapes, Waits, handle' = [handle EXCEPT !.accepted = TRUE],
           woken' = (woken \/ waiter = "accept"), UNCHANGED <<call, pc, waiter, resp>>
    PROVE  Waits'
  <1>1. /\ handle'.completed = handle.completed /\ handle'.accepted = TRUE
        /\ handle.completed \in BOOLEAN /\ woken \in BOOLEAN
    BY DEF Shapes, FlagShape, HandleShape
  <1>2. /\ Wanted' = Wanted /\ Wanted \in {"complete", "accept"}
        /\ Wanted = "complete" => Event' = Event
        /\ Wanted = "accept" => Event' = TRUE
    BY <1>1 DEF Wanted, Event
  <1>3. pc = "waiting" => (woken <=> Event) /\ (~woken => waiter = Wanted)
    BY DEF Waits
  <1>4. ASSUME pc = "waiting" PROVE (woken' <=> Event') /\ (~woken' => waiter' = Wanted')
    <2>1. CASE woken
      <3>1. Event' = TRUE
        BY <1>2, <1>3, <1>4, <2>1 DEF Event
      <3> QED BY <2>1, <3>1
    <2>2. CASE ~woken /\ Wanted = "complete"
      <3>1. ~Event /\ waiter = "complete"
        BY <1>3, <1>4, <2>2
      <3>2. ~woken'
        BY <2>2, <3>1
      <3>3. Event' = Event
        BY <1>2, <2>2
      <3> QED BY <1>2, <2>2, <3>1, <3>2, <3>3
    <2>3. CASE ~woken /\ Wanted = "accept"
      BY <1>2, <1>3, <1>4, <2>3
    <2> QED BY <1>2, <2>1, <2>2, <2>3
  <1>5. pc \in Before \cup {"register"} => waiter = None /\ ~woken
    BY DEF Waits
  <1>6. pc \in Before \cup {"register"} => waiter' = None /\ ~woken'
    BY <1>5 DEF None
  <1>7. /\ pc \in {"register", "waiting"} => call.route \in Native
        /\ pc = "loop" => call.route # "generate"
        /\ pc \in {"push", "tail"} => call.route = "generate_stream"
        /\ pc \in {"text", "yielded", "stopped"} => call.route = "openai_stream"
        /\ pc = "tail" => handle.completed
        /\ call.route = "generate_stream" /\ resp.status = 200 =>
             pc \in {"loop", "push", "tail", "over"}
        /\ call.route = "generate_stream" /\ pc \in {"loop", "push", "tail"} => resp.status = 200
    BY DEF Waits
  <1> QED BY <1>1, <1>4, <1>6, <1>7 DEF Waits

\* What the OpenAI routes make of the tokens so far.
LEMMA CutOfOutput ==
    ASSUME Shapes
    PROVE  /\ Decode(out) \in Seq(Char)
           /\ Truncated(TruncateAtStop(Decode(out), call.stops), Decode(out), call.stops)
  <1>1. out \in Seq(Char) /\ call.stops \in Stops
    BY DEF Shapes, OutShape, CallShape
  <1>2. "?" \in Char
    BY Characters
  <1>3. Decode(out) \in Seq(Char)
    BY <1>1, <1>2, DecodeAppend
  <1>4. \A s \in call.stops : s \in Seq(STRING)
    BY <1>1, ApiAssumption
  <1> QED BY <1>3, <1>4, TruncateAtStopCuts

LEMMA RefusalStatus == Refusal \in {0, 400, 413, 503}
  BY DEF Refusal

LEMMA InitOK == Init => ApiInv
  <1> SUFFICES ASSUME Init PROVE ApiInv
    OBVIOUS
  <1>1. Shapes
    <2>1. CallShape /\ FlagShape /\ ReqShape /\ HandleShape /\ RespShape
      BY DEF Init, CallShape, FlagShape, ReqShape, HandleShape, RespShape, States, Live, None
    <2>2. OutShape /\ QueueShape /\ SentShape
      BY ApiAssumption DEF Init, OutShape, QueueShape, SentShape
    <2> QED
      BY <2>1, <2>2 DEF Shapes
  <1>2. Places /\ Causes /\ Waits /\ Unsaid /\ AbandonedIsCancelled
    BY DEF Init, Places, Causes, Waits, Unsaid, AbandonedIsCancelled, Ended, Live, None, Before,
           Late
  <1>3. Said
    <2>1. IsPrefix(sent, out)
      BY <1>1, PrefixSelf DEF Init, Shapes, OutShape
    <2> QED BY <2>1 DEF Init, Said, None
  <1>4. Texts
    BY DEF Init, Texts
  <1> QED
    BY <1>1, <1>2, <1>3, <1>4 DEF ApiInv

LEMMA LoadedKeeps ==
    ASSUME ApiInv, Loaded
    PROVE  ApiInv'
  <1>0. /\ Shapes /\ Places /\ Causes /\ Waits /\ Unsaid /\ Said /\ Texts
        /\ AbandonedIsCancelled
    BY DEF ApiInv
  <1>1. Shapes'
    <2>1. CallShape' /\ ReqShape' /\ OutShape' /\ HandleShape' /\ QueueShape' /\ SentShape' /\ RespShape'
      BY <1>0
        DEF Loaded, Shapes, CallShape, ReqShape, OutShape, HandleShape, QueueShape, SentShape,
           RespShape, local
    <2>2. FlagShape'
      BY <1>0 DEF Loaded, Shapes, FlagShape, None, local
    <2> QED
      BY <2>1, <2>2 DEF Shapes
  <1>2. Places'
    BY <1>0
      DEF Loaded, Shapes, FlagShape, ReqShape, HandleShape, RespShape, States, Live, None, Places,
         Ended, Before, local
  <1>3. Causes'
    BY <1>0
      DEF Loaded, Shapes, FlagShape, ReqShape, HandleShape, RespShape, States, Live, None,
         QueueShape, OutShape, Cancels, Places, Ended, Before, Causes, Late, local
  <1>4. Waits'
    BY <1>0
      DEF Loaded, Shapes, FlagShape, ReqShape, HandleShape, RespShape, States, Live, None, Places,
         Ended, Before, Waits, Native, Wanted, Event, local
  <1>5. Unsaid'
    BY <1>0
      DEF Loaded, Shapes, FlagShape, ReqShape, HandleShape, RespShape, States, Live, None, Waits,
         Before, Native, Wanted, Event, Unsaid, local
  <1>6. Said'
    BY <1>0
      DEF Loaded, Shapes, FlagShape, ReqShape, HandleShape, RespShape, States, Live, None, Places,
         Ended, Before, Waits, Native, Wanted, Event, Unsaid, Said, Late, local
  <1>7. Texts'
    BY <1>0
      DEF Loaded, Shapes, FlagShape, ReqShape, HandleShape, RespShape, States, Live, None, Places,
         Ended, Before, Unsaid, Native, Waits, Wanted, Event, Texts, local
  <1>8. AbandonedIsCancelled'
    BY <1>0
      DEF Loaded, Shapes, FlagShape, ReqShape, HandleShape, RespShape, States, Live, None, Places,
         Ended, Before, Waits, Native, Wanted, Event, AbandonedIsCancelled, Working, local
  <1> QED
    BY <1>1, <1>2, <1>3, <1>4, <1>5, <1>6, <1>7, <1>8 DEF ApiInv

LEMMA AcceptKeeps ==
    ASSUME ApiInv, Accept
    PROVE  ApiInv'
  <1>0. /\ Shapes /\ Places /\ Causes /\ Waits /\ Unsaid /\ Said /\ Texts
        /\ AbandonedIsCancelled
    BY DEF ApiInv
  <1>1. Shapes'
    <2>1. CallShape' /\ OutShape' /\ QueueShape' /\ SentShape' /\ RespShape'
      BY <1>0 DEF Accept, Shapes, CallShape, OutShape, QueueShape, SentShape, RespShape
    <2>2. FlagShape'
      <3>1. UNCHANGED <<pc, svc, waiter, expired, gone, done>> /\ where' \in {"active", "gone"}
        BY DEF Accept
      <3>2. woken' \in {woken, woken \/ waiter = "accept", woken \/ waiter # None}
        BY DEF Accept, Completed
      <3>3. woken' \in BOOLEAN
        BY <1>0, <3>2 DEF Shapes, FlagShape
      <3> QED
        BY <1>0, <3>1, <3>3 DEF Shapes, FlagShape
    <2>3. ReqShape'
      BY <1>0 DEF Accept, Completed, Working, Shapes, ReqShape, States, Live
    <2>4. HandleShape'
      <3>1. HandleShape
        BY <1>0 DEF Shapes
      <3>2. CASE handle' = [handle EXCEPT !.accepted = TRUE]
        BY <3>1, <3>2 DEF HandleShape
      <3>3. CASE Completed("rejected")
        BY <3>1, <3>3, CompletedShape
      <3> QED
        BY <3>2, <3>3 DEF Accept
    <2> QED
      BY <2>1, <2>2, <2>3, <2>4 DEF Shapes
  <1>2. Places'
    BY <1>0
      DEF Accept, Completed, Working, Shapes, FlagShape, ReqShape, HandleShape, RespShape, States,
         Live, None, Places, Ended, Before
  <1>3. Causes'
    BY <1>0
      DEF Accept, Completed, Working, Shapes, FlagShape, ReqShape, HandleShape, RespShape, States,
         Live, None, QueueShape, OutShape, Cancels, Places, Ended, Before, Causes, Late
  <1>4. Waits'
    <2>1. CASE handle' = [handle EXCEPT !.accepted = TRUE] /\ woken' = (woken \/ waiter = "accept")
      BY <1>0, <2>1, AcceptedWaits DEF Accept
    <2>2. CASE Completed("rejected")
      <3>1. ~handle.completed /\ UNCHANGED <<call, pc, waiter, resp>>
        BY <1>0, <2>2 DEF Accept, Places
      <3> QED
        BY <1>0, <2>2, <3>1, CompletedWaits
    <2> QED
      BY <2>1, <2>2 DEF Accept
  <1>5. Unsaid'
    BY <1>0
      DEF Accept, Completed, Working, Shapes, FlagShape, ReqShape, HandleShape, RespShape, States,
         Live, None, Waits, Before, Native, Wanted, Event, Unsaid
  <1>6. Said'
    BY <1>0
      DEF Accept, Completed, Working, Shapes, FlagShape, ReqShape, HandleShape, RespShape, States,
         Live, None, Places, Ended, Before, Waits, Native, Wanted, Event, Unsaid, Said, Late
  <1>7. Texts'
    BY <1>0
      DEF Accept, Completed, Working, Shapes, FlagShape, ReqShape, HandleShape, RespShape, States,
         Live, None, Places, Ended, Before, Unsaid, Native, Waits, Wanted, Event, Texts
  <1>8. AbandonedIsCancelled'
    BY <1>0
      DEF Accept, Completed, Working, Shapes, FlagShape, ReqShape, HandleShape, RespShape, States,
         Live, None, Places, Ended, Before, Waits, Native, Wanted, Event,
         AbandonedIsCancelled
  <1> QED
    BY <1>1, <1>2, <1>3, <1>4, <1>5, <1>6, <1>7, <1>8 DEF ApiInv

LEMMA EmitKeeps ==
    ASSUME ApiInv, Emit
    PROVE  ApiInv'
  <1>0. /\ Shapes /\ Places /\ Causes /\ Waits /\ Unsaid /\ Said /\ Texts
        /\ AbandonedIsCancelled
    BY DEF ApiInv
  <1>1. Shapes'
    <2>1. CallShape' /\ FlagShape' /\ HandleShape' /\ QueueShape' /\ SentShape' /\ RespShape'
      BY <1>0
        DEF Emit, Shapes, CallShape, FlagShape, HandleShape, QueueShape, SentShape, RespShape, local
    <2>2. ReqShape'
      BY <1>0 DEF Emit, Working, Shapes, ReqShape, States, Live, local
    <2>3. OutShape'
      <3>1. out \in Seq(Char) /\ Len(out) < MaxNew /\ MaxNew \in Nat
        BY <1>0, ApiAssumption DEF Emit, Shapes, OutShape
      <3>2. PICK t \in Token : out' = Append(out, t)
        BY DEF Emit
      <3>3. t \in Char
        BY DEF Char
      <3> QED
        BY <3>1, <3>2, <3>3 DEF OutShape
    <2> QED
      BY <2>1, <2>2, <2>3 DEF Shapes
  <1>2. Places'
    BY <1>0
      DEF Emit, Working, Shapes, FlagShape, ReqShape, HandleShape, RespShape, States, Live, None,
         Places, Ended, Before, local
  <1>3. Causes'
    BY <1>0
      DEF Emit, Working, Shapes, FlagShape, ReqShape, HandleShape, RespShape, States, Live, None,
         QueueShape, OutShape, Cancels, Places, Ended, Before, Causes, Late, local
  <1>4. Waits'
    BY <1>0
      DEF Emit, Working, Shapes, FlagShape, ReqShape, HandleShape, RespShape, States, Live, None,
         Places, Ended, Before, Waits, Native, Wanted, Event, local
  <1>5. Unsaid'
    BY <1>0
      DEF Emit, Working, Shapes, FlagShape, ReqShape, HandleShape, RespShape, States, Live, None,
         Waits, Before, Native, Wanted, Event, Unsaid, local
  <1>6. Said'
    <2>1. PICK t \in Token : out' = Append(out, t)
      BY DEF Emit
    <2>2. t \in Char /\ out \in Seq(Char) /\ sent \in Seq(Char)
      BY <1>0 DEF Char, Shapes, OutShape, SentShape
    <2>3. call.route \in Native => IsPrefix(sent, out)
      BY <1>0 DEF Said
    <2>4. call.route \in Native => IsPrefix(sent, out')
      BY <2>1, <2>2, <2>3, PrefixSteps
    <2> QED
      BY <1>0, <2>4 DEF Emit, Working, Shapes, FlagShape, ReqShape, HandleShape, Places, Said,
         Native, None, Late, Live, Ended, local
  <1>7. Texts'
    <2>1. PICK t \in Token : out' = Append(out, t)
      BY DEF Emit
    <2>2. t \in Char /\ out \in Seq(Char) /\ sent \in Seq(Char)
      BY <1>0 DEF Char, Shapes, OutShape, SentShape
    <2>3. /\ UNCHANGED <<call, resp, sent, handle>>
          /\ ~handle.completed
      BY <1>0 DEF Emit, Places, local
    <2>4. ASSUME call.route = "openai", resp.status = 200
          PROVE  /\ IsPrefix(sent, Decode(out')) /\ Len(sent) < Len(Decode(out'))
                 /\ \A s \in call.stops \ {<<>>} : Occurrences(sent, s) = {}
      <3>1. /\ IsPrefix(sent, Decode(out)) /\ Len(sent) < Len(Decode(out))
            /\ \A s \in call.stops \ {<<>>} : Occurrences(sent, s) = {}
        BY <1>0, <2>3, <2>4 DEF Texts
      <3> QED
        BY <2>1, <2>2, <3>1, DecodeGrows
    <2> QED
      BY <2>3, <2>4 DEF Texts
  <1>8. AbandonedIsCancelled'
    BY <1>0
      DEF Emit, Working, Shapes, FlagShape, ReqShape, HandleShape, RespShape, States, Live, None,
         Places, Ended, Before, Waits, Native, Wanted, Event, AbandonedIsCancelled, local
  <1> QED
    BY <1>1, <1>2, <1>3, <1>4, <1>5, <1>6, <1>7, <1>8 DEF ApiInv

LEMMA EndKeeps ==
    ASSUME ApiInv, End
    PROVE  ApiInv'
  <1>0. /\ Shapes /\ Places /\ Causes /\ Waits /\ Unsaid /\ Said /\ Texts
        /\ AbandonedIsCancelled
    BY DEF ApiInv
  <1>1. Shapes'
    <2>1. CallShape' /\ FlagShape' /\ OutShape' /\ HandleShape' /\ QueueShape' /\ SentShape' /\ RespShape'
      BY <1>0
        DEF End, Shapes, CallShape, FlagShape, OutShape, HandleShape, QueueShape, SentShape,
           RespShape, local
    <2>2. ReqShape'
      BY <1>0 DEF End, Working, Ending, Shapes, ReqShape, States, Live, local
    <2> QED
      BY <2>1, <2>2 DEF Shapes
  <1>2. Places'
    BY <1>0
      DEF End, Working, Ending, Shapes, FlagShape, ReqShape, HandleShape, RespShape, States, Live,
         None, Places, Ended, Before, local
  <1>3. Causes'
    BY <1>0
      DEF End, Working, Ending, Shapes, FlagShape, ReqShape, HandleShape, RespShape, States, Live,
         None, QueueShape, OutShape, Cancels, Places, Ended, Before, Causes, Late, local
  <1>4. Waits'
    BY <1>0
      DEF End, Working, Ending, Shapes, FlagShape, ReqShape, HandleShape, RespShape, States, Live,
         None, Places, Ended, Before, Waits, Native, Wanted, Event, local
  <1>5. Unsaid'
    BY <1>0
      DEF End, Working, Ending, Shapes, FlagShape, ReqShape, HandleShape, RespShape, States, Live,
         None, Waits, Before, Native, Wanted, Event, Unsaid, local
  <1>6. Said'
    BY <1>0
      DEF End, Working, Ending, Shapes, FlagShape, ReqShape, HandleShape, RespShape, States, Live,
         None, Places, Ended, Before, Waits, Native, Wanted, Event, Unsaid, Said, Late,
         local
  <1>7. Texts'
    BY <1>0
      DEF End, Working, Ending, Shapes, FlagShape, ReqShape, HandleShape, RespShape, States, Live,
         None, Places, Ended, Before, Unsaid, Native, Waits, Wanted, Event, Texts, local
  <1>8. AbandonedIsCancelled'
    BY <1>0
      DEF End, Working, Ending, Shapes, FlagShape, ReqShape, HandleShape, RespShape, States, Live,
         None, Places, Ended, Before, Waits, Native, Wanted, Event, AbandonedIsCancelled,
         local
  <1> QED
    BY <1>1, <1>2, <1>3, <1>4, <1>5, <1>6, <1>7, <1>8 DEF ApiInv

LEMMA PublishCompletedKeeps ==
    ASSUME ApiInv, PublishCompleted
    PROVE  ApiInv'
  <1>0. /\ Shapes /\ Places /\ Causes /\ Waits /\ Unsaid /\ Said /\ Texts
        /\ AbandonedIsCancelled
    BY DEF ApiInv
  <1>1. Shapes'
    <2>1. CallShape' /\ ReqShape' /\ OutShape' /\ QueueShape' /\ SentShape' /\ RespShape'
      BY <1>0
        DEF PublishCompleted, Shapes, CallShape, ReqShape, OutShape, QueueShape, SentShape,
           RespShape
    <2>2. FlagShape'
      BY <1>0 DEF PublishCompleted, Working, Completed, Shapes, FlagShape, None
    <2>3. HandleShape'
      <3>1. HandleShape
        BY <1>0 DEF Shapes
      <3> QED
        BY <3>1, CompletedShape DEF PublishCompleted
    <2> QED
      BY <2>1, <2>2, <2>3 DEF Shapes
  <1>2. Places'
    BY <1>0
      DEF PublishCompleted, Working, Completed, Shapes, FlagShape, ReqShape, HandleShape,
         RespShape, States, Live, None, Places, Ended, Before
  <1>3. Causes'
    BY <1>0
      DEF PublishCompleted, Working, Completed, Shapes, FlagShape, ReqShape, HandleShape,
         RespShape, States, Live, None, QueueShape, OutShape, Cancels, Places, Ended,
         Before, Causes, Late
  <1>4. Waits'
    BY <1>0
      DEF PublishCompleted, Working, Completed, Shapes, FlagShape, ReqShape, HandleShape,
         RespShape, States, Live, None, Places, Ended, Before, Waits, Native, Wanted, Event
  <1>5. Unsaid'
    BY <1>0
      DEF PublishCompleted, Working, Completed, Shapes, FlagShape, ReqShape, HandleShape,
         RespShape, States, Live, None, Waits, Before, Native, Wanted, Event, Unsaid
  <1>6. Said'
    BY <1>0
      DEF PublishCompleted, Working, Completed, Shapes, FlagShape, ReqShape, HandleShape,
         RespShape, States, Live, None, Places, Ended, Before, Waits, Native, Wanted, Event,
         Unsaid, Said, Late
  <1>7. Texts'
    BY <1>0
      DEF PublishCompleted, Working, Completed, Shapes, FlagShape, ReqShape, HandleShape,
         RespShape, States, Live, None, Places, Ended, Before, Unsaid, Native, Waits,
         Wanted, Event, Texts
  <1>8. AbandonedIsCancelled'
    BY <1>0
      DEF PublishCompleted, Working, Completed, Shapes, FlagShape, ReqShape, HandleShape,
         RespShape, States, Live, None, Places, Ended, Before, Waits, Native, Wanted, Event,
         AbandonedIsCancelled
  <1> QED
    BY <1>1, <1>2, <1>3, <1>4, <1>5, <1>6, <1>7, <1>8 DEF ApiInv

LEMMA ApplyCancelKeeps ==
    ASSUME ApiInv, ApplyCancel
    PROVE  ApiInv'
  <1>0. /\ Shapes /\ Places /\ Causes /\ Waits /\ Unsaid /\ Said /\ Texts
        /\ AbandonedIsCancelled
    BY DEF ApiInv
  <1>1. Shapes'
    <2>1. CallShape' /\ OutShape' /\ SentShape' /\ RespShape'
      BY <1>0 DEF ApplyCancel, Shapes, CallShape, OutShape, SentShape, RespShape
    <2>2. FlagShape'
      <3>1. /\ UNCHANGED <<pc, waiter, expired, gone, done>>
            /\ svc' \in {svc, "dead", "stopped"} /\ where' \in {where, "gone"}
        BY DEF ApplyCancel
      <3>2. woken' = woken \/ woken' = (woken \/ waiter # None)
        BY DEF ApplyCancel, Completed
      <3>3. woken' \in BOOLEAN
        BY <1>0, <3>2 DEF Shapes, FlagShape
      <3> QED
        BY <1>0, <3>1, <3>3 DEF Shapes, FlagShape
    <2>3. ReqShape'
      BY <1>0 DEF ApplyCancel, Working, Completed, Shapes, ReqShape, States, Live
    <2>4. HandleShape'
      <3>1. HandleShape
        BY <1>0 DEF Shapes
      <3>2. CASE Completed(None)
        BY <3>1, <3>2, CompletedShape
      <3>3. CASE handle' = handle
        BY <3>1, <3>3 DEF HandleShape
      <3> QED
        BY <3>2, <3>3 DEF ApplyCancel
    <2>5. QueueShape'
      BY <1>0 DEF ApplyCancel, Working, Completed, Shapes, QueueShape, Cancels
    <2> QED
      BY <2>1, <2>2, <2>3, <2>4, <2>5 DEF Shapes
  <1>2. Places'
    BY <1>0
      DEF ApplyCancel, Working, Completed, Shapes, FlagShape, ReqShape, HandleShape, RespShape,
         States, Live, None, Places, Ended, Before
  <1>3. Causes'
    BY <1>0, SMTT(30)
      DEF ApplyCancel, Working, Completed, Shapes, FlagShape, ReqShape, HandleShape, RespShape,
         States, Live, None, QueueShape, OutShape, Cancels, Places, Ended, Before, Causes,
         Late
  <1>4. Waits'
    BY <1>0
      DEF ApplyCancel, Working, Completed, Shapes, FlagShape, ReqShape, HandleShape, RespShape,
         States, Live, None, Places, Ended, Before, Waits, Native, Wanted, Event
  <1>5. Unsaid'
    BY <1>0
      DEF ApplyCancel, Working, Completed, Shapes, FlagShape, ReqShape, HandleShape, RespShape,
         States, Live, None, Waits, Before, Native, Wanted, Event, Unsaid
  <1>6. Said'
    BY <1>0
      DEF ApplyCancel, Working, Completed, Shapes, FlagShape, ReqShape, HandleShape, RespShape,
         States, Live, None, Places, Ended, Before, Waits, Native, Wanted, Event, Unsaid,
         Said, Late
  <1>7. Texts'
    BY <1>0
      DEF ApplyCancel, Working, Completed, Shapes, FlagShape, ReqShape, HandleShape, RespShape,
         States, Live, None, Places, Ended, Before, Unsaid, Native, Waits, Wanted, Event,
         Texts
  <1>8. AbandonedIsCancelled'
    BY <1>0
      DEF ApplyCancel, Working, Completed, Shapes, FlagShape, ReqShape, HandleShape, RespShape,
         States, Live, None, Places, Ended, Before, Waits, Native, Wanted, Event,
         AbandonedIsCancelled
  <1> QED
    BY <1>1, <1>2, <1>3, <1>4, <1>5, <1>6, <1>7, <1>8 DEF ApiInv

LEMMA DrainKeeps ==
    ASSUME ApiInv, Drain
    PROVE  ApiInv'
  <1>0. /\ Shapes /\ Places /\ Causes /\ Waits /\ Unsaid /\ Said /\ Texts
        /\ AbandonedIsCancelled
    BY DEF ApiInv
  <1>1. Shapes'
    <2>1. CallShape' /\ ReqShape' /\ OutShape' /\ HandleShape' /\ QueueShape' /\ SentShape' /\ RespShape'
      BY <1>0
        DEF Drain, Shapes, CallShape, ReqShape, OutShape, HandleShape, QueueShape, SentShape,
           RespShape, local
    <2>2. FlagShape'
      BY <1>0 DEF Drain, Shapes, FlagShape, None, local
    <2> QED
      BY <2>1, <2>2 DEF Shapes
  <1>2. Places'
    BY <1>0
      DEF Drain, Shapes, FlagShape, ReqShape, HandleShape, RespShape, States, Live, None, Places,
         Ended, Before, local
  <1>3. Causes'
    BY <1>0
      DEF Drain, Shapes, FlagShape, ReqShape, HandleShape, RespShape, States, Live, None,
         QueueShape, OutShape, Cancels, Places, Ended, Before, Causes, Late, local
  <1>4. Waits'
    BY <1>0
      DEF Drain, Shapes, FlagShape, ReqShape, HandleShape, RespShape, States, Live, None, Places,
         Ended, Before, Waits, Native, Wanted, Event, local
  <1>5. Unsaid'
    BY <1>0
      DEF Drain, Shapes, FlagShape, ReqShape, HandleShape, RespShape, States, Live, None, Waits,
         Before, Native, Wanted, Event, Unsaid, local
  <1>6. Said'
    BY <1>0
      DEF Drain, Shapes, FlagShape, ReqShape, HandleShape, RespShape, States, Live, None, Places,
         Ended, Before, Waits, Native, Wanted, Event, Unsaid, Said, Late, local
  <1>7. Texts'
    BY <1>0
      DEF Drain, Shapes, FlagShape, ReqShape, HandleShape, RespShape, States, Live, None, Places,
         Ended, Before, Unsaid, Native, Waits, Wanted, Event, Texts, local
  <1>8. AbandonedIsCancelled'
    BY <1>0
      DEF Drain, Shapes, FlagShape, ReqShape, HandleShape, RespShape, States, Live, None, Places,
         Ended, Before, Waits, Native, Wanted, Event, AbandonedIsCancelled, Working, local
  <1> QED
    BY <1>1, <1>2, <1>3, <1>4, <1>5, <1>6, <1>7, <1>8 DEF ApiInv

LEMMA LeftoversKeeps ==
    ASSUME ApiInv, Leftovers
    PROVE  ApiInv'
  <1>0. /\ Shapes /\ Places /\ Causes /\ Waits /\ Unsaid /\ Said /\ Texts
        /\ AbandonedIsCancelled
    BY DEF ApiInv
  <1>1. Shapes'
    <2>1. CallShape' /\ ReqShape' /\ OutShape' /\ HandleShape' /\ SentShape' /\ RespShape'
      BY <1>0
        DEF Leftovers, Shapes, CallShape, ReqShape, OutShape, HandleShape, SentShape, RespShape,
           local
    <2>2. FlagShape'
      BY <1>0 DEF Leftovers, Shapes, FlagShape, None, local
    <2>3. QueueShape'
      BY <1>0 DEF Leftovers, Shapes, QueueShape, Cancels, local
    <2> QED
      BY <2>1, <2>2, <2>3 DEF Shapes
  <1>2. Places'
    BY <1>0
      DEF Leftovers, Shapes, FlagShape, ReqShape, HandleShape, RespShape, States, Live, None,
         Places, Ended, Before, local
  <1>3. Causes'
    BY <1>0
      DEF Leftovers, Shapes, FlagShape, ReqShape, HandleShape, RespShape, States, Live, None,
         QueueShape, OutShape, Cancels, Places, Ended, Before, Causes, Late, local
  <1>4. Waits'
    BY <1>0
      DEF Leftovers, Shapes, FlagShape, ReqShape, HandleShape, RespShape, States, Live, None,
         Places, Ended, Before, Waits, Native, Wanted, Event, local
  <1>5. Unsaid'
    BY <1>0
      DEF Leftovers, Shapes, FlagShape, ReqShape, HandleShape, RespShape, States, Live, None,
         Waits, Before, Native, Wanted, Event, Unsaid, local
  <1>6. Said'
    BY <1>0
      DEF Leftovers, Shapes, FlagShape, ReqShape, HandleShape, RespShape, States, Live, None,
         Places, Ended, Before, Waits, Native, Wanted, Event, Unsaid, Said, Late, local
  <1>7. Texts'
    BY <1>0
      DEF Leftovers, Shapes, FlagShape, ReqShape, HandleShape, RespShape, States, Live, None,
         Places, Ended, Before, Unsaid, Native, Waits, Wanted, Event, Texts, local
  <1>8. AbandonedIsCancelled'
    BY <1>0
      DEF Leftovers, Shapes, FlagShape, ReqShape, HandleShape, RespShape, States, Live, None,
         Places, Ended, Before, Waits, Native, Wanted, Event, AbandonedIsCancelled, Working,
         local
  <1> QED
    BY <1>1, <1>2, <1>3, <1>4, <1>5, <1>6, <1>7, <1>8 DEF ApiInv

LEMMA FailAllKeeps ==
    ASSUME ApiInv, FailAll
    PROVE  ApiInv'
  <1>0. /\ Shapes /\ Places /\ Causes /\ Waits /\ Unsaid /\ Said /\ Texts
        /\ AbandonedIsCancelled
    BY DEF ApiInv
  <1>1. Shapes'
    <2>1. CallShape' /\ ReqShape' /\ OutShape' /\ QueueShape' /\ SentShape' /\ RespShape'
      BY <1>0
        DEF FailAll, Shapes, CallShape, ReqShape, OutShape, QueueShape, SentShape, RespShape
    <2>2. FlagShape'
      <3>1. /\ UNCHANGED <<pc, waiter, expired, gone, done>>
            /\ svc' \in {svc, "dead", "stopped"} /\ where' \in {where, "gone"}
        BY DEF FailAll
      <3>2. woken' = woken \/ woken' = (woken \/ waiter # None)
        BY DEF FailAll, Completed
      <3>3. woken' \in BOOLEAN
        BY <1>0, <3>2 DEF Shapes, FlagShape
      <3> QED
        BY <1>0, <3>1, <3>3 DEF Shapes, FlagShape
    <2>3. HandleShape'
      <3>1. HandleShape
        BY <1>0 DEF Shapes
      <3>2. CASE Completed("engine") \/ Completed("shutdown")
        BY <3>1, <3>2, CompletedShape
      <3>3. CASE handle' = handle
        BY <3>1, <3>3 DEF HandleShape
      <3> QED
        BY <3>2, <3>3 DEF FailAll
    <2> QED
      BY <2>1, <2>2, <2>3 DEF Shapes
  <1>2. Places'
    BY <1>0
      DEF FailAll, Working, Completed, Shapes, FlagShape, ReqShape, HandleShape, RespShape,
         States, Live, None, Places, Ended, Before
  <1>3. Causes'
    BY <1>0
      DEF FailAll, Working, Completed, Shapes, FlagShape, ReqShape, HandleShape, RespShape,
         States, Live, None, QueueShape, OutShape, Cancels, Places, Ended, Before, Causes,
         Late
  <1>4. Waits'
    <2>1. CASE UNCHANGED <<handle, woken>>
      BY <1>0, <2>1 DEF FailAll, Waits, Wanted, Event
    <2>2. CASE where \in {"inbox", "active"} /\ Completed(IF svc' = "dead" THEN "engine" ELSE "shutdown")
      <3>1. ~handle.completed /\ UNCHANGED <<call, pc, waiter, resp>>
        BY <1>0, <2>2 DEF FailAll, Places, Completed
      <3> QED
        BY <1>0, <2>2, <3>1, CompletedWaits
    <2> QED
      BY <2>1, <2>2 DEF FailAll
  <1>5. Unsaid'
    BY <1>0
      DEF FailAll, Working, Completed, Shapes, FlagShape, ReqShape, HandleShape, RespShape,
         States, Live, None, Waits, Before, Native, Wanted, Event, Unsaid
  <1>6. Said'
    BY <1>0
      DEF FailAll, Working, Completed, Shapes, FlagShape, ReqShape, HandleShape, RespShape,
         States, Live, None, Places, Ended, Before, Waits, Native, Wanted, Event, Unsaid,
         Said, Late
  <1>7. Texts'
    BY <1>0
      DEF FailAll, Working, Completed, Shapes, FlagShape, ReqShape, HandleShape, RespShape,
         States, Live, None, Places, Ended, Before, Unsaid, Native, Waits, Wanted, Event,
         Texts
  <1>8. AbandonedIsCancelled'
    BY <1>0
      DEF FailAll, Working, Completed, Shapes, FlagShape, ReqShape, HandleShape, RespShape,
         States, Live, None, Places, Ended, Before, Waits, Native, Wanted, Event,
         AbandonedIsCancelled
  <1> QED
    BY <1>1, <1>2, <1>3, <1>4, <1>5, <1>6, <1>7, <1>8 DEF ApiInv

LEMMA UnbindKeeps ==
    ASSUME ApiInv, Unbind
    PROVE  ApiInv'
  <1>0. /\ Shapes /\ Places /\ Causes /\ Waits /\ Unsaid /\ Said /\ Texts
        /\ AbandonedIsCancelled
    BY DEF ApiInv
  <1>1. Shapes'
    <2>1. CallShape' /\ ReqShape' /\ OutShape' /\ HandleShape' /\ QueueShape' /\ SentShape' /\ RespShape'
      BY <1>0
        DEF Unbind, Shapes, CallShape, ReqShape, OutShape, HandleShape, QueueShape, SentShape,
           RespShape, local
    <2>2. FlagShape'
      BY <1>0 DEF Unbind, Shapes, FlagShape, None, local
    <2> QED
      BY <2>1, <2>2 DEF Shapes
  <1>2. Places'
    BY <1>0
      DEF Unbind, Shapes, FlagShape, ReqShape, HandleShape, RespShape, States, Live, None, Places,
         Ended, Before, local
  <1>3. Causes'
    BY <1>0
      DEF Unbind, Shapes, FlagShape, ReqShape, HandleShape, RespShape, States, Live, None,
         QueueShape, OutShape, Cancels, Places, Ended, Before, Causes, Late, local
  <1>4. Waits'
    BY <1>0
      DEF Unbind, Shapes, FlagShape, ReqShape, HandleShape, RespShape, States, Live, None, Places,
         Ended, Before, Waits, Native, Wanted, Event, local
  <1>5. Unsaid'
    BY <1>0
      DEF Unbind, Shapes, FlagShape, ReqShape, HandleShape, RespShape, States, Live, None, Waits,
         Before, Native, Wanted, Event, Unsaid, local
  <1>6. Said'
    BY <1>0
      DEF Unbind, Shapes, FlagShape, ReqShape, HandleShape, RespShape, States, Live, None, Places,
         Ended, Before, Waits, Native, Wanted, Event, Unsaid, Said, Late, local
  <1>7. Texts'
    BY <1>0
      DEF Unbind, Shapes, FlagShape, ReqShape, HandleShape, RespShape, States, Live, None, Places,
         Ended, Before, Unsaid, Native, Waits, Wanted, Event, Texts, local
  <1>8. AbandonedIsCancelled'
    BY <1>0
      DEF Unbind, Shapes, FlagShape, ReqShape, HandleShape, RespShape, States, Live, None, Places,
         Ended, Before, Waits, Native, Wanted, Event, AbandonedIsCancelled, Working, local
  <1> QED
    BY <1>1, <1>2, <1>3, <1>4, <1>5, <1>6, <1>7, <1>8 DEF ApiInv

LEMMA EnterKeeps ==
    ASSUME ApiInv, Enter
    PROVE  ApiInv'
  <1>0. /\ Shapes /\ Places /\ Causes /\ Waits /\ Unsaid /\ Said /\ Texts
        /\ AbandonedIsCancelled
    BY DEF ApiInv
  <1>1. Shapes'
    <2>1. CallShape' /\ ReqShape' /\ OutShape' /\ HandleShape' /\ QueueShape' /\ SentShape'
      BY <1>0
        DEF Enter, Shapes, CallShape, ReqShape, OutShape, HandleShape, QueueShape, SentShape,
           worker, local
    <2>2. FlagShape'
      BY <1>0 DEF Enter, Respond, Ready, Shapes, FlagShape, None, worker, local
    <2>3. RespShape'
      BY <1>0 DEF Enter, Respond, Ready, Shapes, RespShape, worker, local
    <2> QED
      BY <2>1, <2>2, <2>3 DEF Shapes
  <1>2. Places'
    BY <1>0
      DEF Enter, Respond, Ready, Shapes, FlagShape, ReqShape, HandleShape, RespShape, States,
         Live, None, Places, Ended, Before, worker, local
  <1>3. Causes'
    BY <1>0
      DEF Enter, Respond, Ready, Shapes, FlagShape, ReqShape, HandleShape, RespShape, States,
         Live, None, QueueShape, OutShape, Cancels, Places, Ended, Before, Causes, Late,
         worker, local
  <1>4. Waits'
    BY <1>0
      DEF Enter, Respond, Ready, Shapes, FlagShape, ReqShape, HandleShape, RespShape, States,
         Live, None, Places, Ended, Before, Waits, Native, Wanted, Event, worker, local
  <1>5. Unsaid'
    BY <1>0
      DEF Enter, Respond, Ready, Shapes, FlagShape, ReqShape, HandleShape, RespShape, States,
         Live, None, Waits, Before, Native, Wanted, Event, Unsaid, worker, local
  <1>6. Said'
    BY <1>0
      DEF Enter, Respond, Ready, Shapes, FlagShape, ReqShape, HandleShape, RespShape, States,
         Live, None, Places, Ended, Before, Waits, Native, Wanted, Event, Unsaid, Said,
         Late, worker, local
  <1>7. Texts'
    BY <1>0
      DEF Enter, Respond, Ready, Shapes, FlagShape, ReqShape, HandleShape, RespShape, States,
         Live, None, Places, Ended, Before, Unsaid, Native, Waits, Wanted, Event, Texts,
         worker, local
  <1>8. AbandonedIsCancelled'
    BY <1>0
      DEF Enter, Respond, Ready, Shapes, FlagShape, ReqShape, HandleShape, RespShape, States,
         Live, None, Places, Ended, Before, Waits, Native, Wanted, Event,
         AbandonedIsCancelled, Working, worker, local
  <1> QED
    BY <1>1, <1>2, <1>3, <1>4, <1>5, <1>6, <1>7, <1>8 DEF ApiInv

LEMMA ValidateKeeps ==
    ASSUME ApiInv, Validate
    PROVE  ApiInv'
  <1>0. /\ Shapes /\ Places /\ Causes /\ Waits /\ Unsaid /\ Said /\ Texts
        /\ AbandonedIsCancelled
    BY DEF ApiInv
  <1>1. Shapes'
    <2>1. CallShape' /\ ReqShape' /\ OutShape' /\ HandleShape' /\ QueueShape' /\ SentShape'
      BY <1>0
        DEF Validate, Shapes, CallShape, ReqShape, OutShape, HandleShape, QueueShape, SentShape,
           worker, local
    <2>2. FlagShape'
      BY <1>0 DEF Validate, Respond, Shapes, FlagShape, None, worker, local
    <2>3. RespShape'
      BY <1>0 DEF Validate, Respond, Shapes, RespShape, worker, local
    <2> QED
      BY <2>1, <2>2, <2>3 DEF Shapes
  <1>2. Places'
    BY <1>0
      DEF Validate, Respond, Shapes, FlagShape, ReqShape, HandleShape, RespShape, States, Live,
         None, Places, Ended, Before, worker, local
  <1>3. Causes'
    BY <1>0
      DEF Validate, Respond, Shapes, FlagShape, ReqShape, HandleShape, RespShape, States, Live,
         None, QueueShape, OutShape, Cancels, Places, Ended, Before, Causes, Late, worker,
         local
  <1>4. Waits'
    BY <1>0, RefusalStatus
      DEF Validate, Respond, Shapes, FlagShape, ReqShape, HandleShape, RespShape, States, Live,
         None, Places, Ended, Before, Waits, Native, Wanted, Event, worker, local
  <1>5. Unsaid'
    BY <1>0
      DEF Validate, Respond, Shapes, FlagShape, ReqShape, HandleShape, RespShape, States, Live,
         None, Waits, Before, Native, Wanted, Event, Unsaid, worker, local
  <1>6. Said'
    BY <1>0, RefusalStatus
      DEF Validate, Respond, Shapes, FlagShape, ReqShape, HandleShape, RespShape, States, Live,
         None, Places, Ended, Before, Waits, Native, Wanted, Event, Unsaid, Said, Late,
         worker, local
  <1>7. Texts'
    BY <1>0, RefusalStatus
      DEF Validate, Respond, Shapes, FlagShape, ReqShape, HandleShape, RespShape, States, Live,
         None, Places, Ended, Before, Unsaid, Native, Waits, Wanted, Event, Texts, worker,
         local
  <1>8. AbandonedIsCancelled'
    BY <1>0
      DEF Validate, Respond, Shapes, FlagShape, ReqShape, HandleShape, RespShape, States, Live,
         None, Places, Ended, Before, Waits, Native, Wanted, Event, AbandonedIsCancelled,
         Working, worker, local
  <1> QED
    BY <1>1, <1>2, <1>3, <1>4, <1>5, <1>6, <1>7, <1>8 DEF ApiInv

LEMMA PutKeeps ==
    ASSUME ApiInv, Put
    PROVE  ApiInv'
  <1>0. /\ Shapes /\ Places /\ Causes /\ Waits /\ Unsaid /\ Said /\ Texts
        /\ AbandonedIsCancelled
    BY DEF ApiInv
  <1>1. Shapes'
    <2>1. CallShape' /\ ReqShape' /\ OutShape' /\ HandleShape' /\ QueueShape' /\ SentShape'
      BY <1>0
        DEF Put, Shapes, CallShape, ReqShape, OutShape, HandleShape, QueueShape, SentShape, local
    <2>2. FlagShape'
      BY <1>0 DEF Put, Respond, Refuse, Shapes, FlagShape, None, local
    <2>3. RespShape'
      BY <1>0 DEF Put, Respond, Refuse, Shapes, RespShape, local
    <2> QED
      BY <2>1, <2>2, <2>3 DEF Shapes
  <1>2. Places'
    BY <1>0
      DEF Put, Respond, Refuse, Shapes, FlagShape, ReqShape, HandleShape, RespShape, States, Live,
         None, Places, Ended, Before, local
  <1>3. Causes'
    BY <1>0
      DEF Put, Respond, Refuse, Shapes, FlagShape, ReqShape, HandleShape, RespShape, States, Live,
         None, QueueShape, OutShape, Cancels, Places, Ended, Before, Causes, Late, local
  <1>4. Waits'
    BY <1>0
      DEF Put, Respond, Refuse, Shapes, FlagShape, ReqShape, HandleShape, RespShape, States, Live,
         None, Places, Ended, Before, Waits, Native, Wanted, Event, local
  <1>5. Unsaid'
    BY <1>0
      DEF Put, Respond, Refuse, Shapes, FlagShape, ReqShape, HandleShape, RespShape, States, Live,
         None, Waits, Before, Native, Wanted, Event, Unsaid, local
  <1>6. Said'
    BY <1>0
      DEF Put, Respond, Refuse, Shapes, FlagShape, ReqShape, HandleShape, RespShape, States, Live,
         None, Places, Ended, Before, Waits, Native, Wanted, Event, Unsaid, Said, Late,
         local
  <1>7. Texts'
    BY <1>0
      DEF Put, Respond, Refuse, Shapes, FlagShape, ReqShape, HandleShape, RespShape, States, Live,
         None, Places, Ended, Before, Unsaid, Native, Waits, Wanted, Event, Texts, local
  <1>8. AbandonedIsCancelled'
    BY <1>0
      DEF Put, Respond, Refuse, Shapes, FlagShape, ReqShape, HandleShape, RespShape, States, Live,
         None, Places, Ended, Before, Waits, Native, Wanted, Event, AbandonedIsCancelled,
         Working, local
  <1> QED
    BY <1>1, <1>2, <1>3, <1>4, <1>5, <1>6, <1>7, <1>8 DEF ApiInv

LEMMA RegisterKeeps ==
    ASSUME ApiInv, Register
    PROVE  ApiInv'
  <1>0. /\ Shapes /\ Places /\ Causes /\ Waits /\ Unsaid /\ Said /\ Texts
        /\ AbandonedIsCancelled
    BY DEF ApiInv
  <1>1. Shapes'
    <2>1. CallShape' /\ ReqShape' /\ OutShape' /\ HandleShape' /\ QueueShape' /\ SentShape' /\ RespShape'
      BY <1>0
        DEF Register, Shapes, CallShape, ReqShape, OutShape, HandleShape, QueueShape, SentShape,
           RespShape, worker
    <2>2. FlagShape'
      BY <1>0 DEF Register, Shapes, FlagShape, None, worker
    <2> QED
      BY <2>1, <2>2 DEF Shapes
  <1>2. Places'
    BY <1>0
      DEF Register, Shapes, FlagShape, ReqShape, HandleShape, RespShape, States, Live, None,
         Places, Ended, Before, worker
  <1>3. Causes'
    BY <1>0
      DEF Register, Shapes, FlagShape, ReqShape, HandleShape, RespShape, States, Live, None,
         QueueShape, OutShape, Cancels, Places, Ended, Before, Causes, Late, worker
  <1>4. Waits'
    BY <1>0
      DEF Register, Shapes, FlagShape, ReqShape, HandleShape, RespShape, States, Live, None,
         Places, Ended, Before, Waits, Native, Wanted, Event, worker
  <1>5. Unsaid'
    BY <1>0
      DEF Register, Shapes, FlagShape, ReqShape, HandleShape, RespShape, States, Live, None,
         Waits, Before, Native, Wanted, Event, Unsaid, worker
  <1>6. Said'
    BY <1>0
      DEF Register, Shapes, FlagShape, ReqShape, HandleShape, RespShape, States, Live, None,
         Places, Ended, Before, Waits, Native, Wanted, Event, Unsaid, Said, Late, worker
  <1>7. Texts'
    BY <1>0
      DEF Register, Shapes, FlagShape, ReqShape, HandleShape, RespShape, States, Live, None,
         Places, Ended, Before, Unsaid, Native, Waits, Wanted, Event, Texts, worker
  <1>8. AbandonedIsCancelled'
    BY <1>0
      DEF Register, Shapes, FlagShape, ReqShape, HandleShape, RespShape, States, Live, None,
         Places, Ended, Before, Waits, Native, Wanted, Event, AbandonedIsCancelled, Working,
         worker
  <1> QED
    BY <1>1, <1>2, <1>3, <1>4, <1>5, <1>6, <1>7, <1>8 DEF ApiInv

LEMMA AnswerKeeps ==
    ASSUME ApiInv, Answer
    PROVE  ApiInv'
  <1>0. /\ Shapes /\ Places /\ Causes /\ Waits /\ Unsaid /\ Said /\ Texts
        /\ AbandonedIsCancelled
    BY DEF ApiInv
  <1>t. TerminalTruth
    BY <1>0, TerminalStatusTrue
  <1>1. Shapes'
    <2>1. CallShape' /\ ReqShape' /\ OutShape' /\ HandleShape'
      BY <1>0 DEF Answer, Shapes, CallShape, ReqShape, OutShape, HandleShape, worker, local
    <2>2. FlagShape'
      BY <1>0 DEF Answer, Respond, Queued, Shapes, FlagShape, None, worker, local
    <2>3. QueueShape'
      BY <1>0 DEF Answer, Respond, Queued, Shapes, QueueShape, Cancels, worker, local
    <2>4. SentShape'
      BY <1>0 DEF Answer, Respond, Queued, Shapes, SentShape, worker, local, OutShape
    <2>5. RespShape'
      BY <1>0 DEF Answer, Respond, Queued, Shapes, RespShape, worker, local
    <2> QED
      BY <2>1, <2>2, <2>3, <2>4, <2>5 DEF Shapes
  <1>2. Places'
    BY <1>0
      DEF Answer, Respond, Queued, Shapes, FlagShape, ReqShape, HandleShape, RespShape, States,
         Live, None, Places, Ended, Before, worker, local
  <1>3. Causes'
    BY <1>0
      DEF Answer, Respond, Queued, Shapes, FlagShape, ReqShape, HandleShape, RespShape, States,
         Live, None, QueueShape, OutShape, Cancels, Places, Ended, Before, Causes, Late,
         worker, local
  <1>4. Waits'
    BY <1>0, <1>t
      DEF Answer, Respond, Queued, Shapes, FlagShape, ReqShape, HandleShape, RespShape, States,
         Live, None, Places, Ended, Before, Waits, Native, Wanted, Event, worker, local,
         TerminalTruth
  <1>5. Unsaid'
    BY <1>0, <1>t
      DEF Answer, Respond, Queued, Shapes, FlagShape, ReqShape, HandleShape, RespShape, States,
         Live, None, Waits, Before, Native, Wanted, Event, Unsaid, worker, local,
         TerminalTruth
  <1>6. Said'
    <2>1. CASE sent' = out
      <3>1. IsPrefix(sent', out')
        BY <1>0, <2>1, PrefixSelf DEF Answer, worker, Shapes, OutShape
      <3> QED
        BY <1>0, <1>t, <2>1, <3>1 DEF Answer, Respond, Shapes, FlagShape, ReqShape, HandleShape,
           RespShape, Places, Waits, Unsaid, Said, Native, None, Late, Live, Ended, Event, worker,
           local, TerminalTruth
    <2>2. CASE UNCHANGED sent
      BY <1>0, <1>t, <2>2 DEF Answer, Respond, Shapes, FlagShape, ReqShape, HandleShape,
         RespShape, Places, Waits, Unsaid, Said, Native, None, Late, Live, Ended, Event, worker,
         local, TerminalTruth
    <2> QED
      BY <2>1, <2>2 DEF Answer
  <1>7. Texts'
    BY <1>0
      DEF Answer, Respond, Queued, Shapes, FlagShape, ReqShape, HandleShape, RespShape, States,
         Live, None, Places, Ended, Before, Unsaid, Native, Waits, Wanted, Event, Texts,
         worker, local
  <1>8. AbandonedIsCancelled'
    BY <1>0, <1>t
      DEF Answer, Respond, Queued, Shapes, FlagShape, ReqShape, HandleShape, RespShape, States,
         Live, None, Places, Ended, Before, Waits, Native, Wanted, Event,
         AbandonedIsCancelled, Working, worker, local, TerminalTruth
  <1> QED
    BY <1>1, <1>2, <1>3, <1>4, <1>5, <1>6, <1>7, <1>8 DEF ApiInv

LEMMA AdmittedKeeps ==
    ASSUME ApiInv, Admitted
    PROVE  ApiInv'
  <1>0. /\ Shapes /\ Places /\ Causes /\ Waits /\ Unsaid /\ Said /\ Texts
        /\ AbandonedIsCancelled
    BY DEF ApiInv
  <1>t. TerminalTruth
    BY <1>0, TerminalStatusTrue
  <1>1. Shapes'
    <2>1. CallShape' /\ ReqShape' /\ OutShape' /\ HandleShape' /\ SentShape'
      BY <1>0
        DEF Admitted, Shapes, CallShape, ReqShape, OutShape, HandleShape, SentShape, worker, local
    <2>2. FlagShape'
      BY <1>0 DEF Admitted, Respond, Queued, Shapes, FlagShape, None, worker, local
    <2>3. QueueShape'
      BY <1>0 DEF Admitted, Respond, Queued, Shapes, QueueShape, Cancels, worker, local
    <2>4. RespShape'
      BY <1>0 DEF Admitted, Respond, Queued, Shapes, RespShape, worker, local
    <2> QED
      BY <2>1, <2>2, <2>3, <2>4 DEF Shapes
  <1>2. Places'
    BY <1>0
      DEF Admitted, Respond, Queued, Shapes, FlagShape, ReqShape, HandleShape, RespShape, States,
         Live, None, Places, Ended, Before, worker, local
  <1>3. Causes'
    BY <1>0
      DEF Admitted, Respond, Queued, Shapes, FlagShape, ReqShape, HandleShape, RespShape, States,
         Live, None, QueueShape, OutShape, Cancels, Places, Ended, Before, Causes, Late,
         worker, local
  <1>4. Waits'
    BY <1>0, <1>t
      DEF Admitted, Respond, Queued, Shapes, FlagShape, ReqShape, HandleShape, RespShape, States,
         Live, None, Places, Ended, Before, Waits, Native, Wanted, Event, worker, local,
         TerminalTruth
  <1>5. Unsaid'
    BY <1>0, <1>t
      DEF Admitted, Respond, Queued, Shapes, FlagShape, ReqShape, HandleShape, RespShape, States,
         Live, None, Waits, Before, Native, Wanted, Event, Unsaid, worker, local,
         TerminalTruth
  <1>6. Said'
    BY <1>0, <1>t
      DEF Admitted, Respond, Queued, Shapes, FlagShape, ReqShape, HandleShape, RespShape, States,
         Live, None, Places, Ended, Before, Waits, Native, Wanted, Event, Unsaid, Said,
         Late, worker, local, TerminalTruth
  <1>7. Texts'
    BY <1>0
      DEF Admitted, Respond, Queued, Shapes, FlagShape, ReqShape, HandleShape, RespShape, States,
         Live, None, Places, Ended, Before, Unsaid, Native, Waits, Wanted, Event, Texts,
         worker, local
  <1>8. AbandonedIsCancelled'
    BY <1>0, <1>t
      DEF Admitted, Respond, Queued, Shapes, FlagShape, ReqShape, HandleShape, RespShape, States,
         Live, None, Places, Ended, Before, Waits, Native, Wanted, Event,
         AbandonedIsCancelled, Working, worker, local, TerminalTruth
  <1> QED
    BY <1>1, <1>2, <1>3, <1>4, <1>5, <1>6, <1>7, <1>8 DEF ApiInv

LEMMA EventsTopKeeps ==
    ASSUME ApiInv, EventsTop
    PROVE  ApiInv'
  <1>0. /\ Shapes /\ Places /\ Causes /\ Waits /\ Unsaid /\ Said /\ Texts
        /\ AbandonedIsCancelled
    BY DEF ApiInv
  <1>1. Shapes'
    <2>1. CallShape' /\ ReqShape' /\ OutShape' /\ HandleShape' /\ SentShape'
      BY <1>0
        DEF EventsTop, Shapes, CallShape, ReqShape, OutShape, HandleShape, SentShape, worker, local
    <2>2. FlagShape'
      BY <1>0 DEF EventsTop, Queued, Over, Shapes, FlagShape, None, worker, local
    <2>3. QueueShape'
      <3>1. /\ Queued(<<"CLIENT_DISCONNECTED">>) \in Seq(Cancels)
            /\ Queued(<<"TIMEOUT", "CLIENT_DISCONNECTED">>) \in Seq(Cancels)
        BY <1>0, QueuedReasons, ReasonsGiven DEF Shapes, QueuedMore, Cancels
      <3> QED
        BY <1>0, <3>1 DEF EventsTop, Shapes, QueueShape
    <2>4. RespShape'
      BY <1>0 DEF EventsTop, Queued, Over, Shapes, RespShape, worker, local
    <2> QED
      BY <2>1, <2>2, <2>3, <2>4 DEF Shapes
  <1>2. Places'
    BY <1>0
      DEF EventsTop, Queued, Over, Shapes, FlagShape, ReqShape, HandleShape, RespShape, States,
         Live, None, Places, Ended, Before, worker, local
  <1>3. Causes'
    BY <1>0
      DEF EventsTop, Queued, Over, Shapes, FlagShape, ReqShape, HandleShape, RespShape, States,
         Live, None, QueueShape, OutShape, Cancels, Places, Ended, Before, Causes, Late,
         worker, local
  <1>4. Waits'
    BY <1>0
      DEF EventsTop, Queued, Over, Shapes, FlagShape, ReqShape, HandleShape, RespShape, States,
         Live, None, Places, Ended, Before, Waits, Native, Wanted, Event, worker, local
  <1>5. Unsaid'
    BY <1>0
      DEF EventsTop, Queued, Over, Shapes, FlagShape, ReqShape, HandleShape, RespShape, States,
         Live, None, Waits, Before, Native, Wanted, Event, Unsaid, worker, local
  <1>6. Said'
    BY <1>0
      DEF EventsTop, Queued, Over, Shapes, FlagShape, ReqShape, HandleShape, RespShape, States,
         Live, None, Places, Ended, Before, Waits, Native, Wanted, Event, Unsaid, Said,
         Late, worker, local
  <1>7. Texts'
    BY <1>0
      DEF EventsTop, Queued, Over, Shapes, FlagShape, ReqShape, HandleShape, RespShape, States,
         Live, None, Places, Ended, Before, Unsaid, Native, Waits, Wanted, Event, Texts,
         worker, local
  <1>8. AbandonedIsCancelled'
    BY <1>0
      DEF EventsTop, Queued, Over, Shapes, FlagShape, ReqShape, HandleShape, RespShape, States,
         Live, None, Places, Ended, Before, Waits, Native, Wanted, Event,
         AbandonedIsCancelled, Working, worker, local
  <1> QED
    BY <1>1, <1>2, <1>3, <1>4, <1>5, <1>6, <1>7, <1>8 DEF ApiInv

LEMMA PushKeeps ==
    ASSUME ApiInv, Push
    PROVE  ApiInv'
  <1>0. /\ Shapes /\ Places /\ Causes /\ Waits /\ Unsaid /\ Said /\ Texts
        /\ AbandonedIsCancelled
    BY DEF ApiInv
  <1>1. Shapes'
    <2>1. CallShape' /\ ReqShape' /\ OutShape' /\ HandleShape' /\ QueueShape' /\ RespShape'
      BY <1>0
        DEF Push, Shapes, CallShape, ReqShape, OutShape, HandleShape, QueueShape, RespShape, worker,
           local
    <2>2. FlagShape'
      BY <1>0 DEF Push, Shapes, FlagShape, None, worker, local
    <2>3. SentShape'
      BY <1>0 DEF Push, Shapes, SentShape, worker, local, OutShape
    <2> QED
      BY <2>1, <2>2, <2>3 DEF Shapes
  <1>2. Places'
    BY <1>0
      DEF Push, Shapes, FlagShape, ReqShape, HandleShape, RespShape, States, Live, None, Places,
         Ended, Before, worker, local
  <1>3. Causes'
    BY <1>0
      DEF Push, Shapes, FlagShape, ReqShape, HandleShape, RespShape, States, Live, None,
         QueueShape, OutShape, Cancels, Places, Ended, Before, Causes, Late, worker, local
  <1>4. Waits'
    BY <1>0
      DEF Push, Shapes, FlagShape, ReqShape, HandleShape, RespShape, States, Live, None, Places,
         Ended, Before, Waits, Native, Wanted, Event, worker, local
  <1>5. Unsaid'
    BY <1>0
      DEF Push, Shapes, FlagShape, ReqShape, HandleShape, RespShape, States, Live, None, Waits,
         Before, Native, Wanted, Event, Unsaid, worker, local
  <1>6. Said'
    <2>1. out \in Seq(Char) /\ sent \in Seq(Char) /\ call.route \in Native /\ IsPrefix(sent, out)
      BY <1>0 DEF Push, Shapes, OutShape, SentShape, Waits, Native, Said
    <2>2. IsPrefix(sent', out)
      <3>1. sent' = sent \/ (Len(sent) < Len(out) /\ sent' = Append(sent, out[Len(sent) + 1]))
        BY DEF Push
      <3>2. CASE sent' = sent
        BY <2>1, <3>2
      <3>3. CASE Len(sent) < Len(out) /\ sent' = Append(sent, out[Len(sent) + 1])
        BY <2>1, <3>3, PrefixSteps
      <3> QED BY <3>1, <3>2, <3>3
    <2>3. resp.finish = None
      BY <1>0 DEF Push, Unsaid
    <2> QED
      BY <1>0, <2>2, <2>3 DEF Push, Said, worker, local, Late, Native
  <1>7. Texts'
    BY <1>0
      DEF Push, Shapes, FlagShape, ReqShape, HandleShape, RespShape, States, Live, None, Places,
         Ended, Before, Unsaid, Native, Waits, Wanted, Event, Texts, worker, local
  <1>8. AbandonedIsCancelled'
    BY <1>0
      DEF Push, Shapes, FlagShape, ReqShape, HandleShape, RespShape, States, Live, None, Places,
         Ended, Before, Waits, Native, Wanted, Event, AbandonedIsCancelled, Working, worker,
         local
  <1> QED
    BY <1>1, <1>2, <1>3, <1>4, <1>5, <1>6, <1>7, <1>8 DEF ApiInv

LEMMA ClosingKeeps ==
    ASSUME ApiInv, Closing
    PROVE  ApiInv'
  <1>0. /\ Shapes /\ Places /\ Causes /\ Waits /\ Unsaid /\ Said /\ Texts
        /\ AbandonedIsCancelled
    BY DEF ApiInv
  <1>t. TerminalTruth
    BY <1>0, TerminalStatusTrue
  <1>1. Shapes'
    <2>1. CallShape' /\ ReqShape' /\ OutShape' /\ HandleShape' /\ QueueShape'
      BY <1>0
        DEF Closing, Shapes, CallShape, ReqShape, OutShape, HandleShape, QueueShape, worker, local
    <2>2. FlagShape'
      BY <1>0 DEF Closing, Over, Shapes, FlagShape, None, worker, local
    <2>3. SentShape'
      BY <1>0 DEF Closing, Over, Shapes, SentShape, worker, local, OutShape
    <2>4. RespShape'
      BY <1>0 DEF Closing, Over, Shapes, RespShape, worker, local
    <2> QED
      BY <2>1, <2>2, <2>3, <2>4 DEF Shapes
  <1>2. Places'
    BY <1>0
      DEF Closing, Over, Shapes, FlagShape, ReqShape, HandleShape, RespShape, States, Live, None,
         Places, Ended, Before, worker, local
  <1>3. Causes'
    BY <1>0
      DEF Closing, Over, Shapes, FlagShape, ReqShape, HandleShape, RespShape, States, Live, None,
         QueueShape, OutShape, Cancels, Places, Ended, Before, Causes, Late, worker, local
  <1>4. Waits'
    BY <1>0, <1>t
      DEF Closing, Over, Shapes, FlagShape, ReqShape, HandleShape, RespShape, States, Live, None,
         Places, Ended, Before, Waits, Native, Wanted, Event, worker, local, TerminalTruth
  <1>5. Unsaid'
    BY <1>0, <1>t
      DEF Closing, Over, Shapes, FlagShape, ReqShape, HandleShape, RespShape, States, Live, None,
         Waits, Before, Native, Wanted, Event, Unsaid, worker, local, TerminalTruth
  <1>6. Said'
    <2>1. /\ out \in Seq(Char) /\ sent \in Seq(Char) /\ call.route \in Native /\ IsPrefix(sent, out)
          /\ handle.completed /\ resp.finish = None
      BY <1>0 DEF Closing, Shapes, OutShape, SentShape, Waits, Native, Said, Unsaid
    <2>2. CASE UNCHANGED <<pc, resp>>
      <3>1. IsPrefix(sent', out)
        <4>1. Len(sent) < Len(out) /\ sent' = Append(sent, out[Len(sent) + 1])
          BY <2>1, <2>2 DEF Closing, Over
        <4> QED BY <2>1, <4>1, PrefixSteps
      <3> QED
        BY <1>0, <2>1, <2>2, <3>1 DEF Closing, Said, worker, local, Late, Native, None
    <2>3. CASE UNCHANGED sent /\ TerminalStatus # 0 /\ Over("error")
      BY <1>0, <2>1, <2>3 DEF Closing, Over, Shapes, RespShape, Said, worker, local, Late, Native,
         None
    <2>4. CASE UNCHANGED sent /\ TerminalStatus = 0 /\ ~(Len(sent) < Len(out)) /\ Over(req.reason)
      <3>1. sent = out /\ req.state = "FINISHED"
        BY <1>t, <2>1, <2>4, PrefixSteps DEF TerminalTruth
      <3> QED
        BY <1>0, <2>1, <2>4, <3>1 DEF Closing, Over, Shapes, ReqShape, RespShape, Said, worker,
           local, Late, Native, None
    <2> QED
      BY <2>2, <2>3, <2>4 DEF Closing
  <1>7. Texts'
    BY <1>0
      DEF Closing, Over, Shapes, FlagShape, ReqShape, HandleShape, RespShape, States, Live, None,
         Places, Ended, Before, Unsaid, Native, Waits, Wanted, Event, Texts, worker, local
  <1>8. AbandonedIsCancelled'
    BY <1>0, <1>t
      DEF Closing, Over, Shapes, FlagShape, ReqShape, HandleShape, RespShape, States, Live, None,
         Places, Ended, Before, Waits, Native, Wanted, Event, AbandonedIsCancelled, Working,
         worker, local, TerminalTruth
  <1> QED
    BY <1>1, <1>2, <1>3, <1>4, <1>5, <1>6, <1>7, <1>8 DEF ApiInv

LEMMA CollectKeeps ==
    ASSUME ApiInv, Collect
    PROVE  ApiInv'
  <1>0. /\ Shapes /\ Places /\ Causes /\ Waits /\ Unsaid /\ Said /\ Texts
        /\ AbandonedIsCancelled
    BY DEF ApiInv
  <1>1. Shapes'
    <2>1. CallShape' /\ ReqShape' /\ OutShape' /\ HandleShape'
      BY <1>0 DEF Collect, Shapes, CallShape, ReqShape, OutShape, HandleShape, worker, local
    <2>2. FlagShape'
      <3>1. pc' = "over" /\ UNCHANGED <<svc, where, waiter, woken, expired, gone, done>>
        BY DEF Collect, Respond, worker, local
      <3> QED
        BY <1>0, <3>1 DEF Shapes, FlagShape
    <2>3. QueueShape'
      <3>1. Queued(<<"TIMEOUT">>) \in Seq(Cancels) /\ Queued(<<"STOP_SEQUENCE">>) \in Seq(Cancels)
        BY <1>0, QueuedReasons, ReasonsGiven DEF Shapes, QueuedMore, Cancels
      <3> QED
        BY <1>0, <3>1 DEF Collect, Shapes, QueueShape
    <2>4. SentShape'
      <3> DEFINE cut == TruncateAtStop(Decode(out), call.stops)
      <3>1. cut.text \in Seq(Char)
        BY <1>0, CutOfOutput DEF Truncated
      <3> HIDE DEF cut
      <3>2. sent' = sent \/ sent' = cut.text
        BY DEF Collect, cut
      <3> QED
        BY <1>0, <3>1, <3>2 DEF Shapes, SentShape
    <2>5. RespShape'
      BY <1>0 DEF Collect, Respond, Queued, FinishReason, Shapes, RespShape, worker, local
    <2> QED
      BY <2>1, <2>2, <2>3, <2>4, <2>5 DEF Shapes
  <1>2. Places'
    BY <1>0
      DEF Collect, Respond, Queued, FinishReason, Shapes, FlagShape, ReqShape, HandleShape,
         RespShape, States, Live, None, Places, Ended, Before, worker, local
  <1>3. Causes'
    BY <1>0
      DEF Collect, Respond, Queued, FinishReason, Shapes, FlagShape, ReqShape, HandleShape,
         RespShape, States, Live, None, QueueShape, OutShape, Cancels, Places, Ended,
         Before, Causes, Late, worker, local
  <1>4. Waits'
    BY <1>0
      DEF Collect, Respond, Queued, FinishReason, Shapes, FlagShape, ReqShape, HandleShape,
         RespShape, States, Live, None, Places, Ended, Before, Waits, Native, Wanted, Event,
         worker, local
  <1>5. Unsaid'
    BY <1>0
      DEF Collect, Respond, Queued, FinishReason, Shapes, FlagShape, ReqShape, HandleShape,
         RespShape, States, Live, None, Waits, Before, Native, Wanted, Event, Unsaid,
         worker, local
  <1>6. Said'
    BY <1>0
      DEF Collect, Respond, Queued, FinishReason, Shapes, FlagShape, ReqShape, HandleShape,
         RespShape, States, Live, None, Places, Ended, Before, Waits, Native, Wanted, Event,
         Unsaid, Said, Late, worker, local
  <1>7. Texts'
    <2> DEFINE cut == TruncateAtStop(Decode(out), call.stops)
    <2>1. Truncated(cut, Decode(out), call.stops)
      BY <1>0, CutOfOutput
    <2>2. \/ sent' = cut.text /\ (cut.hit \/ handle.completed)
          \/ resp'.status # 200
      BY <1>0 DEF Collect, cut, Respond, Shapes, RespShape, HandleShape
    <2>3. UNCHANGED <<call, out, handle>>
      BY DEF Collect, worker
    <2> HIDE DEF cut
    <2> QED
      BY <2>1, <2>2, <2>3 DEF Truncated, Texts
  <1>8. AbandonedIsCancelled'
    BY <1>0
      DEF Collect, Respond, Queued, FinishReason, Shapes, FlagShape, ReqShape, HandleShape,
         RespShape, States, Live, None, Places, Ended, Before, Waits, Native, Wanted, Event,
         AbandonedIsCancelled, Working, worker, local
  <1> QED
    BY <1>1, <1>2, <1>3, <1>4, <1>5, <1>6, <1>7, <1>8 DEF ApiInv

LEMMA StreamTopKeeps ==
    ASSUME ApiInv, StreamTop
    PROVE  ApiInv'
  <1>0. /\ Shapes /\ Places /\ Causes /\ Waits /\ Unsaid /\ Said /\ Texts
        /\ AbandonedIsCancelled
    BY DEF ApiInv
  <1>1. Shapes'
    <2>1. CallShape' /\ ReqShape' /\ OutShape' /\ HandleShape' /\ SentShape'
      BY <1>0
        DEF StreamTop, Shapes, CallShape, ReqShape, OutShape, HandleShape, SentShape, worker
    <2>2. FlagShape'
      BY <1>0 DEF StreamTop, Queued, Over, Shapes, FlagShape, None, worker, HandleShape
    <2>3. QueueShape'
      <3>1. /\ Queued(<<"CLIENT_DISCONNECTED", "CLIENT_DISCONNECTED">>) \in Seq(Cancels)
            /\ Queued(<<"TIMEOUT", "CLIENT_DISCONNECTED">>) \in Seq(Cancels)
        BY <1>0, QueuedReasons, ReasonsGiven DEF Shapes, QueuedMore, Cancels
      <3> QED
        BY <1>0, <3>1 DEF StreamTop, Shapes, QueueShape
    <2>4. RespShape'
      BY <1>0 DEF StreamTop, Queued, Over, Shapes, RespShape, worker
    <2> QED
      BY <2>1, <2>2, <2>3, <2>4 DEF Shapes
  <1>2. Places'
    BY <1>0
      DEF StreamTop, Queued, Over, Shapes, FlagShape, ReqShape, HandleShape, RespShape, States,
         Live, None, Places, Ended, Before, worker
  <1>3. Causes'
    <2>1. CASE UNCHANGED cancels
      BY <1>0, <2>1 DEF StreamTop, Causes, Late, worker
    <2>2. ASSUME NEW a \in Cancels, NEW b \in Cancels, cancels' = Queued(<<a, b>>), pc' = "over",
                 {a, b} \subseteq {"CLIENT_DISCONNECTED", "STOP_SEQUENCE"} \/ expired,
                 a # "SERVER_SHUTDOWN", b # "SERVER_SHUTDOWN"
          PROVE  Causes'
      BY <1>0, <2>2, QueueCauses DEF StreamTop, worker
    <2> QED
      BY <1>0, <2>1, <2>2 DEF StreamTop, Over, Cancels
  <1>4. Waits'
    BY <1>0
      DEF StreamTop, Queued, Over, Shapes, FlagShape, ReqShape, HandleShape, RespShape, States,
         Live, None, Places, Ended, Before, Waits, Native, Wanted, Event, worker
  <1>5. Unsaid'
    BY <1>0
      DEF StreamTop, Queued, Over, Shapes, FlagShape, ReqShape, HandleShape, RespShape, States,
         Live, None, Waits, Before, Native, Wanted, Event, Unsaid, worker
  <1>6. Said'
    BY <1>0
      DEF StreamTop, Queued, Over, Shapes, FlagShape, ReqShape, HandleShape, RespShape, States,
         Live, None, Places, Ended, Before, Waits, Native, Wanted, Event, Unsaid, Said,
         Late, worker
  <1>7. Texts'
    BY <1>0
      DEF StreamTop, Queued, Over, Shapes, FlagShape, ReqShape, HandleShape, RespShape, States,
         Live, None, Places, Ended, Before, Unsaid, Native, Waits, Wanted, Event, Texts,
         worker
  <1>8. AbandonedIsCancelled'
    BY <1>0
      DEF StreamTop, Queued, Over, Shapes, FlagShape, ReqShape, HandleShape, RespShape, States,
         Live, None, Places, Ended, Before, Waits, Native, Wanted, Event,
         AbandonedIsCancelled, Working, worker
  <1> QED
    BY <1>1, <1>2, <1>3, <1>4, <1>5, <1>6, <1>7, <1>8 DEF ApiInv

LEMMA DeltaKeeps ==
    ASSUME ApiInv, Delta
    PROVE  ApiInv'
  <1>0. /\ Shapes /\ Places /\ Causes /\ Waits /\ Unsaid /\ Said /\ Texts
        /\ AbandonedIsCancelled
    BY DEF ApiInv
  <1>1. Shapes'
    <2>1. CallShape' /\ ReqShape' /\ OutShape' /\ HandleShape' /\ QueueShape' /\ RespShape'
      BY <1>0
        DEF Delta, Shapes, CallShape, ReqShape, OutShape, HandleShape, QueueShape, RespShape,
           worker, local
    <2>2. FlagShape'
      BY <1>0 DEF Delta, Shapes, FlagShape, None, worker, local
    <2>3. SentShape'
      <3> DEFINE cut == TruncateAtStop(Decode(out), call.stops)
      <3>1. cut.text \in Seq(Char)
        BY <1>0, CutOfOutput DEF Truncated
      <3> HIDE DEF cut
      <3>2. sent' = IF Len(cut.text) > Len(sent)
                    THEN sent \o SubSeq(cut.text, Len(sent) + 1, Len(cut.text)) ELSE sent
        BY DEF Delta, cut
      <3> QED
        BY <1>0, <3>1, <3>2, PrefixCompleted DEF Shapes, SentShape
    <2> QED
      BY <2>1, <2>2, <2>3 DEF Shapes
  <1>2. Places'
    BY <1>0
      DEF Delta, Shapes, FlagShape, ReqShape, HandleShape, RespShape, States, Live, None, Places,
         Ended, Before, worker, local
  <1>3. Causes'
    BY <1>0
      DEF Delta, Shapes, FlagShape, ReqShape, HandleShape, RespShape, States, Live, None,
         QueueShape, OutShape, Cancels, Places, Ended, Before, Causes, Late, worker, local
  <1>4. Waits'
    BY <1>0
      DEF Delta, Shapes, FlagShape, ReqShape, HandleShape, RespShape, States, Live, None, Places,
         Ended, Before, Waits, Native, Wanted, Event, worker, local
  <1>5. Unsaid'
    BY <1>0
      DEF Delta, Shapes, FlagShape, ReqShape, HandleShape, RespShape, States, Live, None, Waits,
         Before, Native, Wanted, Event, Unsaid, worker, local
  <1>6. Said'
    BY <1>0
      DEF Delta, Shapes, FlagShape, ReqShape, HandleShape, RespShape, States, Live, None, Places,
         Ended, Before, Waits, Native, Wanted, Event, Unsaid, Said, Late, worker, local
  <1>7. Texts'
    BY <1>0
      DEF Delta, Shapes, FlagShape, ReqShape, HandleShape, RespShape, States, Live, None, Places,
         Ended, Before, Unsaid, Native, Waits, Wanted, Event, Texts, worker, local
  <1>8. AbandonedIsCancelled'
    BY <1>0
      DEF Delta, Shapes, FlagShape, ReqShape, HandleShape, RespShape, States, Live, None, Places,
         Ended, Before, Waits, Native, Wanted, Event, AbandonedIsCancelled, Working, worker,
         local
  <1> QED
    BY <1>1, <1>2, <1>3, <1>4, <1>5, <1>6, <1>7, <1>8 DEF ApiInv

LEMMA YieldedKeeps ==
    ASSUME ApiInv, Yielded
    PROVE  ApiInv'
  <1>0. /\ Shapes /\ Places /\ Causes /\ Waits /\ Unsaid /\ Said /\ Texts
        /\ AbandonedIsCancelled
    BY DEF ApiInv
  <1>1. Shapes'
    <2>1. CallShape' /\ ReqShape' /\ OutShape' /\ HandleShape' /\ SentShape'
      BY <1>0
        DEF Yielded, Shapes, CallShape, ReqShape, OutShape, HandleShape, SentShape, worker, local
    <2>2. FlagShape'
      BY <1>0
        DEF Yielded, Queued, Over, FinishReason, Shapes, FlagShape, None, worker, local
    <2>3. QueueShape'
      <3>1. Queued(<<"STOP_SEQUENCE", "CLIENT_DISCONNECTED">>) \in Seq(Cancels)
        BY <1>0, QueuedReasons, ReasonsGiven DEF Shapes, QueuedMore, Cancels
      <3> QED
        BY <1>0, <3>1 DEF Yielded, Shapes, QueueShape
    <2>4. RespShape'
      BY <1>0 DEF Yielded, Queued, Over, FinishReason, Shapes, RespShape, worker, local
    <2> QED
      BY <2>1, <2>2, <2>3, <2>4 DEF Shapes
  <1>2. Places'
    BY <1>0
      DEF Yielded, Queued, Over, FinishReason, Shapes, FlagShape, ReqShape, HandleShape,
         RespShape, States, Live, None, Places, Ended, Before, worker, local
  <1>3. Causes'
    <2>1. CASE UNCHANGED cancels
      BY <1>0, <2>1 DEF Yielded, Over, Causes, Late, worker
    <2>2. CASE cancels' = Queued(<<"STOP_SEQUENCE", "CLIENT_DISCONNECTED">>) /\ pc' = "over"
      BY <1>0, <2>2, QueueCauses DEF Yielded, worker, Cancels
    <2> QED
      BY <2>1, <2>2 DEF Yielded, Over
  <1>4. Waits'
    BY <1>0
      DEF Yielded, Queued, Over, FinishReason, Shapes, FlagShape, ReqShape, HandleShape,
         RespShape, States, Live, None, Places, Ended, Before, Waits, Native, Wanted, Event,
         worker, local
  <1>5. Unsaid'
    BY <1>0
      DEF Yielded, Queued, Over, FinishReason, Shapes, FlagShape, ReqShape, HandleShape,
         RespShape, States, Live, None, Waits, Before, Native, Wanted, Event, Unsaid,
         worker, local
  <1>6. Said'
    BY <1>0
      DEF Yielded, Queued, Over, FinishReason, Shapes, FlagShape, ReqShape, HandleShape,
         RespShape, States, Live, None, Places, Ended, Before, Waits, Native, Wanted, Event,
         Unsaid, Said, Late, worker, local
  <1>7. Texts'
    BY <1>0
      DEF Yielded, Queued, Over, FinishReason, Shapes, FlagShape, ReqShape, HandleShape,
         RespShape, States, Live, None, Places, Ended, Before, Unsaid, Native, Waits,
         Wanted, Event, Texts, worker, local
  <1>8. AbandonedIsCancelled'
    BY <1>0
      DEF Yielded, Queued, Over, FinishReason, Shapes, FlagShape, ReqShape, HandleShape,
         RespShape, States, Live, None, Places, Ended, Before, Waits, Native, Wanted, Event,
         AbandonedIsCancelled, Working, worker, local
  <1> QED
    BY <1>1, <1>2, <1>3, <1>4, <1>5, <1>6, <1>7, <1>8 DEF ApiInv

LEMMA StreamClosedKeeps ==
    ASSUME ApiInv, StreamClosed
    PROVE  ApiInv'
  <1>0. /\ Shapes /\ Places /\ Causes /\ Waits /\ Unsaid /\ Said /\ Texts
        /\ AbandonedIsCancelled
    BY DEF ApiInv
  <1>1. Shapes'
    <2>1. CallShape' /\ ReqShape' /\ OutShape' /\ HandleShape' /\ SentShape' /\ RespShape'
      BY <1>0
        DEF StreamClosed, Shapes, CallShape, ReqShape, OutShape, HandleShape, SentShape, RespShape,
           worker, local
    <2>2. FlagShape'
      BY <1>0 DEF StreamClosed, Queued, Shapes, FlagShape, None, worker, local
    <2>3. QueueShape'
      <3>1. Queued(<<"CLIENT_DISCONNECTED">>) \in Seq(Cancels)
        BY <1>0, QueuedReasons, ReasonsGiven DEF Shapes, QueuedMore, Cancels
      <3> QED
        BY <1>0, <3>1 DEF StreamClosed, Shapes, QueueShape
    <2> QED
      BY <2>1, <2>2, <2>3 DEF Shapes
  <1>2. Places'
    BY <1>0
      DEF StreamClosed, Queued, Shapes, FlagShape, ReqShape, HandleShape, RespShape, States, Live,
         None, Places, Ended, Before, worker, local
  <1>3. Causes'
    BY <1>0
      DEF StreamClosed, Queued, Shapes, FlagShape, ReqShape, HandleShape, RespShape, States, Live,
         None, QueueShape, OutShape, Cancels, Places, Ended, Before, Causes, Late, worker,
         local
  <1>4. Waits'
    BY <1>0
      DEF StreamClosed, Queued, Shapes, FlagShape, ReqShape, HandleShape, RespShape, States, Live,
         None, Places, Ended, Before, Waits, Native, Wanted, Event, worker, local
  <1>5. Unsaid'
    BY <1>0
      DEF StreamClosed, Queued, Shapes, FlagShape, ReqShape, HandleShape, RespShape, States, Live,
         None, Waits, Before, Native, Wanted, Event, Unsaid, worker, local
  <1>6. Said'
    BY <1>0
      DEF StreamClosed, Queued, Shapes, FlagShape, ReqShape, HandleShape, RespShape, States, Live,
         None, Places, Ended, Before, Waits, Native, Wanted, Event, Unsaid, Said, Late,
         worker, local
  <1>7. Texts'
    BY <1>0
      DEF StreamClosed, Queued, Shapes, FlagShape, ReqShape, HandleShape, RespShape, States, Live,
         None, Places, Ended, Before, Unsaid, Native, Waits, Wanted, Event, Texts, worker,
         local
  <1>8. AbandonedIsCancelled'
    BY <1>0
      DEF StreamClosed, Queued, Shapes, FlagShape, ReqShape, HandleShape, RespShape, States, Live,
         None, Places, Ended, Before, Waits, Native, Wanted, Event, AbandonedIsCancelled,
         Working, worker, local
  <1> QED
    BY <1>1, <1>2, <1>3, <1>4, <1>5, <1>6, <1>7, <1>8 DEF ApiInv

LEMMA DeadlinePassesKeeps ==
    ASSUME ApiInv, DeadlinePasses
    PROVE  ApiInv'
  <1>0. /\ Shapes /\ Places /\ Causes /\ Waits /\ Unsaid /\ Said /\ Texts
        /\ AbandonedIsCancelled
    BY DEF ApiInv
  <1>1. Shapes'
    <2>1. CallShape' /\ ReqShape' /\ OutShape' /\ HandleShape' /\ QueueShape' /\ SentShape' /\ RespShape'
      BY <1>0
        DEF DeadlinePasses, Shapes, CallShape, ReqShape, OutShape, HandleShape, QueueShape,
           SentShape, RespShape, worker, local
    <2>2. FlagShape'
      BY <1>0 DEF DeadlinePasses, Shapes, FlagShape, None, worker, local
    <2> QED
      BY <2>1, <2>2 DEF Shapes
  <1>2. Places'
    BY <1>0
      DEF DeadlinePasses, Shapes, FlagShape, ReqShape, HandleShape, RespShape, States, Live, None,
         Places, Ended, Before, worker, local
  <1>3. Causes'
    BY <1>0
      DEF DeadlinePasses, Shapes, FlagShape, ReqShape, HandleShape, RespShape, States, Live, None,
         QueueShape, OutShape, Cancels, Places, Ended, Before, Causes, Late, worker, local
  <1>4. Waits'
    BY <1>0
      DEF DeadlinePasses, Shapes, FlagShape, ReqShape, HandleShape, RespShape, States, Live, None,
         Places, Ended, Before, Waits, Native, Wanted, Event, worker, local
  <1>5. Unsaid'
    BY <1>0
      DEF DeadlinePasses, Shapes, FlagShape, ReqShape, HandleShape, RespShape, States, Live, None,
         Waits, Before, Native, Wanted, Event, Unsaid, worker, local
  <1>6. Said'
    BY <1>0
      DEF DeadlinePasses, Shapes, FlagShape, ReqShape, HandleShape, RespShape, States, Live, None,
         Places, Ended, Before, Waits, Native, Wanted, Event, Unsaid, Said, Late, worker,
         local
  <1>7. Texts'
    BY <1>0
      DEF DeadlinePasses, Shapes, FlagShape, ReqShape, HandleShape, RespShape, States, Live, None,
         Places, Ended, Before, Unsaid, Native, Waits, Wanted, Event, Texts, worker, local
  <1>8. AbandonedIsCancelled'
    BY <1>0
      DEF DeadlinePasses, Shapes, FlagShape, ReqShape, HandleShape, RespShape, States, Live, None,
         Places, Ended, Before, Waits, Native, Wanted, Event, AbandonedIsCancelled, Working,
         worker, local
  <1> QED
    BY <1>1, <1>2, <1>3, <1>4, <1>5, <1>6, <1>7, <1>8 DEF ApiInv

LEMMA ClientLeavesKeeps ==
    ASSUME ApiInv, ClientLeaves
    PROVE  ApiInv'
  <1>0. /\ Shapes /\ Places /\ Causes /\ Waits /\ Unsaid /\ Said /\ Texts
        /\ AbandonedIsCancelled
    BY DEF ApiInv
  <1>1. Shapes'
    <2>1. CallShape' /\ ReqShape' /\ OutShape' /\ HandleShape' /\ QueueShape' /\ SentShape' /\ RespShape'
      BY <1>0
        DEF ClientLeaves, Shapes, CallShape, ReqShape, OutShape, HandleShape, QueueShape, SentShape,
           RespShape, worker, local
    <2>2. FlagShape'
      BY <1>0 DEF ClientLeaves, Shapes, FlagShape, None, worker, local
    <2> QED
      BY <2>1, <2>2 DEF Shapes
  <1>2. Places'
    BY <1>0
      DEF ClientLeaves, Shapes, FlagShape, ReqShape, HandleShape, RespShape, States, Live, None,
         Places, Ended, Before, worker, local
  <1>3. Causes'
    BY <1>0
      DEF ClientLeaves, Shapes, FlagShape, ReqShape, HandleShape, RespShape, States, Live, None,
         QueueShape, OutShape, Cancels, Places, Ended, Before, Causes, Late, worker, local
  <1>4. Waits'
    BY <1>0
      DEF ClientLeaves, Shapes, FlagShape, ReqShape, HandleShape, RespShape, States, Live, None,
         Places, Ended, Before, Waits, Native, Wanted, Event, worker, local
  <1>5. Unsaid'
    BY <1>0
      DEF ClientLeaves, Shapes, FlagShape, ReqShape, HandleShape, RespShape, States, Live, None,
         Waits, Before, Native, Wanted, Event, Unsaid, worker, local
  <1>6. Said'
    BY <1>0
      DEF ClientLeaves, Shapes, FlagShape, ReqShape, HandleShape, RespShape, States, Live, None,
         Places, Ended, Before, Waits, Native, Wanted, Event, Unsaid, Said, Late, worker,
         local
  <1>7. Texts'
    BY <1>0
      DEF ClientLeaves, Shapes, FlagShape, ReqShape, HandleShape, RespShape, States, Live, None,
         Places, Ended, Before, Unsaid, Native, Waits, Wanted, Event, Texts, worker, local
  <1>8. AbandonedIsCancelled'
    BY <1>0
      DEF ClientLeaves, Shapes, FlagShape, ReqShape, HandleShape, RespShape, States, Live, None,
         Places, Ended, Before, Waits, Native, Wanted, Event, AbandonedIsCancelled, Working,
         worker, local
  <1> QED
    BY <1>1, <1>2, <1>3, <1>4, <1>5, <1>6, <1>7, <1>8 DEF ApiInv
\* The inductive invariant holds in every state.
LEMMA ApiInductive == Spec => []ApiInv
  <1>1. Init => ApiInv
    BY InitOK
  <1>2. ApiInv /\ [Next]_vars => ApiInv'
    <2> SUFFICES ASSUME ApiInv, [Next]_vars PROVE ApiInv'
      OBVIOUS
    <2>1. CASE Worker
      BY <2>1, LoadedKeeps, AcceptKeeps, EmitKeeps, EndKeeps, PublishCompletedKeeps,
         ApplyCancelKeeps, DrainKeeps, LeftoversKeeps, FailAllKeeps, UnbindKeeps DEF Worker
    <2>2. CASE Handler
      BY <2>2, EnterKeeps, ValidateKeeps, PutKeeps, RegisterKeeps, AnswerKeeps, AdmittedKeeps,
         EventsTopKeeps, PushKeeps, ClosingKeeps, CollectKeeps, StreamTopKeeps, DeltaKeeps,
         YieldedKeeps, StreamClosedKeeps DEF Handler
    <2>3. CASE DeadlinePasses \/ ClientLeaves
      BY <2>3, DeadlinePassesKeeps, ClientLeavesKeeps
    <2>4. CASE UNCHANGED vars
      BY <2>4 DEF vars, ApiInv, Shapes, CallShape, FlagShape, ReqShape, OutShape, HandleShape,
         QueueShape, SentShape, RespShape, Places, Causes, Waits, Unsaid, Said, Texts,
         AbandonedIsCancelled, Ended, Late, Wanted, Event, Working
    <2> QED
      BY <2>1, <2>2, <2>3, <2>4 DEF Next
  <1> QED
    BY <1>1, <1>2, PTL DEF Spec

\* What a client is told is true, whenever it is told: finish reasons and tokens, the cause
\* behind an error status, and the text of an answer up to a stop string.
THEOREM AnswersTrue == Spec => []AnswersAreTrue
  <1>1. ApiInv => AnswersAreTrue
    <2> SUFFICES ASSUME ApiInv PROVE AnswersAreTrue
      OBVIOUS
    <2>1. TypeOK
      <3>1. Len(out) <= MaxNew /\ req.state \in Live \cup {"FINISHED", "FAILED", "REJECTED", "CANCELLED"}
        BY DEF ApiInv, Shapes, OutShape, ReqShape, States
      <3>2. Len(cancels) <= 3
        <4>1. Len(cancels) \in Nat
          BY DEF ApiInv, Shapes, QueueShape
        <4> QED
          BY <4>1 DEF ApiInv, Causes
      <3>3. {woken, expired, gone, done, handle.completed, handle.accepted} \subseteq BOOLEAN
        BY DEF ApiInv, Shapes, FlagShape, HandleShape
      <3> QED
        BY <3>1, <3>2, <3>3 DEF TypeOK, ApiInv, Shapes, FlagShape
    <2>2. NativeTruth
      BY DEF NativeTruth, ApiInv, Said
    <2>3. StatusMeansCause
      BY DEF StatusMeansCause, ApiInv, Said, Places, Causes, Late
    <2>4. NoStopInAnswer
      BY DEF NoStopInAnswer, ApiInv, Texts
    <2> QED
      BY <2>1, <2>2, <2>3, <2>4 DEF AnswersAreTrue
  <1> QED
    BY <1>1, ApiInductive, PTL

\* A handler that waits on an event that has happened has been woken, whatever the order
\* in which the callback was registered and the event set.
THEOREM WaitersWoken == Spec => []WaiterIsWoken
  <1>1. ApiInv => WaiterIsWoken
    BY DEF ApiInv, Waits, WaiterIsWoken, Event
  <1> QED
    BY <1>1, ApiInductive, PTL

\* A native stream that is over leaves no request running without a cancellation queued.
THEOREM NothingAbandoned == Spec => []AbandonedIsCancelled
  <1>1. ApiInv => AbandonedIsCancelled
    BY DEF ApiInv
  <1> QED
    BY <1>1, ApiInductive, PTL

-----------------------------------------------------------------------------
(* Streams of the OpenAI route. *)

\* No token is half a character: what has been decoded stays as it is.
TextIsFinal == Token \cap {"<h1>", "<h2>"} = {}

LEMMA DeltaWhole ==
    ASSUME ApiInv, Wholly, Delta, call.route = "openai_stream", call.stops = {}
    PROVE  sent' = Decode(out) /\ pc' = "yielded"
  <1> DEFINE text == Decode(out)
             cut == TruncateAtStop(text, call.stops)
  <1>1. text \in Seq(Char) /\ Truncated(cut, text, call.stops)
    BY CutOfOutput DEF ApiInv
  <1>2. sent \in Seq(Char) /\ IsPrefix(sent, text)
    BY DEF ApiInv, Shapes, SentShape, Wholly
  <1> HIDE DEF cut
  <1>3. cut.text = text /\ cut.hit = FALSE
    BY <1>1 DEF Truncated
  <1>4. /\ sent' = IF Len(cut.text) > Len(sent)
                   THEN sent \o SubSeq(cut.text, Len(sent) + 1, Len(cut.text)) ELSE sent
        /\ pc' = IF cut.hit THEN "stopped" ELSE "yielded"
    BY DEF Delta, cut
  <1> HIDE DEF text
  <1>5. CASE Len(text) > Len(sent)
    BY <1>1, <1>2, <1>3, <1>4, <1>5, PrefixCompleted DEF text
  <1>6. CASE ~(Len(text) > Len(sent))
    <2>1. Len(text) \in Nat /\ Len(sent) \in Nat
      BY <1>1, <1>2
    <2>2. ~(Len(sent) < Len(text))
      BY <2>1, <1>6
    <2> QED
      BY <1>1, <1>2, <1>3, <1>4, <1>6, <2>2, PrefixSteps DEF text
  <1> QED
    BY <1>5, <1>6

LEMMA EmitWhole ==
    ASSUME TextIsFinal, ApiInv, Wholly, Emit
    PROVE  Wholly'
  <1>1. /\ UNCHANGED <<call, pc, handle, sent, resp, done, gone, expired>>
        /\ ~handle.completed
    BY DEF ApiInv, Places, Emit, local
  <1>2. PICK t \in Token : out' = Append(out, t)
    BY DEF Emit
  <1>3. t \in Char /\ t \notin {"<h1>", "<h2>"} /\ out \in Seq(Char) /\ sent \in Seq(Char)
    BY DEF Char, TextIsFinal, ApiInv, Shapes, OutShape, SentShape
  <1>4. call.route = "openai_stream" /\ call.stops = {} => IsPrefix(sent, Decode(out'))
    BY <1>2, <1>3, DecodeGrows DEF Wholly
  <1> QED
    BY <1>1, <1>4 DEF Wholly

LEMMA WhollyKept ==
    ASSUME TextIsFinal, ApiInv, Wholly, [Next]_vars
    PROVE  Wholly'
  <1>0. /\ FlagShape /\ HandleShape /\ RespShape /\ Places /\ Waits /\ Unsaid
        /\ out \in Seq(Char) /\ sent \in Seq(Char)
    BY DEF ApiInv, Shapes, OutShape, SentShape
  <1>1. CASE Emit
    BY <1>1, EmitWhole
  <1>2. CASE Loaded \/ Accept \/ End \/ PublishCompleted \/ ApplyCancel \/ Drain \/ Leftovers
             \/ FailAll \/ Unbind
    <2>1. /\ UNCHANGED <<call, pc, out, sent, resp, done, gone, expired>>
          /\ handle.completed => handle'.completed
      BY <1>0, <1>2 DEF Loaded, Accept, End, PublishCompleted, ApplyCancel, Drain, Leftovers,
         FailAll, Unbind, Completed, HandleShape, Places, local
    <2> QED
      BY <2>1 DEF Wholly
  <1>3. CASE DeadlinePasses \/ ClientLeaves
    BY <1>0, <1>3 DEF DeadlinePasses, ClientLeaves, Wholly, worker, local
  <1>4. CASE Delta
    <2>1. UNCHANGED <<call, out, handle, resp, done, gone, expired>> /\ pc = "text"
      BY <1>4 DEF Delta, worker, local
    <2>2. ASSUME call.route = "openai_stream", call.stops = {}
          PROVE  /\ sent' = Decode(out) /\ pc' = "yielded" /\ IsPrefix(sent', Decode(out))
      <3>1. sent' = Decode(out) /\ pc' = "yielded"
        BY <1>4, <2>2, DeltaWhole
      <3>2. Decode(out) \in Seq(Char)
        BY CutOfOutput DEF ApiInv
      <3> QED
        BY <3>1, <3>2, PrefixSelf
    <2> QED
      BY <2>1, <2>2 DEF Wholly
  <1>5. CASE Yielded
    BY <1>0, <1>5 DEF Yielded, Over, FinishReason, Wholly, worker, local
  <1>6. CASE StreamTop
    BY <1>0, <1>6 DEF StreamTop, Over, Wholly, worker, None, Unsaid
  <1>7. CASE StreamClosed
    BY <1>0, <1>7 DEF StreamClosed, Wholly, worker, local
  <1>8. CASE Enter \/ Validate \/ Put \/ Register
    BY <1>0, <1>8 DEF Enter, Validate, Put, Register, Respond, Refuse, RespShape, Wholly, worker,
       local, Unsaid, None, Waits
  <1>9. CASE Answer \/ Admitted \/ EventsTop \/ Push \/ Closing \/ Collect
    <2>1. call.route # "openai_stream" /\ UNCHANGED call
      BY <1>0, <1>9 DEF Answer, Admitted, EventsTop, Push, Closing, Collect, Waits
    <2> QED
      BY <2>1 DEF Wholly
  <1>10. CASE UNCHANGED vars
    BY <1>10 DEF vars, Wholly
  <1> QED
    BY <1>1, <1>2, <1>3, <1>4, <1>5, <1>6, <1>7, <1>8, <1>9, <1>10
    DEF Next, Worker, Handler

\* An OpenAI stream without stop strings that ends because the request completed has sent
\* all of the text, as long as no token is half a character.
THEOREM StreamsWhole ==
    ASSUME TextIsFinal
    PROVE  Spec => []StreamIsWhole
  <1>1. Init => Wholly
    <2>1. ASSUME Init PROVE IsPrefix(sent, Decode(out))
      <3>1. sent = <<>> /\ Decode(out) \in Seq(Char)
        BY <2>1, InitOK, CutOfOutput DEF ApiInv, Init
      <3> QED
        BY <3>1, PrefixSelf
    <2> QED
      BY <2>1 DEF Init, Wholly
  <1>2. ApiInv /\ Wholly /\ [Next]_vars => Wholly'
    BY WhollyKept
  <1>3. Wholly => StreamIsWhole
    BY DEF Wholly, StreamIsWhole
  <1> QED
    BY <1>1, <1>2, <1>3, ApiInductive, PTL DEF Spec

=============================================================================
