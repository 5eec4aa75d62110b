------------------------- MODULE AsyncEngineProofs -------------------------
(***************************************************************************)
(* Proofs about the engine thread and its event loop, for every set of     *)
(* requests, every answer and bound of tokens, and every capacity.         *)
(***************************************************************************)
EXTENDS AsyncEngine, SequenceFacts

-----------------------------------------------------------------------------
(* The inductive invariant.                                                *)

Tok == UNION {Range(Answer[r]) : r \in Requests}

(* A prefix of the answer of r. *)
UpTo(r, n) == SubSeq(Answer[r], 1, n)

Reasons == {"length", "stop", "cancelled"}

Events ==
  [type : {"chunk"}, ids : Seq(Tok)] \cup [type : {"done"}, reason : Reasons, ids : Seq(Tok)]

Calls == [id : Requests, event : Events]

Messages == [op : {"stop"}] \cup [op : {"add", "cancel"}, id : Requests]

EngineTypes ==
  /\ queue \in Seq(Requests) /\ running \subseteq Requests /\ DOMAIN finished \subseteq Requests
  /\ output \in [Requests -> Seq(Tok)] /\ todo \subseteq running
  /\ inbox \in Seq(Messages) /\ calls \in Seq(Calls)
  /\ handles \in Seq(Requests) /\ sent \in [Requests -> Nat]
  /\ events \in [Requests -> Seq(Events)] /\ text \in [Requests -> Seq(Tok)]
  /\ DOMAIN done = Requests
  /\ asked \in [Requests -> Nat] /\ starts \in Nat
  /\ started \in BOOLEAN /\ stopping \in Nat /\ stale \in Nat

(* Where a request is, by the scheduler's book and by the engine's. *)
Books ==
  /\ Distinct(queue) /\ Distinct(handles)
  /\ Range(handles) = Range(queue) \cup running \cup DOMAIN finished
  /\ Range(queue) \cap running = {} /\ Range(queue) \cap DOMAIN finished = {}
  /\ running \cap DOMAIN finished = {}
  /\ dropped \subseteq DOMAIN finished

(* The thread and the step it calls; a thread that ended of its own accord *)
(* left nothing open. *)
Threads ==
  /\ thread \in {"drain", "step", "publish", "ended"}
  /\ thread \in {"drain", "publish"} => phase = "idle"
  /\ thread = "step" <=> phase = "step"
  /\ phase \in {"idle", "step", "raised"} /\ (phase # "step" => todo = {})
  /\ thread = "ended" /\ phase = "idle" => handles = <<>>
  /\ started => starts > 0

(* What each request has emitted and recorded, and what of it is sent. *)
Outputs ==
  /\ \A r \in Requests : Len(output[r]) <= Len(Answer[r]) /\ output[r] = UpTo(r, Len(output[r]))
  /\ \A r \in Range(queue) : output[r] = <<>> /\ sent[r] = 0
  /\ \A r \in Range(handles) : sent[r] <= Len(output[r])
  /\ \A r \in DOMAIN finished :
       finished[r] = output[r] /\ (r \notin dropped => output[r] = Answer[r])
  /\ thread = "drain" => \A r \in running \cup DOMAIN finished : sent[r] = Len(output[r])

(* A request that the thread has not heard of. *)
Unheard(r) == r \notin submitted \/ [op |-> "add", id |-> r] \in Range(inbox)

(* A stop has come. *)
Cut == starts > 1 \/ (starts = 1 /\ (stopping > 0 \/ ~ started))

(* What the inbox says is true, ... *)
InboxTrue ==
  \A i \in 1 .. Len(inbox) :
    /\ inbox[i].op = "add" => inbox[i].id \in submitted
    /\ inbox[i].op = "cancel" => asked[inbox[i].id] > 0
    /\ inbox[i].op = "stop" => Cut

(* ... and said once of an add; a stop may be there for each stop(). *)
InboxOnce ==
  \A i, j \in 1 .. Len(inbox) : inbox[i] = inbox[j] /\ inbox[i].op = "add" => i = j

Inboxes ==
  /\ InboxTrue /\ InboxOnce
  /\ \A r \in Requests : Unheard(r) => r \notin Range(handles) /\ output[r] = <<>>
  /\ \A r \in dropped : asked[r] > 0

(* What the consumer of r may be told. *)
Told(r) ==
  IF r \in submitted
  THEN {"chunk", "length", "stop"} \cup IF asked[r] > 0 \/ Cut THEN {"cancelled"} ELSE {}
  ELSE {}

TrueReason(r, reason, ids, may) ==
  /\ reason \in may
  /\ \/ reason = "length" /\ ids = Answer[r] /\ Len(Answer[r]) = MaxTokens[r]
     \/ /\ reason = "stop" /\ ids = Answer[r]
        /\ Len(Answer[r]) < MaxTokens[r] \/ MaxTokens[r] = 0
     \/ reason = "cancelled"

(* The event takes a reader of r who has a tokens of its answer to b. *)
Takes(ev, r, a, b, may) ==
  \/ /\ ev.type = "chunk" /\ "chunk" \in may
     /\ a < b /\ ev.ids = SubSeq(Answer[r], a + 1, b)
  \/ /\ ev.type = "done" /\ a = b
     /\ ev.ids = UpTo(r, a) /\ TrueReason(r, ev.reason, ev.ids, may)

(* ... and a queue of events, or the callbacks still to run, do, with e[i] *)
(* tokens after i of them. *)
EventSteps(e, evs, r, a, b, may) ==
  /\ e \in [0 .. Len(evs) -> 0 .. Len(Answer[r])]
  /\ e[0] = a /\ e[Len(evs)] = b
  /\ \A i \in 1 .. Len(evs) : Takes(evs[i], r, e[i - 1], e[i], may)

EventsTake(evs, r, a, b, may) == \E e : EventSteps(e, evs, r, a, b, may)

CallTakes(c, r, a, b, may) == IF c.id = r THEN Takes(c.event, r, a, b, may) ELSE a = b

CallSteps(e, q, r, a, b, may) ==
  /\ e \in [0 .. Len(q) -> 0 .. Len(Answer[r])]
  /\ e[0] = a /\ e[Len(q)] = b
  /\ \A i \in 1 .. Len(q) : CallTakes(q[i], r, e[i - 1], e[i], may)

CallsTake(q, r, a, b, may) == \E e : CallSteps(e, q, r, a, b, may)

(* What the consumer of r has yet to see follows what it has seen, up to   *)
(* what the thread has sent. *)
Delivery(r) ==
  /\ Len(text[r]) <= Len(Answer[r]) /\ text[r] = UpTo(r, Len(text[r]))
  /\ done[r] # NoDone => TrueReason(r, done[r].reason, done[r].ids, Told(r))
  /\ \E m, b \in 0 .. Len(Answer[r]) :
       /\ EventsTake(events[r], r, Len(text[r]), m, Told(r))
       /\ CallsTake(calls, r, m, b, Told(r))
       /\ r \in Range(handles) => b = sent[r]
       /\ Unheard(r) => b = 0

EInv ==
  /\ EngineTypes
  /\ Books
  /\ Threads
  /\ Outputs
  /\ Inboxes
  /\ \A r \in Requests : Delivery(r)

-----------------------------------------------------------------------------
(* Answers, and what is left of them.                                      *)

LEMMA AnswerTypes ==
  ASSUME NEW r \in Requests
  PROVE  /\ Answer[r] \in Seq(Tok) /\ Len(Answer[r]) \in Nat
         /\ MaxTokens[r] \in Nat /\ Len(Answer[r]) <= MaxTokens[r]
<1>1. Answer[r] \in Seq(Range(Answer[r]))
  BY EngineAssumption
<1>2. Range(Answer[r]) \subseteq Tok
  BY DEF Tok
<1>3. \A i \in 1 .. Len(Answer[r]) : Answer[r][i] \in Tok
  BY <1>1, <1>2
<1>. QED
  BY <1>1, <1>3, EngineAssumption

LEMMA PrefixTypes ==
  ASSUME NEW r \in Requests, NEW n \in 0 .. Len(Answer[r])
  PROVE  /\ UpTo(r, n) \in Seq(Tok) /\ Len(UpTo(r, n)) = n
         /\ \A i \in 1 .. n : UpTo(r, n)[i] = Answer[r][i]
         /\ UpTo(r, 0) = <<>> /\ UpTo(r, Len(Answer[r])) = Answer[r]
<1>1. Answer[r] \in Seq(Tok) /\ Len(Answer[r]) \in Nat
  BY AnswerTypes
<1>2. PICK s \in Seq(Tok) : s = Answer[r]
  BY <1>1
<1>3. /\ SubSeq(s, 1, n) \in Seq(Tok) /\ Len(SubSeq(s, 1, n)) = n
      /\ \A i \in 1 .. n : SubSeq(s, 1, n)[i] = s[i]
  BY <1>2
<1>4. SubSeq(s, 1, 0) = <<>>
  OBVIOUS
<1>5. SubSeq(s, 1, Len(s)) = s
  <2>1. /\ SubSeq(s, 1, Len(s)) \in Seq(Tok) /\ Len(SubSeq(s, 1, Len(s))) = Len(s)
        /\ \A i \in 1 .. Len(s) : SubSeq(s, 1, Len(s))[i] = s[i]
    OBVIOUS
  <2>. QED
    BY <2>1, SeqEqual
<1>. QED
  BY <1>2, <1>3, <1>4, <1>5 DEF UpTo

(* What a slice of a sequence is. *)
LEMMA Slice ==
  ASSUME NEW S, NEW s \in Seq(S), NEW b \in 0 .. Len(s), NEW a \in 0 .. b,
         NEW m \in Nat, m = b - a
  PROVE  /\ SubSeq(s, a + 1, b) \in Seq(S)
         /\ Len(SubSeq(s, a + 1, b)) = m
         /\ \A i \in 1 .. m : SubSeq(s, a + 1, b)[i] = s[a + i]
<1>1. PICK k \in Nat : k = a + 1
  OBVIOUS
<1>2. b \in Nat /\ \A i \in k .. b : s[i] \in S
  BY <1>1
<1>3. /\ SubSeq(s, k, b) \in Seq(S)
      /\ Len(SubSeq(s, k, b)) = IF k <= b THEN b - k + 1 ELSE 0
      /\ \A i \in 1 .. b - k + 1 : SubSeq(s, k, b)[i] = s[k + i - 1]
  BY <1>2, SubSeqProperties
<1>4. (IF k <= b THEN b - k + 1 ELSE 0) = m /\ b - k + 1 = m
  BY <1>1, <1>2
<1>5. PICK t : t = SubSeq(s, k, b)
  OBVIOUS
<1>6. ASSUME NEW i \in 1 .. m PROVE t[i] = s[a + i]
  <2>1. t[i] = s[k + i - 1]
    BY <1>3, <1>4, <1>5
  <2>2. k + i - 1 = a + i
    BY <1>1
  <2>. QED
    BY <2>1, <2>2
<1>7. t \in Seq(S) /\ Len(t) = m /\ t = SubSeq(s, a + 1, b)
  BY <1>1, <1>3, <1>4, <1>5
<1>. QED
  BY <1>6, <1>7

(* A prefix and what follows it. *)
LEMMA Continues ==
  ASSUME NEW r \in Requests, NEW b \in 0 .. Len(Answer[r]), NEW a \in 0 .. b
  PROVE  /\ UpTo(r, a) \o SubSeq(Answer[r], a + 1, b) = UpTo(r, b)
         /\ SubSeq(UpTo(r, b), a + 1, b) = SubSeq(Answer[r], a + 1, b)
         /\ SubSeq(Answer[r], a + 1, b) \in Seq(Tok)
<1>1. Answer[r] \in Seq(Tok) /\ Len(Answer[r]) \in Nat
  BY AnswerTypes
<1>2. PICK s \in Seq(Tok) : s = Answer[r]
  BY <1>1
<1>3. PICK m \in Nat : m = b - a
  OBVIOUS
<1>4. a \in 0 .. Len(Answer[r])
  BY <1>1
<1>5. PICK p \in Seq(Tok) : p = UpTo(r, a) /\ Len(p) = a /\ \A i \in 1 .. a : p[i] = s[i]
  BY <1>2, <1>4, PrefixTypes
<1>6. PICK q \in Seq(Tok) : q = UpTo(r, b) /\ Len(q) = b /\ \A i \in 1 .. b : q[i] = s[i]
  BY <1>2, PrefixTypes
<1>7. PICK t \in Seq(Tok) :
        t = SubSeq(s, a + 1, b) /\ Len(t) = m /\ \A i \in 1 .. m : t[i] = s[a + i]
  <2>1. b \in 0 .. Len(s) /\ a \in 0 .. b
    BY <1>2
  <2>2. /\ SubSeq(s, a + 1, b) \in Seq(Tok) /\ Len(SubSeq(s, a + 1, b)) = m
        /\ \A i \in 1 .. m : SubSeq(s, a + 1, b)[i] = s[a + i]
    BY <1>3, <2>1, Slice
  <2>3. PICK t : t = SubSeq(s, a + 1, b)
    OBVIOUS
  <2>. QED
    BY <2>2, <2>3
<1>8. p \o t = q
  <2>1. /\ p \o t \in Seq(Tok) /\ Len(p \o t) = a + m
        /\ \A i \in 1 .. a : (p \o t)[i] = p[i]
        /\ \A i \in a + 1 .. a + m : (p \o t)[i] = t[i - a]
    <3>1. /\ p \o t \in Seq(Tok) /\ Len(p \o t) = Len(p) + Len(t)
          /\ \A i \in 1 .. Len(p) : (p \o t)[i] = p[i]
          /\ \A i \in Len(p) + 1 .. Len(p) + Len(t) : (p \o t)[i] = t[i - Len(p)]
      BY ConcatSeq
    <3>2. Len(p) = a /\ Len(t) = m
      BY <1>5, <1>7
    <3>. QED
      BY <3>1, <3>2
  <2>2. ASSUME NEW i \in 1 .. b PROVE (p \o t)[i] = q[i]
    <3>1. i \in 1 .. a \/ (i \in a + 1 .. a + m /\ i - a \in 1 .. m /\ a + (i - a) = i)
      BY <1>3
    <3>. QED
      BY <1>5, <1>6, <1>7, <2>1, <3>1
  <2>3. Len(p \o t) = b
    BY <1>3, <2>1
  <2>. QED
    BY <1>6, <2>1, <2>2, <2>3, SeqEqual
<1>9. SubSeq(q, a + 1, b) = t
  <2>1. b \in 0 .. Len(q) /\ a \in 0 .. b
    BY <1>1, <1>6
  <2>2. PICK u : u = SubSeq(q, a + 1, b)
    OBVIOUS
  <2>3. u \in Seq(Tok) /\ Len(u) = m /\ \A i \in 1 .. m : u[i] = q[a + i]
    BY <1>3, <2>1, <2>2, Slice
  <2>4. ASSUME NEW i \in 1 .. m PROVE u[i] = t[i]
    <3>1. a + i \in 1 .. b
      BY <1>3
    <3>2. u[i] = q[a + i] /\ q[a + i] = s[a + i] /\ t[i] = s[a + i]
      BY <1>6, <1>7, <2>3, <3>1
    <3>. QED
      BY <3>2
  <2>. QED
    BY <1>7, <2>2, <2>3, <2>4, SeqEqual
<1>. QED
  BY <1>2, <1>5, <1>6, <1>7, <1>8, <1>9

-----------------------------------------------------------------------------
(* Events and callbacks that follow each other.                            *)

(* What may be told stays told. *)
LEMMA StillTaken ==
  ASSUME NEW r, NEW may, NEW more, may \subseteq more
  PROVE  /\ \A reason, ids : TrueReason(r, reason, ids, may) => TrueReason(r, reason, ids, more)
         /\ \A evs, a, b : EventsTake(evs, r, a, b, may) => EventsTake(evs, r, a, b, more)
         /\ \A q, a, b : CallsTake(q, r, a, b, may) => CallsTake(q, r, a, b, more)
<1>1. \A reason, ids : TrueReason(r, reason, ids, may) => TrueReason(r, reason, ids, more)
  BY DEF TrueReason
<1>2. \A ev, a, b : Takes(ev, r, a, b, may) => Takes(ev, r, a, b, more)
  BY <1>1 DEF Takes
<1>3. \A c, a, b : CallTakes(c, r, a, b, may) => CallTakes(c, r, a, b, more)
  BY <1>2 DEF CallTakes
<1>4. \A e, evs, a, b : EventSteps(e, evs, r, a, b, may) => EventSteps(e, evs, r, a, b, more)
  BY <1>2, Zenon DEF EventSteps
<1>5. \A e, q, a, b : CallSteps(e, q, r, a, b, may) => CallSteps(e, q, r, a, b, more)
  BY <1>3, Zenon DEF CallSteps
<1>. QED
  BY <1>1, <1>4, <1>5, Zenon DEF EventsTake, CallsTake

(* Nothing to take. *)
LEMMA NothingTaken ==
  ASSUME NEW r \in Requests, NEW a \in 0 .. Len(Answer[r]), NEW may
  PROVE  EventsTake(<<>>, r, a, a, may) /\ CallsTake(<<>>, r, a, a, may)
<1>1. EventSteps([i \in 0 .. 0 |-> a], <<>>, r, a, a, may)
  BY DEF EventSteps
<1>2. CallSteps([i \in 0 .. 0 |-> a], <<>>, r, a, a, may)
  BY DEF CallSteps
<1>. QED
  BY <1>1, <1>2 DEF EventsTake, CallsTake

(* Callbacks none of which gets further. *)
LEMMA CallsStay ==
  ASSUME NEW r \in Requests, NEW a \in 0 .. Len(Answer[r]), NEW may, NEW S, NEW q \in Seq(S),
         \A i \in 1 .. Len(q) : CallTakes(q[i], r, a, a, may)
  PROVE  CallsTake(q, r, a, a, may)
<1>0. PICK n \in Nat : n = Len(q)
  OBVIOUS
<1>1. CallSteps([i \in 0 .. n |-> a], q, r, a, a, may)
  <2>1. \A i \in 1 .. n : i - 1 \in 0 .. n
    OBVIOUS
  <2>. QED
    BY <1>0, <2>1 DEF CallSteps
<1>. QED
  BY <1>1 DEF CallsTake

(* An event more. *)
LEMMA EventsAppend ==
  ASSUME NEW r \in Requests, NEW a, NEW m, NEW b \in 0 .. Len(Answer[r]), NEW may,
         NEW S, NEW evs \in Seq(S), NEW ev \in S,
         EventsTake(evs, r, a, m, may), Takes(ev, r, m, b, may)
  PROVE  EventsTake(Append(evs, ev), r, a, b, may)
<1>0. PICK n \in Nat : n = Len(evs)
  OBVIOUS
<1>1. PICK e : EventSteps(e, evs, r, a, m, may)
  BY DEF EventsTake
<1>2. PICK t : t = Append(evs, ev)
  OBVIOUS
<1>3. Len(t) = n + 1 /\ t[n + 1] = ev /\ \A i \in 1 .. n : t[i] = evs[i]
  BY <1>0, <1>2, AppendElements
<1>4. /\ e \in [0 .. n -> 0 .. Len(Answer[r])] /\ e[0] = a /\ e[n] = m
      /\ \A i \in 1 .. n : Takes(evs[i], r, e[i - 1], e[i], may)
  BY <1>0, <1>1 DEF EventSteps
<1>. DEFINE f == [i \in 0 .. n + 1 |-> IF i = n + 1 THEN b ELSE e[i]]
<1>5. /\ f \in [0 .. n + 1 -> 0 .. Len(Answer[r])] /\ f[0] = a /\ f[n + 1] = b /\ f[n] = m
      /\ \A i \in 1 .. n : f[i] = e[i] /\ f[i - 1] = e[i - 1]
  BY <1>4
<1>. HIDE DEF f
<1>6. ASSUME NEW i \in 1 .. n + 1 PROVE Takes(t[i], r, f[i - 1], f[i], may)
  <2>1. CASE i = n + 1
    <3>1. i - 1 = n
      BY <2>1
    <3>. QED
      BY <1>3, <1>5, <2>1, <3>1
  <2>2. CASE i # n + 1
    <3>1. i \in 1 .. n
      BY <2>2
    <3>2. Takes(evs[i], r, e[i - 1], e[i], may) /\ t[i] = evs[i]
      BY <1>3, <1>4, <3>1
    <3>. QED
      BY <1>5, <3>1, <3>2
  <2>. QED
    BY <2>1, <2>2
<1>7. EventSteps(f, t, r, a, b, may)
  BY <1>3, <1>5, <1>6, Zenon DEF EventSteps
<1>. QED
  BY <1>2, <1>7, Zenon DEF EventsTake

(* The first event, and the others. *)
LEMMA EventsHead ==
  ASSUME NEW r \in Requests, NEW a, NEW b, NEW may, NEW S, NEW evs \in Seq(S), evs # <<>>,
         EventsTake(evs, r, a, b, may)
  PROVE  \E m \in 0 .. Len(Answer[r]) :
           Takes(Head(evs), r, a, m, may) /\ EventsTake(Tail(evs), r, m, b, may)
<1>1. PICK e : EventSteps(e, evs, r, a, b, may)
  BY DEF EventsTake
<1>2. PICK t : t = Tail(evs)
  OBVIOUS
<1>3. Len(evs) \in Nat /\ Len(t) = Len(evs) - 1 /\ Len(evs) > 0 /\ Head(evs) = evs[1]
      /\ \A i \in 1 .. Len(evs) - 1 : t[i] = evs[i + 1]
  BY <1>2, TailElements
<1>4. PICK n \in Nat : Len(evs) = n + 1 /\ Len(t) = n
  BY <1>3
<1>5. /\ e \in [0 .. n + 1 -> 0 .. Len(Answer[r])] /\ e[0] = a /\ e[n + 1] = b
      /\ \A i \in 1 .. n + 1 : Takes(evs[i], r, e[i - 1], e[i], may)
  BY <1>1, <1>4, Zenon DEF EventSteps
<1>. DEFINE f == [i \in 0 .. n |-> e[i + 1]]
<1>6. /\ f \in [0 .. n -> 0 .. Len(Answer[r])] /\ f[0] = e[1] /\ f[n] = b
      /\ \A i \in 1 .. n : f[i] = e[i + 1] /\ f[i - 1] = e[i]
  BY <1>5
<1>. HIDE DEF f
<1>7. ASSUME NEW i \in 1 .. n PROVE Takes(t[i], r, f[i - 1], f[i], may)
  <2>1. PICK k \in 1 .. n + 1 : k = i + 1 /\ k - 1 = i
    OBVIOUS
  <2>2. t[i] = evs[k]
    BY <1>3, <1>4, <2>1
  <2>3. Takes(evs[k], r, e[k - 1], e[k], may)
    BY <1>5
  <2>. QED
    BY <1>6, <2>1, <2>2, <2>3
<1>8. EventSteps(f, t, r, e[1], b, may)
  BY <1>4, <1>6, <1>7, Zenon DEF EventSteps
<1>9. Takes(Head(evs), r, a, e[1], may) /\ e[1] \in 0 .. Len(Answer[r])
  <2>1. PICK k \in 1 .. n + 1 : k = 1 /\ k - 1 = 0
    OBVIOUS
  <2>2. Takes(evs[k], r, e[k - 1], e[k], may)
    BY <1>5
  <2>. QED
    BY <1>3, <1>5, <2>1, <2>2
<1>. QED
  BY <1>2, <1>8, <1>9, Zenon DEF EventsTake

(* The first callback, and the others. *)
LEMMA CallsHead ==
  ASSUME NEW r \in Requests, NEW a, NEW b, NEW may, NEW S, NEW q \in Seq(S), q # <<>>,
         CallsTake(q, r, a, b, may)
  PROVE  \E m \in 0 .. Len(Answer[r]) :
           CallTakes(Head(q), r, a, m, may) /\ CallsTake(Tail(q), r, m, b, may)
<1>1. PICK e : CallSteps(e, q, r, a, b, may)
  BY DEF CallsTake
<1>2. PICK t : t = Tail(q)
  OBVIOUS
<1>3. Len(q) \in Nat /\ Len(t) = Len(q) - 1 /\ Len(q) > 0 /\ Head(q) = q[1]
      /\ \A i \in 1 .. Len(q) - 1 : t[i] = q[i + 1]
  BY <1>2, TailElements
<1>4. PICK n \in Nat : Len(q) = n + 1 /\ Len(t) = n
  BY <1>3
<1>5. /\ e \in [0 .. n + 1 -> 0 .. Len(Answer[r])] /\ e[0] = a /\ e[n + 1] = b
      /\ \A i \in 1 .. n + 1 : CallTakes(q[i], r, e[i - 1], e[i], may)
  BY <1>1, <1>4, Zenon DEF CallSteps
<1>. DEFINE f == [i \in 0 .. n |-> e[i + 1]]
<1>6. /\ f \in [0 .. n -> 0 .. Len(Answer[r])] /\ f[0] = e[1] /\ f[n] = b
      /\ \A i \in 1 .. n : f[i] = e[i + 1] /\ f[i - 1] = e[i]
  BY <1>5
<1>. HIDE DEF f
<1>7. ASSUME NEW i \in 1 .. n PROVE CallTakes(t[i], r, f[i - 1], f[i], may)
  <2>1. PICK k \in 1 .. n + 1 : k = i + 1 /\ k - 1 = i
    OBVIOUS
  <2>2. t[i] = q[k]
    BY <1>3, <1>4, <2>1
  <2>3. CallTakes(q[k], r, e[k - 1], e[k], may)
    BY <1>5
  <2>. QED
    BY <1>6, <2>1, <2>2, <2>3
<1>8. CallSteps(f, t, r, e[1], b, may)
  BY <1>4, <1>6, <1>7, Zenon DEF CallSteps
<1>9. CallTakes(Head(q), r, a, e[1], may) /\ e[1] \in 0 .. Len(Answer[r])
  <2>1. PICK k \in 1 .. n + 1 : k = 1 /\ k - 1 = 0
    OBVIOUS
  <2>2. CallTakes(q[k], r, e[k - 1], e[k], may)
    BY <1>5
  <2>. QED
    BY <1>3, <1>5, <2>1, <2>2
<1>. QED
  BY <1>2, <1>8, <1>9, Zenon DEF CallsTake

(* Callbacks after others. *)
LEMMA CallsConcat ==
  ASSUME NEW r \in Requests, NEW a, NEW m, NEW b, NEW may,
         NEW S, NEW q \in Seq(S), NEW p \in Seq(S),
         CallsTake(q, r, a, m, may), CallsTake(p, r, m, b, may)
  PROVE  CallsTake(q \o p, r, a, b, may)
<1>0. PICK n \in Nat, l \in Nat : n = Len(q) /\ l = Len(p)
  OBVIOUS
<1>1. PICK e : CallSteps(e, q, r, a, m, may)
  BY DEF CallsTake
<1>2. PICK f : CallSteps(f, p, r, m, b, may)
  BY DEF CallsTake
<1>3. /\ e \in [0 .. n -> 0 .. Len(Answer[r])] /\ e[0] = a /\ e[n] = m
      /\ \A i \in 1 .. n : CallTakes(q[i], r, e[i - 1], e[i], may)
  BY <1>0, <1>1 DEF CallSteps
<1>4. /\ f \in [0 .. l -> 0 .. Len(Answer[r])] /\ f[0] = m /\ f[l] = b
      /\ \A i \in 1 .. l : CallTakes(p[i], r, f[i - 1], f[i], may)
  BY <1>0, <1>2 DEF CallSteps
<1>5. PICK t : t = q \o p
  OBVIOUS
<1>6. /\ Len(t) = n + l /\ \A i \in 1 .. n : t[i] = q[i]
      /\ \A i \in n + 1 .. n + l : t[i] = p[i - n]
  BY <1>0, <1>5, ConcatSeq
<1>. DEFINE g == [i \in 0 .. n + l |-> IF i <= n THEN e[i] ELSE f[i - n]]
<1>7. /\ g \in [0 .. n + l -> 0 .. Len(Answer[r])]
      /\ \A i \in 0 .. n : g[i] = e[i]
      /\ \A i \in 0 .. l : g[n + i] = f[i]
  <2>1. \A i \in 0 .. n + l : i <= n => i \in 0 .. n
    OBVIOUS
  <2>2. \A i \in 0 .. n + l : ~(i <= n) => i - n \in 0 .. l
    OBVIOUS
  <2>3. \A i \in 0 .. n : i \in 0 .. n + l /\ i <= n
    OBVIOUS
  <2>4. ASSUME NEW i \in 0 .. l PROVE g[n + i] = f[i]
    <3>1. n + i \in 0 .. n + l /\ (i # 0 => ~(n + i <= n) /\ n + i - n = i)
      OBVIOUS
    <3>2. CASE i = 0
      BY <1>3, <1>4, <3>1, <3>2
    <3>3. CASE i # 0
      BY <3>1, <3>3
    <3>. QED
      BY <3>2, <3>3
  <2>. QED
    BY <1>3, <1>4, <2>1, <2>2, <2>3, <2>4
<1>. HIDE DEF g
<1>8. ASSUME NEW i \in 1 .. n + l PROVE CallTakes(t[i], r, g[i - 1], g[i], may)
  <2>1. CASE i <= n
    <3>1. i \in 1 .. n /\ i - 1 \in 0 .. n /\ i \in 0 .. n
      BY <2>1
    <3>2. t[i] = q[i] /\ g[i - 1] = e[i - 1] /\ g[i] = e[i]
      BY <1>6, <1>7, <3>1
    <3>. QED
      BY <1>3, <3>1, <3>2
  <2>2. CASE ~(i <= n)
    <3>1. PICK k \in 1 .. l : k = i - n
      BY <2>2
    <3>2. i = n + k /\ i - 1 = n + (k - 1) /\ k \in 0 .. l /\ k - 1 \in 0 .. l
      BY <3>1
    <3>3. t[i] = p[k] /\ g[i] = f[k] /\ g[i - 1] = f[k - 1]
      BY <1>6, <1>7, <2>2, <3>1, <3>2
    <3>. QED
      BY <1>4, <3>3
  <2>. QED
    BY <2>1, <2>2
<1>9. CallSteps(g, t, r, a, b, may)
  <2>1. g[0] = a /\ g[n + l] = b
    BY <1>3, <1>4, <1>7
  <2>. QED
    BY <1>6, <1>7, <1>8, <2>1, Zenon DEF CallSteps
<1>. QED
  BY <1>5, <1>9, Zenon DEF CallsTake

-----------------------------------------------------------------------------
(* What the thread hands to the event loop.                                *)

(* Callbacks that deliver the events evs to h. *)
Deliver(h, evs) == [k \in DOMAIN evs |-> [id |-> h, event |-> evs[k]]]

LEMMA DeliverTypes ==
  ASSUME NEW h \in Requests, NEW evs \in Seq(Events)
  PROVE  /\ Deliver(h, evs) \in Seq(Calls) /\ Len(Deliver(h, evs)) = Len(evs)
         /\ \A i \in 1 .. Len(evs) : Deliver(h, evs)[i].id = h /\ Deliver(h, evs)[i].event = evs[i]
<1>0. PICK n \in Nat : n = Len(evs) /\ DOMAIN evs = 1 .. n /\ \A i \in 1 .. n : evs[i] \in Events
  OBVIOUS
<1>1. PICK q : q = Deliver(h, evs)
  OBVIOUS
<1>2. \A i \in 1 .. n : [id |-> h, event |-> evs[i]] \in Calls
  BY <1>0 DEF Calls
<1>3. q \in [1 .. n -> Calls] /\ \A i \in 1 .. n : q[i].id = h /\ q[i].event = evs[i]
  BY <1>0, <1>1, <1>2 DEF Deliver
<1>4. q \in Seq(Calls) /\ Len(q) = n
  BY <1>3
<1>. QED
  BY <1>0, <1>1, <1>3, <1>4

LEMMA DeliverTakes ==
  ASSUME NEW r \in Requests, NEW h \in Requests, NEW evs \in Seq(Events),
         NEW a \in 0 .. Len(Answer[r]), NEW b \in 0 .. Len(Answer[r]), NEW may,
         IF h = r THEN EventsTake(evs, r, a, b, may) ELSE a = b
  PROVE  CallsTake(Deliver(h, evs), r, a, b, may)
<1>0. PICK n \in Nat : n = Len(evs)
  BY LenProperties
<1>1. PICK q : q = Deliver(h, evs)
  OBVIOUS
<1>3. /\ q \in Seq(Calls) /\ Len(q) = n
      /\ \A i \in 1 .. n : q[i].id = h /\ q[i].event = evs[i]
  BY <1>0, <1>1, DeliverTypes
<1>5. CASE h # r
  <2>1. \A i \in 1 .. n : CallTakes(q[i], r, a, a, may)
    BY <1>3, <1>5 DEF CallTakes
  <2>. QED
    BY <1>1, <1>3, <1>5, <2>1, CallsStay
<1>6. CASE h = r
  <2>1. PICK e : EventSteps(e, evs, r, a, b, may)
    BY <1>6 DEF EventsTake
  <2>2. \A i \in 1 .. n : Takes(evs[i], r, e[i - 1], e[i], may)
    BY <1>0, <2>1, Zenon DEF EventSteps
  <2>3. \A i \in 1 .. n : CallTakes(q[i], r, e[i - 1], e[i], may)
    BY <1>3, <1>6, <2>2 DEF CallTakes
  <2>4. CallSteps(e, q, r, a, b, may)
    BY <1>0, <1>3, <2>1, <2>3, Zenon DEF EventSteps, CallSteps
  <2>. QED
    BY <1>1, <2>4, Zenon DEF CallsTake
<1>. QED
  BY <1>5, <1>6

LEMMA FlattenTypes ==
  ASSUME NEW N \in Nat, NEW w \in [1 .. N -> Seq(Calls)]
  PROVE  FlattenSeq(w) \in Seq(Calls)
<1>1. PICK f : PutTogether(f, Calls, N, w) /\ f[N] = FlattenSeq(w)
  BY FlattenSteps
<1>. QED
  BY <1>1 DEF PutTogether

(* The callbacks of several handles, of which at most one is r. *)
LEMMA FlattenTakes ==
  ASSUME NEW r \in Requests, NEW a \in 0 .. Len(Answer[r]), NEW b \in 0 .. Len(Answer[r]), NEW may,
         NEW hs \in Seq(Requests), Distinct(hs), NEW w \in [1 .. Len(hs) -> Seq(Calls)],
         \A i \in 1 .. Len(hs) :
           IF hs[i] = r THEN CallsTake(w[i], r, a, b, may)
           ELSE \A c \in 0 .. Len(Answer[r]) : CallsTake(w[i], r, c, c, may)
  PROVE  CallsTake(FlattenSeq(w), r, a, IF r \in Range(hs) THEN b ELSE a, may)
<1>0. PICK N \in Nat : N = Len(hs)
  OBVIOUS
<1>1. PICK f : PutTogether(f, Calls, N, w) /\ f[N] = FlattenSeq(w)
  BY <1>0, FlattenSteps
<1>2. /\ f \in [0 .. N -> Seq(Calls)] /\ f[0] = <<>>
      /\ \A i \in 1 .. N : f[i] = f[i - 1] \o w[i]
  BY <1>1, Zenon DEF PutTogether
<1>. DEFINE Met(i) == \E k \in 1 .. i : hs[k] = r
            At(i) == IF Met(i) THEN b ELSE a
            Q == {i \in Nat : i <= N => CallsTake(f[i], r, a, At(i), may)}
<1>3. 0 \in Q
  <2>1. At(0) = a
    OBVIOUS
  <2>2. CallsTake(<<>>, r, a, a, may)
    BY NothingTaken
  <2>. HIDE DEF At
  <2>. QED
    BY <1>2, <2>1, <2>2
<1>4. ASSUME NEW i \in Nat, i \in Q PROVE i + 1 \in Q
  <2>. SUFFICES ASSUME i + 1 <= N PROVE CallsTake(f[i + 1], r, a, At(i + 1), may)
    OBVIOUS
  <2>1. PICK j \in 1 .. N : j = i + 1 /\ j - 1 = i
    OBVIOUS
  <2>2. f[j] = f[i] \o w[j] /\ f[i] \in Seq(Calls) /\ w[j] \in Seq(Calls)
    <3>1. i \in 0 .. N
      BY <2>1
    <3>2. w[j] \in Seq(Calls)
      BY <1>0
    <3>. QED
      BY <1>2, <2>1, <3>1, <3>2
  <2>3. CallsTake(f[i], r, a, At(i), may)
    <3>. HIDE DEF At
    <3>. QED
      BY <1>4
  <2>4. CASE hs[j] = r
    <3>1. ASSUME NEW k \in 1 .. i, hs[k] = r PROVE FALSE
      BY <1>0, <2>1, <2>4, <3>1 DEF Distinct
    <3>2. At(i) = a /\ At(j) = b
      BY <2>1, <2>4, <3>1
    <3>3. CallsTake(w[j], r, a, b, may)
      BY <1>0, <2>4
    <3>. HIDE DEF At
    <3>. QED
      BY <2>1, <2>2, <2>3, <3>2, <3>3, CallsConcat
  <2>5. CASE hs[j] # r
    <3>1. Met(j) <=> Met(i)
      BY <2>1, <2>5
    <3>2. At(j) = At(i) /\ At(i) \in 0 .. Len(Answer[r])
      BY <3>1
    <3>. HIDE DEF At
    <3>3. CallsTake(w[j], r, At(i), At(i), may)
      BY <1>0, <2>5, <3>2
    <3>. QED
      BY <2>1, <2>2, <2>3, <3>2, <3>3, CallsConcat
  <2>. QED
    BY <2>4, <2>5
<1>5. Nat \subseteq Q
  <2>. HIDE DEF Q
  <2>. QED
    BY <1>3, <1>4, InductionOnNat
<1>6. CallsTake(f[N], r, a, At(N), may)
  <2>. HIDE DEF At
  <2>. QED
    BY <1>5
<1>7. At(N) = IF r \in Range(hs) THEN b ELSE a
  <2>1. r \in Range(hs) <=> \E k \in 1 .. N : hs[k] = r
    BY <1>0, RangeSeq
  <2>. QED
    BY <2>1
<1>. HIDE DEF At
<1>. QED
  BY <1>1, <1>6, <1>7, Zenon

(* The chunk of what is not sent yet. *)
LEMMA UnsentTakes ==
  ASSUME NEW r \in Requests, NEW n \in 0 .. Len(Answer[r]), sent[r] \in 0 .. n,
         NEW may, "chunk" \in may
  PROVE  /\ Unsent(r, UpTo(r, n)) \in Seq(Events)
         /\ EventsTake(Unsent(r, UpTo(r, n)), r, sent[r], n, may)
<1>0. PICK a \in 0 .. n : a = sent[r]
  OBVIOUS
<1>1. Len(UpTo(r, n)) = n /\ a \in 0 .. Len(Answer[r]) /\ Len(Answer[r]) \in Nat
  BY PrefixTypes, AnswerTypes
<1>2. CASE n > a
  <2>. DEFINE ev == Chunk(SubSeq(UpTo(r, n), a + 1, n))
  <2>1. SubSeq(UpTo(r, n), a + 1, n) = SubSeq(Answer[r], a + 1, n)
        /\ SubSeq(Answer[r], a + 1, n) \in Seq(Tok)
    BY Continues
  <2>2. ev.type = "chunk" /\ ev.ids = SubSeq(Answer[r], a + 1, n) /\ ev \in Events
    BY <2>1 DEF Chunk, Events
  <2>3. Unsent(r, UpTo(r, n)) = <<ev>>
    BY <1>0, <1>1, <1>2 DEF Unsent
  <2>. HIDE DEF ev
  <2>4. Takes(ev, r, a, n, may)
    BY <1>2, <2>2 DEF Takes
  <2>5. EventsTake(<<>>, r, a, a, may) /\ <<>> \in Seq(Events)
    BY <1>1, NothingTaken
  <2>6. EventsTake(Append(<<>>, ev), r, a, n, may)
    BY <2>2, <2>4, <2>5, EventsAppend
  <2>7. Append(<<>>, ev) = <<ev>> /\ <<ev>> \in Seq(Events)
    BY <2>2
  <2>. QED
    BY <1>0, <2>3, <2>6, <2>7
<1>3. CASE ~(n > a)
  <2>1. a = n
    BY <1>1, <1>3
  <2>2. Unsent(r, UpTo(r, n)) = <<>>
    BY <1>0, <1>1, <1>3 DEF Unsent
  <2>3. EventsTake(<<>>, r, a, a, may)
    BY <1>1, NothingTaken
  <2>. QED
    BY <1>0, <2>1, <2>2, <2>3
<1>. QED
  BY <1>2, <1>3

(* Who has a handle. *)
LEMMA HandlesKnown ==
  ASSUME EInv
  PROVE  /\ Range(handles) \subseteq Requests
         /\ Range(handles) = Range(queue) \cup running \cup DOMAIN finished
BY RangeOfSeq DEF EInv, EngineTypes, Books

(* How far a handle gets with what is published. *)
Reached(r) == IF r \in running \cup DOMAIN finished THEN Len(output[r]) ELSE sent[r]

(* The reason that is told is a true one. *)
LEMMA ReasonTakes ==
  ASSUME EInv, NEW r \in DOMAIN finished
  PROVE  /\ finished[r] = UpTo(r, Len(output[r]))
         /\ Final(Reason(r), finished[r]) \in Events
         /\ Takes(Final(Reason(r), finished[r]), r, Len(output[r]), Len(output[r]), Told(r))
<1>1. r \in Requests /\ r \in Range(handles) /\ output[r] \in Seq(Tok)
  BY DEF EInv, EngineTypes, Books
<1>2. r \in submitted /\ (r \in dropped => asked[r] > 0)
  BY <1>1 DEF EInv, Inboxes, Unheard
<1>3. /\ finished[r] = output[r] /\ output[r] = UpTo(r, Len(output[r]))
      /\ r \notin dropped => finished[r] = Answer[r]
  BY <1>1 DEF EInv, Outputs
<1>. DEFINE ev == Final(Reason(r), finished[r])
<1>4. Reason(r) \in Reasons
  BY DEF Reason, Reasons
<1>5. ev.type = "done" /\ ev.reason = Reason(r) /\ ev.ids = finished[r] /\ ev \in Events
  BY <1>1, <1>3, <1>4 DEF Final, Events
<1>6. TrueReason(r, Reason(r), finished[r], Told(r))
  <2>1. CASE r \in dropped
    <3>1. Reason(r) = "cancelled" /\ "cancelled" \in Told(r)
      BY <1>2, <2>1 DEF Reason, Told
    <3>. QED
      BY <3>1 DEF TrueReason
  <2>2. CASE r \notin dropped
    <3>1. finished[r] = Answer[r] /\ {"stop", "length"} \subseteq Told(r)
      BY <1>2, <1>3, <2>2 DEF Told
    <3>2. Len(Answer[r]) \in Nat /\ MaxTokens[r] \in Nat /\ Len(Answer[r]) <= MaxTokens[r]
      BY <1>1, AnswerTypes
    <3>3. CASE Len(finished[r]) >= MaxTokens[r] /\ MaxTokens[r] > 0
      <4>1. Reason(r) = "length" /\ Len(Answer[r]) = MaxTokens[r]
        BY <2>2, <3>1, <3>2, <3>3 DEF Reason
      <4>. QED
        BY <3>1, <4>1 DEF TrueReason
    <3>4. CASE ~(Len(finished[r]) >= MaxTokens[r] /\ MaxTokens[r] > 0)
      <4>1. Reason(r) = "stop" /\ (Len(Answer[r]) < MaxTokens[r] \/ MaxTokens[r] = 0)
        BY <2>2, <3>1, <3>2, <3>4 DEF Reason
      <4>. QED
        BY <3>1, <4>1 DEF TrueReason
    <3>. QED
      BY <3>3, <3>4
  <2>. QED
    BY <2>1, <2>2
<1>. HIDE DEF ev
<1>7. Takes(ev, r, Len(output[r]), Len(output[r]), Told(r))
  BY <1>3, <1>5, <1>6 DEF Takes
<1>. QED
  BY <1>3, <1>5, <1>7 DEF ev

LEMMA NewsTakes ==
  ASSUME EInv, NEW r \in Range(handles)
  PROVE  /\ Reached(r) \in 0 .. Len(Answer[r]) /\ sent[r] \in 0 .. Len(Answer[r])
         /\ News(r) \in Seq(Events)
         /\ EventsTake(News(r), r, sent[r], Reached(r), Told(r))
<1>1. r \in Requests /\ r \in Range(queue) \cup running \cup DOMAIN finished
  BY HandlesKnown
<1>2. r \in submitted /\ "chunk" \in Told(r)
  BY <1>1 DEF EInv, Inboxes, Unheard, Told
<1>3. PICK n \in Nat : n = Len(output[r])
  <2>1. output[r] \in Seq(Tok)
    BY <1>1 DEF EInv, EngineTypes
  <2>. QED
    BY <2>1, LenProperties
<1>4. /\ Len(Answer[r]) \in Nat /\ n \in 0 .. Len(Answer[r])
      /\ output[r] = UpTo(r, n) /\ sent[r] \in 0 .. n
  <2>1. sent[r] \in Nat /\ sent[r] <= n /\ n <= Len(Answer[r]) /\ output[r] = UpTo(r, n)
    BY <1>1, <1>3 DEF EInv, EngineTypes, Outputs
  <2>. QED
    BY <1>1, <2>1, AnswerTypes
<1>5. /\ Unsent(r, output[r]) \in Seq(Events)
      /\ EventsTake(Unsent(r, output[r]), r, sent[r], n, Told(r))
  BY <1>1, <1>2, <1>4, UnsentTakes
<1>6. CASE r \in DOMAIN finished
  <2>1. /\ finished[r] = output[r] /\ Final(Reason(r), finished[r]) \in Events
        /\ Takes(Final(Reason(r), finished[r]), r, n, n, Told(r))
    BY <1>3, <1>4, <1>6, ReasonTakes
  <2>2. News(r) = Append(Unsent(r, output[r]), Final(Reason(r), finished[r]))
    <3>1. r \notin running
      BY <1>6 DEF EInv, Books
    <3>. QED
      BY <1>6, <2>1, <3>1 DEF News
  <2>3. EventsTake(News(r), r, sent[r], n, Told(r))
    BY <1>1, <1>4, <1>5, <2>1, <2>2, EventsAppend
  <2>4. News(r) \in Seq(Events)
    BY <1>5, <2>1, <2>2, AppendElements
  <2>. QED
    BY <1>3, <1>4, <1>6, <2>3, <2>4 DEF Reached
<1>7. CASE r \in running
  <2>1. r \notin DOMAIN finished
    BY <1>7 DEF EInv, Books
  <2>2. News(r) = Unsent(r, output[r])
    BY <1>7, <2>1 DEF News
  <2>. QED
    BY <1>3, <1>4, <1>5, <1>7, <2>2 DEF Reached
<1>8. CASE r \notin running \cup DOMAIN finished
  <2>1. News(r) = <<>>
    BY <1>8 DEF News
  <2>2. EventsTake(<<>>, r, sent[r], sent[r], Told(r)) /\ sent[r] \in 0 .. Len(Answer[r])
    BY <1>1, <1>4, NothingTaken
  <2>. QED
    BY <1>8, <2>1, <2>2 DEF Reached
<1>. QED
  BY <1>6, <1>7, <1>8

(* The callbacks of one round of _publish. *)
Publishes == [i \in 1 .. Len(handles) |-> Deliver(handles[i], News(handles[i]))]

LEMMA PublishesTypes ==
  ASSUME EInv
  PROVE  /\ Publishes \in [1 .. Len(handles) -> Seq(Calls)]
         /\ FlattenSeq(Publishes) \in Seq(Calls)
         /\ FlattenSeq(Publishes) = FlattenSeq(
              [i \in DOMAIN handles |->
                 LET evs == News(handles[i])
                 IN  [k \in DOMAIN evs |-> [id |-> handles[i], event |-> evs[k]]]])
<1>0. handles \in Seq(Requests) /\ DOMAIN handles = 1 .. Len(handles) /\ Len(handles) \in Nat
  BY DEF EInv, EngineTypes
<1>1. ASSUME NEW i \in 1 .. Len(handles)
      PROVE  Deliver(handles[i], News(handles[i])) \in Seq(Calls)
  <2>1. PICK h \in Requests : h = handles[i] /\ h \in Range(handles)
    BY <1>0, RangeSeq
  <2>2. News(h) \in Seq(Events)
    BY <2>1, NewsTakes
  <2>. QED
    BY <2>1, <2>2, DeliverTypes
<1>2. Publishes \in [1 .. Len(handles) -> Seq(Calls)]
  BY <1>1 DEF Publishes
<1>3. FlattenSeq(Publishes) \in Seq(Calls)
  BY <1>0, <1>2, FlattenTypes
<1>. QED
  BY <1>0, <1>2, <1>3, Zenon DEF Publishes, Deliver

LEMMA PublishesTake ==
  ASSUME EInv, NEW r \in Requests, NEW a \in 0 .. Len(Answer[r]),
         r \in Range(handles) => a = sent[r]
  PROVE  CallsTake(FlattenSeq(Publishes), r, a, IF r \in Range(handles) THEN Reached(r) ELSE a, Told(r))
<1>. DEFINE b == IF r \in Range(handles) THEN Reached(r) ELSE a
<1>0. handles \in Seq(Requests) /\ Distinct(handles)
  BY DEF EInv, EngineTypes, Books
<1>3. b \in 0 .. Len(Answer[r])
  BY NewsTakes
<1>4. ASSUME NEW i \in 1 .. Len(handles)
      PROVE  IF handles[i] = r THEN CallsTake(Publishes[i], r, a, b, Told(r))
             ELSE \A c \in 0 .. Len(Answer[r]) : CallsTake(Publishes[i], r, c, c, Told(r))
  <2>1. PICK h \in Requests : h = handles[i] /\ h \in Range(handles)
    BY <1>0, RangeSeq
  <2>2. News(h) \in Seq(Events) /\ EventsTake(News(h), h, sent[h], Reached(h), Told(h))
    BY <2>1, NewsTakes
  <2>3. Publishes[i] = Deliver(h, News(h))
    BY <2>1 DEF Publishes
  <2>4. CASE h = r
    <3>1. b = Reached(r) /\ a = sent[r]
      BY <2>1, <2>4
    <3>2. EventsTake(News(h), r, a, b, Told(r))
      BY <2>2, <2>4, <3>1
    <3>. HIDE DEF b
    <3>3. CallsTake(Deliver(h, News(h)), r, a, b, Told(r))
      BY <1>3, <2>2, <2>4, <3>2, DeliverTakes
    <3>. QED
      BY <2>1, <2>3, <2>4, <3>3
  <2>5. CASE h # r
    <3>1. \A c \in 0 .. Len(Answer[r]) : CallsTake(Deliver(h, News(h)), r, c, c, Told(r))
      BY <2>2, <2>5, DeliverTakes
    <3>. QED
      BY <2>1, <2>3, <2>5, <3>1
  <2>. QED
    BY <2>4, <2>5
<1>5. PICK hs \in Seq(Requests) : hs = handles
  BY <1>0
<1>6. PICK w \in [1 .. Len(hs) -> Seq(Calls)] : w = Publishes
  BY <1>5, PublishesTypes
<1>7. \A i \in 1 .. Len(hs) :
        IF hs[i] = r THEN CallsTake(w[i], r, a, b, Told(r))
        ELSE \A c \in 0 .. Len(Answer[r]) : CallsTake(w[i], r, c, c, Told(r))
  <2>. HIDE DEF b
  <2>. QED
    BY <1>4, <1>5, <1>6, Zenon
<1>8. CallsTake(FlattenSeq(w), r, a, IF r \in Range(hs) THEN b ELSE a, Told(r))
  <2>. HIDE DEF b
  <2>. QED
    BY <1>0, <1>3, <1>5, <1>7, FlattenTakes
<1>. QED
  BY <1>5, <1>6, <1>8

(* The callbacks of a shutdown, which finds all that has run published. *)
LEMMA ShutdownTypes ==
  ASSUME EInv, thread = "drain"
  PROVE  /\ ShutdownCalls \in Seq(Calls) /\ Len(ShutdownCalls) = Len(handles)
         /\ \A i \in 1 .. Len(handles) :
              /\ handles[i] \in Range(handles) /\ ShutdownCalls[i].id = handles[i]
              /\ LET ev == ShutdownCalls[i].event
                 IN  /\ ev.type = "done" /\ ev.reason = "cancelled"
                     /\ ev.ids = UpTo(handles[i], sent[handles[i]])
<1>0. handles \in Seq(Requests) /\ DOMAIN handles = 1 .. Len(handles)
      /\ \A i \in 1 .. Len(handles) : handles[i] \in Requests /\ handles[i] \in Range(handles)
  BY RangeSeq DEF EInv, EngineTypes
<1>1. ASSUME NEW h \in Range(handles)
      PROVE  /\ Partial(h) = UpTo(h, sent[h]) /\ Partial(h) \in Seq(Tok)
             /\ sent[h] \in 0 .. Len(Answer[h])
  <2>1. h \in Requests /\ h \in Range(queue) \cup running \cup DOMAIN finished
    BY HandlesKnown
  <2>2. /\ output[h] = UpTo(h, Len(output[h])) /\ output[h] \in Seq(Tok)
        /\ Len(output[h]) <= Len(Answer[h])
    BY <2>1 DEF EInv, EngineTypes, Outputs
  <2>3. CASE h \in running \cup DOMAIN finished
    <3>1. sent[h] = Len(output[h])
      BY <2>3 DEF EInv, Outputs
    <3>2. Partial(h) = output[h]
      BY <2>3 DEF Partial, EInv, Outputs
    <3>. QED
      BY <2>1, <2>2, <3>1, <3>2, AnswerTypes
  <2>4. CASE h \notin running \cup DOMAIN finished
    <3>1. sent[h] = 0
      BY <2>1, <2>4 DEF EInv, Outputs
    <3>2. Partial(h) = <<>>
      BY <2>4 DEF Partial
    <3>3. Len(Answer[h]) \in Nat
      BY <2>1, AnswerTypes
    <3>4. UpTo(h, 0) = <<>>
      BY <2>1, <3>3, PrefixTypes
    <3>. QED
      BY <3>1, <3>2, <3>3, <3>4
  <2>. QED
    BY <2>3, <2>4
<1>. DEFINE ev(h) == Final("cancelled", Partial(h))
            c(i) == [id |-> handles[i], event |-> ev(handles[i])]
<1>2. \A h \in Range(handles) :
        ev(h) \in Events /\ ev(h).type = "done" /\ ev(h).reason = "cancelled"
        /\ ev(h).ids = UpTo(h, sent[h])
  BY <1>1 DEF Events, Final, Reasons
<1>. HIDE DEF ev
<1>3. \A i \in 1 .. Len(handles) :
        c(i) \in Calls /\ c(i).id = handles[i] /\ c(i).event = ev(handles[i])
  BY <1>0, <1>2 DEF Calls
<1>4. PICK q : q = ShutdownCalls
  OBVIOUS
<1>5. q = [i \in 1 .. Len(handles) |-> c(i)]
  BY <1>0, <1>4, Zenon DEF ShutdownCalls, ev
<1>. HIDE DEF c
<1>6. q \in Seq(Calls) /\ Len(q) = Len(handles) /\ \A i \in 1 .. Len(q) : q[i] = c(i)
  <2>1. PICK n \in Nat : n = Len(handles)
    BY <1>0, LenProperties
  <2>2. q \in [1 .. n -> Calls]
    BY <1>3, <1>5, <2>1
  <2>. QED
    BY <1>5, <2>1, <2>2
<1>7. \A i \in 1 .. Len(handles) :
        q[i].id = handles[i] /\ q[i].event = ev(handles[i]) /\ handles[i] \in Range(handles)
  BY <1>0, <1>3, <1>6
<1>. QED
  BY <1>2, <1>4, <1>6, <1>7

LEMMA ShutdownTakes ==
  ASSUME EInv, thread = "drain", NEW r \in Requests, NEW a \in 0 .. Len(Answer[r]), NEW may,
         r \in Range(handles) => a = sent[r] /\ "cancelled" \in may
  PROVE  CallsTake(ShutdownCalls, r, a, a, may)
<1>1. PICK q \in Seq(Calls) : q = ShutdownCalls /\ Len(q) = Len(handles)
  BY ShutdownTypes
<1>2. ASSUME NEW i \in 1 .. Len(q) PROVE CallTakes(q[i], r, a, a, may)
  <2>1. PICK h \in Range(handles) : h = handles[i]
    BY <1>1, ShutdownTypes
  <2>2. PICK ev : ev = q[i].event
    OBVIOUS
  <2>3. q[i].id = h /\ ev.type = "done" /\ ev.reason = "cancelled" /\ ev.ids = UpTo(h, sent[h])
    BY <1>1, <2>1, <2>2, ShutdownTypes
  <2>4. h = r => Takes(ev, r, a, a, may)
    BY <2>3 DEF Takes, TrueReason
  <2>. QED
    BY <2>2, <2>3, <2>4 DEF CallTakes
<1>. QED
  BY <1>1, <1>2, CallsStay

-----------------------------------------------------------------------------
(* The invariant holds at first.                                           *)

LEMMA InitEngine ==
  ASSUME EngineInit
  PROVE  EInv
<1>0. /\ queue = <<>> /\ running = {} /\ finished = <<>>
      /\ output = [r \in Requests |-> <<>>] /\ phase = "idle" /\ todo = {}
      /\ inbox = <<>> /\ calls = <<>> /\ handles = <<>> /\ dropped = {}
      /\ sent = [r \in Requests |-> 0] /\ submitted = {}
      /\ events = [r \in Requests |-> <<>>] /\ text = [r \in Requests |-> <<>>]
      /\ done = [r \in Requests |-> NoDone] /\ asked = [r \in Requests |-> 0]
      /\ started = FALSE /\ stopping = 0 /\ stale = 0 /\ starts = 0 /\ thread = "ended"
  BY DEF EngineInit, MachineInit
<1>1. Range(queue) = {} /\ Range(handles) = {} /\ DOMAIN finished = {} /\ Range(inbox) = {}
  BY <1>0 DEF Range
<1>2. EngineTypes
  <2>1. \A S : <<>> \in Seq(S)
    OBVIOUS
  <2>2. queue \in Seq(Requests) /\ inbox \in Seq(Messages) /\ calls \in Seq(Calls)
        /\ handles \in Seq(Requests)
    BY <1>0, <2>1, Zenon
  <2>3. output \in [Requests -> Seq(Tok)] /\ text \in [Requests -> Seq(Tok)]
        /\ events \in [Requests -> Seq(Events)]
    BY <1>0, <2>1
  <2>4. sent \in [Requests -> Nat] /\ asked \in [Requests -> Nat] /\ DOMAIN done = Requests
    BY <1>0
  <2>. QED
    BY <1>0, <1>1, <2>2, <2>3, <2>4 DEF EngineTypes
<1>3. Books
  BY <1>0, <1>1 DEF Books, Distinct
<1>4. Threads
  BY <1>0 DEF Threads
<1>5. \A r \in Requests : Len(Answer[r]) \in Nat /\ UpTo(r, 0) = <<>>
  BY AnswerTypes, PrefixTypes
<1>6. Outputs
  BY <1>0, <1>1, <1>5 DEF Outputs
<1>7. Inboxes
  BY <1>0, <1>1 DEF Inboxes, InboxTrue, InboxOnce
<1>8. ASSUME NEW r \in Requests PROVE Delivery(r)
  <2>1. EventsTake(<<>>, r, 0, 0, Told(r)) /\ CallsTake(<<>>, r, 0, 0, Told(r))
        /\ 0 \in 0 .. Len(Answer[r])
    BY <1>5, NothingTaken
  <2>2. text[r] = <<>> /\ Len(text[r]) = 0 /\ events[r] = <<>> /\ done[r] = NoDone
    BY <1>0
  <2>. QED
    BY <1>0, <1>1, <1>5, <2>1, <2>2 DEF Delivery
<1>. QED
  BY <1>2, <1>3, <1>4, <1>6, <1>7, <1>8 DEF EInv

-----------------------------------------------------------------------------
(* What steps have in common.                                              *)

LEMMA ToldGrows ==
  ASSUME NEW r \in Requests, submitted \subseteq submitted',
         asked[r] > 0 => asked'[r] > 0, Cut => Cut'
  PROVE  Told(r) \subseteq Told(r)'
BY DEF Told

(* A step that touches no stream of r: it is told no less, and a handle it *)
(* gets is its first.                                                      *)
LEMMA DeliveryStays ==
  ASSUME EInv, NEW r \in Requests, events'[r] = events[r], calls' = calls, text'[r] = text[r],
         done'[r] = done[r], Told(r) \subseteq Told(r)',
         (r \in Range(handles))' => \/ r \in Range(handles) /\ sent'[r] = sent[r]
                                    \/ Unheard(r) /\ sent'[r] = 0,
         Unheard(r)' => Unheard(r)
  PROVE  Delivery(r)'
<1>1. Delivery(r)
  BY DEF EInv
<1>2. PICK m \in 0 .. Len(Answer[r]), b \in 0 .. Len(Answer[r]) :
        /\ EventsTake(events[r], r, Len(text[r]), m, Told(r))
        /\ CallsTake(calls, r, m, b, Told(r))
        /\ r \in Range(handles) => b = sent[r]
        /\ Unheard(r) => b = 0
  BY <1>1 DEF Delivery
<1>3. /\ EventsTake(events[r], r, Len(text[r]), m, Told(r)')
      /\ CallsTake(calls, r, m, b, Told(r)')
      /\ done[r] # NoDone => TrueReason(r, done[r].reason, done[r].ids, Told(r)')
  <2>1. PICK may, more : may = Told(r) /\ more = Told(r)' /\ may \subseteq more
    OBVIOUS
  <2>2. /\ EventsTake(events[r], r, Len(text[r]), m, may)
        /\ CallsTake(calls, r, m, b, may)
        /\ done[r] # NoDone => TrueReason(r, done[r].reason, done[r].ids, may)
    BY <1>1, <1>2, <2>1 DEF Delivery
  <2>3. /\ EventsTake(events[r], r, Len(text[r]), m, more)
        /\ CallsTake(calls, r, m, b, more)
        /\ done[r] # NoDone => TrueReason(r, done[r].reason, done[r].ids, more)
    BY <2>1, <2>2, StillTaken
  <2>. QED
    BY <2>1, <2>3
<1>4. (r \in Range(handles))' => b = sent'[r]
  BY <1>2
<1>5. Unheard(r)' => b = 0
  BY <1>2
<1>. QED
  BY <1>1, <1>2, <1>3, <1>4, <1>5 DEF Delivery

(* A step that leaves the event loop, the inbox and the consumers alone,   *)
(* and the handles too.                                                    *)
LEMMA StreamsStay ==
  ASSUME EInv, UNCHANGED <<inbox, loopVars, handles, sent, calls, consumerVars>>
  PROVE  \A r \in Requests : Delivery(r)' /\ (Unheard(r)' <=> Unheard(r))
<1>1. /\ inbox' = inbox /\ submitted' = submitted /\ asked' = asked /\ handles' = handles
      /\ sent' = sent /\ calls' = calls /\ events' = events /\ text' = text /\ done' = done
      /\ (Cut' <=> Cut)
  BY DEF loopVars, stopVars, consumerVars, Cut
<1>2. ASSUME NEW r \in Requests PROVE Delivery(r)' /\ (Unheard(r)' <=> Unheard(r))
  <2>1. Unheard(r)' <=> Unheard(r)
    BY <1>1 DEF Unheard
  <2>2. Told(r) \subseteq Told(r)'
    BY <1>1 DEF Told
  <2>3. Delivery(r)'
    BY <1>1, <2>1, <2>2, DeliveryStays
  <2>. QED
    BY <2>1, <2>3
<1>. QED
  BY <1>2

-----------------------------------------------------------------------------
(* The thread between its calls.                                           *)

LEMMA ThreadMoves ==
  ASSUME EInv,
         UNCHANGED <<queue, running, finished, output, inbox, loopVars, handles, sent, dropped,
                     calls, consumerVars>>,
         Threads', todo' \subseteq running, thread' # "drain"
  PROVE  EInv'
<1>1. /\ inbox' = inbox /\ submitted' = submitted /\ asked' = asked /\ handles' = handles
      /\ sent' = sent /\ calls' = calls /\ events' = events /\ text' = text /\ done' = done
      /\ started' = started /\ stopping' = stopping /\ stale' = stale /\ starts' = starts
  BY DEF loopVars, stopVars, consumerVars
<1>2. EngineTypes'
  BY <1>1 DEF EInv, EngineTypes
<1>3. Books'
  BY <1>1 DEF EInv, Books
<1>4. Outputs'
  BY <1>1 DEF EInv, Outputs
<1>5. \A r \in Requests : Delivery(r)' /\ (Unheard(r)' <=> Unheard(r))
  BY StreamsStay
<1>6. Inboxes'
  <2>1. InboxTrue' /\ InboxOnce'
    BY <1>1 DEF EInv, Inboxes, InboxTrue, InboxOnce, Cut
  <2>. QED
    BY <1>1, <1>5, <2>1 DEF EInv, Inboxes
<1>. QED
  BY <1>2, <1>3, <1>4, <1>5, <1>6 DEF EInv

LEMMA ThreadMovesKeep ==
  ASSUME EInv, Idle \/ CallStep \/ StepReturns \/ StepRaises
  PROVE  EInv'
<1>0. Threads /\ todo \subseteq running
  BY DEF EInv, EngineTypes
<1>1. CASE Idle
  <2>1. /\ UNCHANGED <<queue, running, finished, output, inbox, loopVars, handles, sent, dropped,
                       calls, consumerVars>>
        /\ UNCHANGED <<phase, todo, started, stopping, stale, starts, handles>>
        /\ thread = "drain" /\ thread' = "publish"
    BY <1>1 DEF Idle, machineVars, loopVars, stopVars
  <2>2. Threads' /\ todo' \subseteq running
    BY <1>0, <2>1 DEF Threads
  <2>. QED
    BY <2>1, <2>2, ThreadMoves
<1>2. CASE CallStep
  <2>1. /\ UNCHANGED <<queue, running, finished, output, inbox, loopVars, handles, sent, dropped,
                       calls, consumerVars>>
        /\ UNCHANGED <<started, stopping, stale, starts, handles>>
        /\ thread = "drain" /\ thread' = "step" /\ phase' = "step" /\ todo' = running
    BY <1>2 DEF CallStep, BeginStep, loopVars, stopVars
  <2>2. Threads'
    BY <1>0, <2>1 DEF Threads
  <2>. QED
    BY <2>1, <2>2, ThreadMoves
<1>3. CASE StepReturns
  <2>1. /\ UNCHANGED <<queue, running, finished, output, inbox, loopVars, handles, sent, dropped,
                       calls, consumerVars>>
        /\ UNCHANGED <<started, stopping, stale, starts, handles>>
        /\ thread = "step" /\ thread' = "publish" /\ phase = "step" /\ phase' = "idle"
        /\ todo = {} /\ todo' = todo
    BY <1>3 DEF StepReturns, EndStep, loopVars, stopVars
  <2>2. Threads' /\ todo' \subseteq running
    BY <1>0, <2>1 DEF Threads
  <2>. QED
    BY <2>1, <2>2, ThreadMoves
<1>4. CASE StepRaises
  <2>1. /\ UNCHANGED <<queue, running, finished, output, inbox, loopVars, handles, sent, dropped,
                       calls, consumerVars>>
        /\ UNCHANGED <<started, stopping, stale, starts, handles>>
        /\ thread = "step" /\ thread' = "ended" /\ phase = "step" /\ phase' = "raised"
        /\ todo' = {}
    BY <1>4 DEF StepRaises, Raise, loopVars, stopVars
  <2>2. Threads'
    BY <1>0, <2>1 DEF Threads
  <2>. QED
    BY <2>1, <2>2, ThreadMoves
<1>. QED
  BY <1>1, <1>2, <1>3, <1>4

(* Inside a call of step(). *)
LEMMA AdvanceKeeps ==
  ASSUME EInv, thread = "step", NEW r \in Range(queue) \cup running, Advance(r),
         UNCHANGED <<inbox, loopVars, threadVars, calls, consumerVars, phase>>,
         \/ queue' = queue /\ r \in running /\ todo' = todo \ {r}
         \/ queue # <<>> /\ r = Head(queue) /\ queue' = Tail(queue) /\ todo = {} /\ todo' = {}
  PROVE  EInv'
<1>0. EngineTypes /\ Books /\ Threads /\ Outputs /\ Inboxes
  BY DEF EInv
<1>1. /\ inbox' = inbox /\ submitted' = submitted /\ asked' = asked /\ handles' = handles
      /\ sent' = sent /\ calls' = calls /\ events' = events /\ text' = text /\ done' = done
      /\ started' = started /\ stopping' = stopping /\ stale' = stale /\ starts' = starts /\ phase' = phase
      /\ thread' = thread /\ dropped' = dropped
  BY DEF loopVars, stopVars, threadVars, consumerVars
<1>2. r \in Requests /\ r \in Range(handles) /\ r \notin DOMAIN finished
  <2>1. Range(queue) \subseteq Requests
    BY <1>0, RangeOfSeq DEF EngineTypes
  <2>. QED
    BY <1>0, <2>1 DEF EngineTypes, Books
<1>3. /\ queue' \in Seq(Requests) /\ Distinct(queue')
      /\ \A q : q \in Range(queue') <=> q \in Range(queue) /\ (r \notin running => q # r)
  <2>1. CASE queue' = queue /\ r \in running
    BY <1>0, <2>1 DEF EngineTypes, Books
  <2>2. CASE queue # <<>> /\ r = Head(queue) /\ queue' = Tail(queue)
    <3>1. PICK s : s = queue
      OBVIOUS
    <3>2. s \in Seq(Requests) /\ s # <<>> /\ Distinct(s)
      BY <1>0, <2>2, <3>1 DEF EngineTypes, Books
    <3>3. /\ Tail(s) \in Seq(Requests) /\ Head(s) \in Range(s) /\ Head(s) \notin Range(Tail(s))
          /\ \A q : q \in Range(s) <=> q = Head(s) \/ q \in Range(Tail(s))
      BY <3>2, TailElements, HeadOnce
    <3>4. Distinct(Tail(s))
      <4>1. /\ Len(Tail(s)) = Len(s) - 1 /\ Len(s) \in Nat
            /\ \A i \in 1 .. Len(s) - 1 : Tail(s)[i] = s[i + 1]
        BY <3>2, TailElements
      <4>2. \A i \in 1 .. Len(s) - 1 : i + 1 \in 1 .. Len(s)
        BY <4>1
      <4>. QED
        BY <3>2, <4>1, <4>2 DEF Distinct
    <3>5. r \notin running
      BY <1>0, <2>2, <3>1, <3>3 DEF Books
    <3>. QED
      BY <2>2, <3>1, <3>3, <3>4, <3>5
  <2>. QED
    BY <2>1, <2>2
<1>4. PICK n \in 0 .. Len(Answer[r]) :
        /\ output' = [output EXCEPT ![r] = UpTo(r, n)] /\ Len(output[r]) <= n
        /\ \/ running' = running \cup {r} /\ finished' = finished
           \/ /\ running' = running \ {r} /\ finished' = Recorded(r, Answer[r])
              /\ n = Len(Answer[r])
  <2>1. Len(Answer[r]) \in Nat /\ UpTo(r, Len(Answer[r])) = Answer[r]
        /\ Len(output[r]) \in Nat /\ Len(output[r]) <= Len(Answer[r])
    <3>1. Len(Answer[r]) \in Nat
      BY <1>2, AnswerTypes
    <3>2. Len(Answer[r]) \in 0 .. Len(Answer[r])
      BY <3>1
    <3>3. UpTo(r, Len(Answer[r])) = Answer[r]
      BY <1>2, <3>2, PrefixTypes
    <3>4. output[r] \in Seq(Tok)
      BY <1>0, <1>2 DEF EngineTypes
    <3>5. Len(output[r]) \in Nat
      BY <3>4, LenProperties
    <3>. QED
      BY <1>0, <1>2, <3>1, <3>3, <3>5 DEF Outputs
  <2>2. CASE /\ \E n \in Len(output[r]) + 1 .. Len(Answer[r]) :
                  output' = [output EXCEPT ![r] = SubSeq(Answer[r], 1, n)]
             /\ running' = running \cup {r}
             /\ UNCHANGED finished
    <3>1. PICK n \in Len(output[r]) + 1 .. Len(Answer[r]) :
            output' = [output EXCEPT ![r] = SubSeq(Answer[r], 1, n)]
      BY <2>2
    <3>2. n \in 0 .. Len(Answer[r]) /\ Len(output[r]) <= n
      BY <2>1
    <3>. QED
      BY <2>2, <3>1, <3>2 DEF UpTo
  <2>3. CASE /\ output' = [output EXCEPT ![r] = Answer[r]]
             /\ finished' = Recorded(r, Answer[r])
             /\ running' = running \ {r}
    <3>1. Len(Answer[r]) \in 0 .. Len(Answer[r])
      BY <2>1
    <3>. QED
      BY <2>1, <2>3, <3>1
  <2>. QED
    BY <2>2, <2>3 DEF Advance
<1>5. /\ output' \in [Requests -> Seq(Tok)] /\ output'[r] = UpTo(r, n) /\ Len(output'[r]) = n
      /\ \A q \in Requests : q # r => output'[q] = output[q]
  BY <1>0, <1>2, <1>4, PrefixTypes DEF EngineTypes
<1>6. /\ DOMAIN finished' = IF r \in running' THEN DOMAIN finished ELSE DOMAIN finished \cup {r}
      /\ \A q \in DOMAIN finished : finished'[q] = finished[q]
      /\ r \notin running' => finished'[r] = output'[r] /\ output'[r] = Answer[r]
      /\ running' \ {r} = running \ {r}
  <2>1. CASE running' = running \cup {r} /\ finished' = finished
    BY <2>1
  <2>2. CASE running' = running \ {r} /\ finished' = Recorded(r, Answer[r]) /\ n = Len(Answer[r])
    <3>1. UpTo(r, n) = Answer[r]
      BY <1>2, <2>2, PrefixTypes
    <3>. QED
      BY <1>2, <1>5, <2>2, <3>1 DEF Recorded
  <2>. QED
    BY <1>4, <2>1, <2>2
<1>7. EngineTypes'
  <2>1. running' \subseteq Requests /\ DOMAIN finished' \subseteq Requests /\ todo' \subseteq running'
    BY <1>0, <1>2, <1>6 DEF EngineTypes
  <2>. QED
    BY <1>0, <1>1, <1>3, <1>5, <2>1 DEF EngineTypes
<1>8. Books'
  <2>1. Range(handles') = Range(queue') \cup running' \cup DOMAIN finished'
    BY <1>0, <1>1, <1>2, <1>3, <1>6 DEF Books
  <2>2. /\ Range(queue') \cap running' = {} /\ Range(queue') \cap DOMAIN finished' = {}
        /\ running' \cap DOMAIN finished' = {}
    BY <1>0, <1>2, <1>3, <1>6 DEF Books
  <2>. QED
    BY <1>0, <1>1, <1>3, <1>6, <2>1, <2>2 DEF Books
<1>9. Threads'
  BY <1>0, <1>1 DEF Threads
<1>10. Outputs'
  <2>1. \A q \in Requests : Len(output'[q]) <= Len(Answer[q]) /\ output'[q] = UpTo(q, Len(output'[q]))
    BY <1>0, <1>4, <1>5 DEF Outputs
  <2>2. \A q \in Range(queue') : output'[q] = <<>> /\ sent'[q] = 0
    <3>1. \A q \in Range(queue') : q \in Range(queue) /\ q # r /\ q \in Requests
      <4>1. Range(queue) \subseteq Requests
        BY <1>0, RangeOfSeq DEF EngineTypes
      <4>. QED
        BY <1>0, <1>3, <4>1 DEF Books
    <3>. QED
      BY <1>0, <1>1, <1>5, <3>1 DEF Outputs
  <2>3. \A q \in Range(handles') : sent'[q] <= Len(output'[q])
    <3>1. \A q \in Range(handles) : q \in Requests
      BY <1>0, RangeOfSeq DEF EngineTypes
    <3>2. sent[r] <= Len(output[r]) /\ Len(output[r]) <= n /\ sent[r] \in Nat /\ Len(output[r]) \in Nat
      BY <1>0, <1>2, <1>4 DEF Outputs, EngineTypes
    <3>. QED
      BY <1>0, <1>1, <1>5, <3>1, <3>2 DEF Outputs
  <2>4. \A q \in DOMAIN finished' :
          finished'[q] = output'[q] /\ (q \notin dropped' => output'[q] = Answer[q])
    <3>1. \A q \in DOMAIN finished : q \in Requests /\ q # r
      BY <1>0, <1>2 DEF EngineTypes
    <3>. QED
      BY <1>0, <1>1, <1>5, <1>6, <3>1 DEF Outputs
  <2>. QED
    BY <1>1, <2>1, <2>2, <2>3, <2>4 DEF Outputs
<1>11. \A q \in Requests : Delivery(q)' /\ (Unheard(q)' <=> Unheard(q))
  <2>1. UNCHANGED <<inbox, loopVars, handles, sent, calls, consumerVars>>
    BY <1>1
  <2>. QED
    BY <2>1, StreamsStay
<1>12. Inboxes'
  <2>1. InboxTrue' /\ InboxOnce'
    BY <1>0, <1>1 DEF Inboxes, InboxTrue, InboxOnce, Cut
  <2>2. \A q \in Requests : Unheard(q)' => q \notin Range(handles') /\ output'[q] = <<>>
    BY <1>0, <1>1, <1>2, <1>5, <1>11 DEF Inboxes
  <2>. QED
    BY <1>0, <1>1, <2>1, <2>2 DEF Inboxes
<1>. QED
  BY <1>7, <1>8, <1>9, <1>10, <1>11, <1>12 DEF EInv

LEMMA InStepKeeps ==
  ASSUME EInv, InStep
  PROVE  EInv'
<1>1. thread = "step" /\ UNCHANGED <<inbox, loopVars, threadVars, calls, consumerVars>>
  BY DEF InStep
<1>2. CASE Admit
  <2>1. /\ queue # <<>> /\ Advance(Head(queue)) /\ queue' = Tail(queue)
        /\ todo = {} /\ todo' = todo /\ phase' = phase
    BY <1>2 DEF Admit
  <2>2. Head(queue) \in Range(queue)
    <3>1. PICK s : s = queue
      OBVIOUS
    <3>2. s \in Seq(Requests) /\ s # <<>>
      BY <2>1, <3>1 DEF EInv, EngineTypes
    <3>3. Head(s) \in Range(s)
      BY <3>2, TailElements
    <3>. QED
      BY <3>1, <3>3
  <2>3. PICK r \in Range(queue) \cup running : r = Head(queue)
    BY <2>2
  <2>4. Advance(r) /\ UNCHANGED phase /\ todo' = {}
    BY <2>1, <2>3
  <2>. QED
    BY <1>1, <2>1, <2>3, <2>4, AdvanceKeeps
<1>3. ASSUME NEW r \in Requests, Accept(r) PROVE EInv'
  <2>1. r \in todo /\ Advance(r) /\ todo' = todo \ {r} /\ UNCHANGED queue /\ UNCHANGED phase
    BY <1>3 DEF Accept
  <2>2. r \in running
    BY <2>1 DEF EInv, EngineTypes
  <2>. QED
    BY <1>1, <2>1, <2>2, AdvanceKeeps
<1>. QED
  BY <1>2, <1>3 DEF InStep

-----------------------------------------------------------------------------
(* The event loop.                                                         *)

LEMMA StartKeeps ==
  ASSUME EInv, Start
  PROVE  EInv'
<1>0. EngineTypes /\ Books /\ Threads /\ Outputs /\ Inboxes
  BY DEF EInv
<1>1. /\ ~ started /\ thread = "ended" /\ phase # "raised" /\ started' = TRUE /\ starts' = starts + 1
      /\ thread' = "drain" /\ stopping' = 0 /\ stale' = stale + stopping
      /\ UNCHANGED <<queue, running, finished, output, phase, todo, inbox, submitted, asked,
                     handles, sent, dropped, calls, events, text, done>>
  BY DEF Start, machineVars, consumerVars
<1>2. thread = "ended" /\ phase = "idle" /\ handles = <<>>
  BY <1>0, <1>1 DEF Threads
<1>3. Range(queue) = {} /\ running = {} /\ DOMAIN finished = {}
  <2>1. Range(handles) = {}
    BY <1>2 DEF Range
  <2>. QED
    BY <1>0, <2>1 DEF Books
<1>4. EngineTypes'
  BY <1>0, <1>1 DEF EngineTypes
<1>5. Books'
  BY <1>0, <1>1 DEF Books
<1>6. Threads'
  BY <1>0, <1>1, <1>2 DEF Threads, EngineTypes
<1>7. Outputs'
  BY <1>0, <1>1, <1>3 DEF Outputs
<1>8. \A r \in Requests : Unheard(r)' <=> Unheard(r)
  BY <1>1 DEF Unheard
<1>9. Inboxes'
  <2>1. Cut => Cut'
    BY <1>0, <1>1 DEF Cut, EngineTypes
  <2>2. InboxTrue' /\ InboxOnce'
    BY <1>0, <1>1, <2>1 DEF Inboxes, InboxTrue, InboxOnce
  <2>. QED
    BY <1>0, <1>1, <1>8, <2>2 DEF Inboxes
<1>10. ASSUME NEW r \in Requests PROVE Delivery(r)'
  <2>1. Cut => Cut'
    BY <1>0, <1>1 DEF Cut, EngineTypes
  <2>2. Told(r) \subseteq Told(r)'
    BY <1>1, <2>1, ToldGrows
  <2>. QED
    BY <1>1, <1>8, <2>2, DeliveryStays
<1>. QED
  BY <1>4, <1>5, <1>6, <1>7, <1>9, <1>10 DEF EInv

LEMMA StoppedKeeps ==
  ASSUME EInv, Stopped
  PROVE  EInv'
<1>0. EngineTypes /\ Books /\ Threads /\ Outputs /\ Inboxes
  BY DEF EInv
<1>1. /\ started' = FALSE
      /\ \/ stopping > 0 /\ thread = "ended" /\ stopping' = stopping - 1 /\ stale' = stale
         \/ stale > 0 /\ stale' = stale - 1 /\ stopping' = stopping
      /\ UNCHANGED <<queue, running, finished, output, phase, todo, inbox, submitted, asked,
                     starts, thread, handles, sent, dropped, calls, events, text, done>>
  BY DEF Stopped, machineVars, threadVars, consumerVars
<1>4. EngineTypes'
  <2>1. stopping' \in Nat /\ stale' \in Nat
    BY <1>0, <1>1 DEF EngineTypes
  <2>. QED
    BY <1>0, <1>1, <2>1 DEF EngineTypes
<1>5. Books'
  BY <1>0, <1>1 DEF Books
<1>6. Threads'
  BY <1>0, <1>1 DEF Threads
<1>7. Outputs'
  BY <1>0, <1>1 DEF Outputs
<1>8. \A r \in Requests : Unheard(r)' <=> Unheard(r)
  BY <1>1 DEF Unheard
<1>9. Inboxes'
  <2>1. Cut => Cut'
    BY <1>1 DEF Cut
  <2>2. InboxTrue' /\ InboxOnce'
    BY <1>0, <1>1, <2>1 DEF Inboxes, InboxTrue, InboxOnce
  <2>. QED
    BY <1>0, <1>1, <1>8, <2>2 DEF Inboxes
<1>10. ASSUME NEW r \in Requests PROVE Delivery(r)'
  <2>1. Cut => Cut'
    BY <1>1 DEF Cut
  <2>2. Told(r) \subseteq Told(r)'
    BY <1>1, <2>1, ToldGrows
  <2>. QED
    BY <1>1, <1>8, <2>2, DeliveryStays
<1>. QED
  BY <1>4, <1>5, <1>6, <1>7, <1>9, <1>10 DEF EInv

(* What a message more does to the inbox. *)
LEMMA InboxAppend ==
  ASSUME EInv, NEW msg \in Messages, inbox' = Append(inbox, msg),
         submitted \subseteq submitted', Cut => Cut', \A r \in Requests : asked[r] > 0 => asked'[r] > 0,
         /\ msg.op = "add" => msg.id \in submitted' /\ msg.id \notin submitted
         /\ msg.op = "cancel" => asked'[msg.id] > 0
         /\ msg.op = "stop" => Cut'
  PROVE  /\ inbox' \in Seq(Messages) /\ InboxTrue' /\ InboxOnce'
         /\ Range(inbox') = Range(inbox) \cup {msg}
<1>0. inbox \in Seq(Messages) /\ InboxTrue /\ InboxOnce
  BY DEF EInv, EngineTypes, Inboxes
<1>1. PICK n \in Nat : n = Len(inbox)
  BY <1>0, LenProperties
<1>2. PICK t \in Seq(Messages) : t = inbox'
  BY <1>0
<1>3. Len(t) = n + 1 /\ t[n + 1] = msg /\ Range(t) = Range(inbox) \cup {msg}
      /\ \A i \in 1 .. n : t[i] = inbox[i] /\ t[i] \in Messages
  <2>1. \A i \in 1 .. n : inbox[i] \in Messages
    BY <1>0, <1>1
  <2>. QED
    BY <1>0, <1>1, <1>2, <2>1, AppendElements
<1>4. InboxTrue'
  <2>. SUFFICES ASSUME NEW i \in 1 .. n + 1
                PROVE  /\ t[i].op = "add" => t[i].id \in submitted'
                       /\ t[i].op = "cancel" => asked'[t[i].id] > 0
                       /\ t[i].op = "stop" => Cut'
    BY <1>2, <1>3 DEF InboxTrue
  <2>1. CASE i = n + 1
    BY <1>3, <2>1
  <2>2. CASE i # n + 1
    <3>1. i \in 1 .. Len(inbox) /\ t[i] = inbox[i]
      BY <1>1, <1>3, <2>2
    <3>2. inbox[i].op = "cancel" => inbox[i].id \in Requests
      BY <1>3, <1>1, <3>1 DEF Messages
    <3>. QED
      BY <1>0, <3>1, <3>2 DEF InboxTrue
  <2>. QED
    BY <2>1, <2>2
<1>5. InboxOnce'
  <2>. SUFFICES ASSUME NEW i \in 1 .. n + 1, NEW j \in 1 .. n + 1, t[i] = t[j],
                       t[i].op = "add"
                PROVE  i = j
    BY <1>2, <1>3 DEF InboxOnce
  <2>1. ASSUME NEW k \in 1 .. n, t[k] = msg, t[k] = t[i] PROVE FALSE
    <3>1. inbox[k] = msg /\ k \in 1 .. Len(inbox)
      BY <1>1, <1>3, <2>1
    <3>. QED
      BY <1>0, <2>1, <3>1 DEF InboxTrue
  <2>2. CASE i = n + 1 /\ j # n + 1
    <3>1. j \in 1 .. n
      BY <2>2
    <3>. QED
      BY <1>3, <2>1, <2>2, <3>1
  <2>3. CASE j = n + 1 /\ i # n + 1
    <3>1. i \in 1 .. n
      BY <2>3
    <3>. QED
      BY <1>3, <2>1, <2>3, <3>1
  <2>4. CASE i # n + 1 /\ j # n + 1
    <3>1. i \in 1 .. Len(inbox) /\ j \in 1 .. Len(inbox) /\ t[i] = inbox[i] /\ t[j] = inbox[j]
      BY <1>1, <1>3, <2>4
    <3>. QED
      BY <1>0, <3>1 DEF InboxOnce
  <2>. QED
    BY <2>2, <2>3, <2>4
<1>. QED
  BY <1>2, <1>3, <1>4, <1>5

LEMMA StopKeeps ==
  ASSUME EInv, Stop
  PROVE  EInv'
<1>0. EngineTypes /\ Books /\ Threads /\ Outputs /\ Inboxes
  BY DEF EInv
<1>1. /\ started /\ stopping' = stopping + 1 /\ inbox' = Append(inbox, [op |-> "stop"])
      /\ UNCHANGED <<queue, running, finished, output, phase, todo, submitted, asked, started,
                     stale, starts, thread, handles, sent, dropped, calls, events, text, done>>
  BY DEF Stop, machineVars, threadVars, consumerVars
<1>3. Cut'
  BY <1>0, <1>1 DEF Cut, EngineTypes, Threads
<1>2. /\ inbox' \in Seq(Messages) /\ InboxTrue' /\ InboxOnce'
      /\ Range(inbox') = Range(inbox) \cup {[op |-> "stop"]}
  <2>1. [op |-> "stop"] \in Messages
    BY DEF Messages
  <2>2. PICK msg \in Messages : msg = [op |-> "stop"]
    BY <2>1
  <2>3. msg.op = "stop"
    BY <2>2
  <2>. QED
    BY <1>1, <1>3, <2>2, <2>3, InboxAppend
<1>4. EngineTypes'
  BY <1>0, <1>1, <1>2 DEF EngineTypes
<1>5. Books'
  BY <1>0, <1>1 DEF Books
<1>6. Threads'
  BY <1>0, <1>1 DEF Threads
<1>7. Outputs'
  BY <1>0, <1>1 DEF Outputs
<1>8. \A r \in Requests : Unheard(r)' <=> Unheard(r)
  BY <1>1, <1>2 DEF Unheard
<1>9. Inboxes'
  BY <1>0, <1>1, <1>2, <1>8 DEF Inboxes
<1>10. ASSUME NEW r \in Requests PROVE Delivery(r)'
  <2>1. Cut => Cut'
    BY <1>3
  <2>2. Told(r) \subseteq Told(r)'
    BY <1>1, <2>1, ToldGrows
  <2>. QED
    BY <1>1, <1>8, <2>2, DeliveryStays
<1>. QED
  BY <1>4, <1>5, <1>6, <1>7, <1>9, <1>10 DEF EInv

LEMMA SubmitKeeps ==
  ASSUME EInv, NEW q \in Requests, Submit(q)
  PROVE  EInv'
<1>0. EngineTypes /\ Books /\ Threads /\ Outputs /\ Inboxes
  BY DEF EInv
<1>1. /\ q \notin submitted /\ submitted' = submitted \cup {q}
      /\ inbox' = Append(inbox, [op |-> "add", id |-> q])
      /\ UNCHANGED <<queue, running, finished, output, phase, todo, asked, started, stopping, stale,
                     starts, thread, handles, sent, dropped, calls, events, text, done>>
  BY DEF Submit, stopVars, machineVars, threadVars, consumerVars
<1>2. /\ inbox' \in Seq(Messages) /\ InboxTrue' /\ InboxOnce'
      /\ Range(inbox') = Range(inbox) \cup {[op |-> "add", id |-> q]}
  <2>1. [op |-> "add", id |-> q] \in Messages
    BY DEF Messages
  <2>2. PICK msg \in Messages : msg = [op |-> "add", id |-> q]
    BY <2>1
  <2>3. msg.op = "add" /\ msg.id = q
    BY <2>2
  <2>4. Cut => Cut'
    BY <1>1 DEF Cut
  <2>. QED
    BY <1>1, <2>2, <2>3, <2>4, InboxAppend
<1>4. EngineTypes'
  BY <1>0, <1>1, <1>2 DEF EngineTypes
<1>5. Books'
  BY <1>0, <1>1 DEF Books
<1>6. Threads'
  BY <1>0, <1>1 DEF Threads
<1>7. Outputs'
  BY <1>0, <1>1 DEF Outputs
<1>8. \A r \in Requests : Unheard(r)' <=> Unheard(r)
  <2>. SUFFICES ASSUME NEW r \in Requests PROVE Unheard(r)' <=> Unheard(r)
    OBVIOUS
  <2>1. CASE r = q
    BY <1>1, <1>2, <2>1 DEF Unheard
  <2>2. CASE r # q
    BY <1>1, <1>2, <2>2 DEF Unheard
  <2>. QED
    BY <2>1, <2>2
<1>9. Inboxes'
  BY <1>0, <1>1, <1>2, <1>8 DEF Inboxes
<1>10. ASSUME NEW r \in Requests PROVE Delivery(r)'
  <2>1. Cut => Cut'
    BY <1>1 DEF Cut
  <2>2. Told(r) \subseteq Told(r)'
    BY <1>1, <2>1, ToldGrows
  <2>. QED
    BY <1>1, <1>8, <2>2, DeliveryStays
<1>. QED
  BY <1>4, <1>5, <1>6, <1>7, <1>9, <1>10 DEF EInv

LEMMA CancelKeeps ==
  ASSUME EInv, NEW q \in Requests, Cancel(q)
  PROVE  EInv'
<1>0. EngineTypes /\ Books /\ Threads /\ Outputs /\ Inboxes
  BY DEF EInv
<1>1. /\ asked' = [asked EXCEPT ![q] = @ + 1]
      /\ inbox' = Append(inbox, [op |-> "cancel", id |-> q])
      /\ UNCHANGED <<queue, running, finished, output, phase, todo, submitted, started, stopping, stale,
                     starts, thread, handles, sent, dropped, calls, events, text, done>>
  BY DEF Cancel, stopVars, machineVars, threadVars, consumerVars
<1>2. /\ asked' \in [Requests -> Nat] /\ asked'[q] > 0
      /\ \A r \in Requests : asked[r] > 0 => asked'[r] > 0
  <2>1. asked \in [Requests -> Nat]
    BY <1>0 DEF EngineTypes
  <2>. QED
    BY <1>1, <2>1
<1>3. /\ inbox' \in Seq(Messages) /\ InboxTrue' /\ InboxOnce'
      /\ Range(inbox') = Range(inbox) \cup {[op |-> "cancel", id |-> q]}
  <2>1. [op |-> "cancel", id |-> q] \in Messages
    BY DEF Messages
  <2>2. PICK msg \in Messages : msg = [op |-> "cancel", id |-> q]
    BY <2>1
  <2>3. msg.op = "cancel" /\ msg.id = q
    BY <2>2
  <2>4. Cut => Cut'
    BY <1>1 DEF Cut
  <2>. QED
    BY <1>1, <1>2, <2>2, <2>3, <2>4, InboxAppend
<1>4. EngineTypes'
  BY <1>0, <1>1, <1>2, <1>3 DEF EngineTypes
<1>5. Books'
  BY <1>0, <1>1 DEF Books
<1>6. Threads'
  BY <1>0, <1>1 DEF Threads
<1>7. Outputs'
  BY <1>0, <1>1 DEF Outputs
<1>8. \A r \in Requests : Unheard(r)' <=> Unheard(r)
  BY <1>1, <1>3 DEF Unheard
<1>9. Inboxes'
  <2>1. \A r \in dropped : r \in Requests
    BY <1>0 DEF Books, EngineTypes
  <2>. QED
    BY <1>0, <1>1, <1>2, <1>3, <1>8, <2>1 DEF Inboxes
<1>10. ASSUME NEW r \in Requests PROVE Delivery(r)'
  <2>1. Cut => Cut'
    BY <1>1 DEF Cut
  <2>2. Told(r) \subseteq Told(r)'
    BY <1>1, <1>2, <2>1, ToldGrows
  <2>. QED
    BY <1>1, <1>8, <2>2, DeliveryStays
<1>. QED
  BY <1>4, <1>5, <1>6, <1>7, <1>9, <1>10 DEF EInv

(* A step that moves events along changes nothing but streams. *)
LEMMA OnlyStreams ==
  ASSUME EInv, UNCHANGED <<machineVars, inbox, loopVars, threadVars>>
  PROVE  /\ Books' /\ Threads' /\ Outputs' /\ Inboxes'
         /\ \A r \in Requests : Told(r)' = Told(r) /\ (Unheard(r)' <=> Unheard(r))
<1>0. Books /\ Threads /\ Outputs /\ Inboxes
  BY DEF EInv
<1>1. UNCHANGED <<queue, running, finished, output, phase, todo, inbox, submitted, asked, started,
                  stopping, stale, starts, thread, handles, sent, dropped>>
  BY DEF machineVars, loopVars, stopVars, threadVars
<1>2. Books'
  BY <1>0, <1>1 DEF Books
<1>3. Threads'
  BY <1>0, <1>1 DEF Threads
<1>4. Outputs'
  BY <1>0, <1>1 DEF Outputs
<1>5. \A r \in Requests : Unheard(r)' <=> Unheard(r)
  BY <1>1 DEF Unheard
<1>6. Inboxes'
  <2>1. InboxTrue' /\ InboxOnce'
    BY <1>0, <1>1 DEF Inboxes, InboxTrue, InboxOnce, Cut
  <2>. QED
    BY <1>0, <1>1, <1>5, <2>1 DEF Inboxes
<1>7. \A r \in Requests : Told(r)' = Told(r)
  <2>1. Cut' <=> Cut
    BY <1>1 DEF Cut
  <2>. QED
    BY <1>1, <2>1 DEF Told
<1>. QED
  BY <1>2, <1>3, <1>4, <1>5, <1>6, <1>7

LEMMA RunCallbackKeeps ==
  ASSUME EInv, RunCallback
  PROVE  EInv'
<1>1. /\ calls # <<>> /\ calls' = Tail(calls)
      /\ events' = [events EXCEPT ![Head(calls).id] = Append(@, Head(calls).event)]
      /\ UNCHANGED <<machineVars, inbox, loopVars, threadVars, text, done>>
  BY DEF RunCallback
<1>2. UNCHANGED <<queue, running, finished, output, phase, todo, inbox, submitted, asked, started,
                  stopping, stale, starts, thread, handles, sent, dropped, text, done>>
  BY <1>1 DEF machineVars, loopVars, stopVars, threadVars
<1>3. /\ Books' /\ Threads' /\ Outputs' /\ Inboxes'
      /\ \A r \in Requests : Told(r)' = Told(r) /\ (Unheard(r)' <=> Unheard(r))
  BY <1>1, OnlyStreams
<1>4. calls \in Seq(Calls) /\ events \in [Requests -> Seq(Events)]
  BY DEF EInv, EngineTypes
<1>5. PICK c \in Calls : c = Head(calls) /\ calls' \in Seq(Calls) /\ c.id \in Requests /\ c.event \in Events
  <2>1. PICK s \in Seq(Calls) : s = calls
    BY <1>4
  <2>2. Head(s) \in Calls /\ Tail(s) \in Seq(Calls)
    BY <1>1, <2>1, TailElements
  <2>3. Head(s).id \in Requests /\ Head(s).event \in Events
    BY <2>2 DEF Calls
  <2>. QED
    BY <1>1, <2>1, <2>2, <2>3
<1>6. /\ events' \in [Requests -> Seq(Events)] /\ events'[c.id] = Append(events[c.id], c.event)
      /\ \A r \in Requests : r # c.id => events'[r] = events[r]
  BY <1>1, <1>4, <1>5
<1>7. EngineTypes'
  BY <1>2, <1>5, <1>6 DEF EInv, EngineTypes
<1>8. ASSUME NEW r \in Requests PROVE Delivery(r)'
  <2>1. Delivery(r) /\ events[r] \in Seq(Events)
    BY <1>4 DEF EInv
  <2>2. PICK m \in 0 .. Len(Answer[r]), b \in 0 .. Len(Answer[r]) :
          /\ EventsTake(events[r], r, Len(text[r]), m, Told(r))
          /\ CallsTake(calls, r, m, b, Told(r))
          /\ r \in Range(handles) => b = sent[r]
          /\ Unheard(r) => b = 0
    BY <2>1 DEF Delivery
  <2>3. PICK k \in 0 .. Len(Answer[r]) :
          CallTakes(c, r, m, k, Told(r)) /\ CallsTake(calls', r, k, b, Told(r))
    BY <1>1, <1>4, <1>5, <2>2, CallsHead
  <2>4. EventsTake(events'[r], r, Len(text[r]), k, Told(r))
    <3>1. CASE c.id = r
      <4>1. Takes(c.event, r, m, k, Told(r))
        BY <2>3, <3>1 DEF CallTakes
      <4>2. PICK evs \in Seq(Events), ev \in Events : evs = events[r] /\ ev = c.event
        BY <1>5, <2>1
      <4>3. EventsTake(evs, r, Len(text[r]), m, Told(r)) /\ Takes(ev, r, m, k, Told(r))
        BY <2>2, <4>1, <4>2
      <4>4. EventsTake(Append(evs, ev), r, Len(text[r]), k, Told(r))
        BY <4>3, EventsAppend
      <4>. QED
        BY <1>6, <3>1, <4>2, <4>4
    <3>2. CASE c.id # r
      <4>1. m = k
        BY <2>3, <3>2 DEF CallTakes
      <4>. QED
        BY <1>6, <2>2, <3>2, <4>1
    <3>. QED
      BY <3>1, <3>2
  <2>. QED
    BY <1>2, <1>3, <2>1, <2>2, <2>3, <2>4 DEF Delivery
<1>. QED
  BY <1>3, <1>7, <1>8 DEF EInv

(* What the next event of a handle says. *)
LEMMA NextEvent ==
  ASSUME EInv, NEW r \in Requests, events[r] # <<>>
  PROVE  \E n, b \in 0 .. Len(Answer[r]), k \in 0 .. Len(Answer[r]) :
           /\ Takes(Head(events[r]), r, Len(text[r]), k, Told(r))
           /\ EventsTake(Tail(events[r]), r, k, n, Told(r))
           /\ CallsTake(calls, r, n, b, Told(r))
           /\ r \in Range(handles) => b = sent[r]
           /\ Unheard(r) => b = 0
<1>1. Delivery(r) /\ events[r] \in Seq(Events)
  BY DEF EInv, EngineTypes
<1>2. PICK n \in 0 .. Len(Answer[r]), b \in 0 .. Len(Answer[r]) :
        /\ EventsTake(events[r], r, Len(text[r]), n, Told(r))
        /\ CallsTake(calls, r, n, b, Told(r))
        /\ r \in Range(handles) => b = sent[r]
        /\ Unheard(r) => b = 0
  BY <1>1 DEF Delivery
<1>3. PICK k \in 0 .. Len(Answer[r]) :
        /\ Takes(Head(events[r]), r, Len(text[r]), k, Told(r))
        /\ EventsTake(Tail(events[r]), r, k, n, Told(r))
  BY <1>1, <1>2, EventsHead
<1>. QED
  BY <1>2, <1>3

LEMMA ConsumeKeeps ==
  ASSUME EInv, NEW q \in Requests, Consume(q)
  PROVE  EInv'
<1>1. /\ events[q] # <<>> /\ events' = [events EXCEPT ![q] = Tail(@)]
      /\ UNCHANGED <<machineVars, inbox, loopVars, threadVars, calls>>
      /\ \/ /\ Head(events[q]).type = "chunk"
            /\ text' = [text EXCEPT ![q] = @ \o Head(events[q]).ids] /\ done' = done
         \/ /\ Head(events[q]).type = "done" /\ text' = text
            /\ done' = [done EXCEPT ![q] = [reason |-> Head(events[q]).reason,
                                            ids |-> Head(events[q]).ids]]
  BY DEF Consume
<1>2. UNCHANGED <<queue, running, finished, output, phase, todo, inbox, submitted, asked, started,
                  stopping, stale, starts, thread, handles, sent, dropped, calls>>
  BY <1>1 DEF machineVars, loopVars, stopVars, threadVars
<1>3. /\ Books' /\ Threads' /\ Outputs' /\ Inboxes'
      /\ \A r \in Requests : Told(r)' = Told(r) /\ (Unheard(r)' <=> Unheard(r))
  BY <1>1, OnlyStreams
<1>4. events \in [Requests -> Seq(Events)] /\ text \in [Requests -> Seq(Tok)] /\ DOMAIN done = Requests
  BY DEF EInv, EngineTypes
<1>5. Tail(events[q]) \in Seq(Events) /\ events[q] \in Seq(Events)
  BY <1>1, <1>4
<1>6. /\ events' \in [Requests -> Seq(Events)] /\ events'[q] = Tail(events[q])
      /\ \A r \in Requests : r # q => events'[r] = events[r]
  BY <1>1, <1>4, <1>5
<1>7. /\ Len(text[q]) \in 0 .. Len(Answer[q]) /\ text[q] = UpTo(q, Len(text[q]))
      /\ done[q] # NoDone => TrueReason(q, done[q].reason, done[q].ids, Told(q))
  <2>1. text[q] \in Seq(Tok) /\ Len(text[q]) \in Nat /\ Len(Answer[q]) \in Nat
    BY <1>4, AnswerTypes, LenProperties
  <2>. QED
    BY <2>1 DEF EInv, Delivery
<1>8. PICK n \in 0 .. Len(Answer[q]), b \in 0 .. Len(Answer[q]), k \in 0 .. Len(Answer[q]) :
        /\ Takes(Head(events[q]), q, Len(text[q]), k, Told(q))
        /\ EventsTake(Tail(events[q]), q, k, n, Told(q))
        /\ CallsTake(calls, q, n, b, Told(q))
        /\ q \in Range(handles) => b = sent[q]
        /\ Unheard(q) => b = 0
  BY <1>1, NextEvent
<1>9. /\ text' \in [Requests -> Seq(Tok)] /\ DOMAIN done' = Requests
      /\ text'[q] = UpTo(q, k) /\ Len(text'[q]) = k
      /\ done'[q] # NoDone => TrueReason(q, done'[q].reason, done'[q].ids, Told(q))
      /\ \A r \in Requests : r # q => text'[r] = text[r] /\ done'[r] = done[r]
  <2>1. CASE /\ Head(events[q]).type = "chunk"
             /\ text' = [text EXCEPT ![q] = @ \o Head(events[q]).ids] /\ done' = done
    <3>1. Len(text[q]) < k /\ Head(events[q]).ids = SubSeq(Answer[q], Len(text[q]) + 1, k)
      BY <1>8, <2>1 DEF Takes
    <3>2. PICK a \in 0 .. k : a = Len(text[q])
      BY <1>7, <3>1
    <3>3. text[q] \o Head(events[q]).ids = UpTo(q, k)
      BY <1>7, <3>1, <3>2, Continues
    <3>4. UpTo(q, k) \in Seq(Tok) /\ Len(UpTo(q, k)) = k
      BY PrefixTypes
    <3>5. text' = [text EXCEPT ![q] = UpTo(q, k)]
      BY <2>1, <3>3, Zenon
    <3>. QED
      BY <1>4, <1>7, <2>1, <3>4, <3>5
  <2>2. CASE /\ Head(events[q]).type = "done" /\ text' = text
             /\ done' = [done EXCEPT ![q] = [reason |-> Head(events[q]).reason,
                                             ids |-> Head(events[q]).ids]]
    <3>1. /\ Len(text[q]) = k
          /\ TrueReason(q, Head(events[q]).reason, Head(events[q]).ids, Told(q))
      BY <1>8, <2>2 DEF Takes
    <3>2. done'[q].reason = Head(events[q]).reason /\ done'[q].ids = Head(events[q]).ids
      BY <1>4, <2>2
    <3>3. TrueReason(q, done'[q].reason, done'[q].ids, Told(q))
      BY <3>1, <3>2
    <3>. QED
      BY <1>4, <1>7, <2>2, <3>1, <3>3
  <2>. QED
    BY <1>1, <2>1, <2>2
<1>10. EngineTypes'
  BY <1>2, <1>6, <1>9 DEF EInv, EngineTypes
<1>11. ASSUME NEW r \in Requests PROVE Delivery(r)'
  <2>1. CASE r = q
    <3>1. k <= Len(Answer[r])
      BY <2>1, AnswerTypes
    <3>. QED
      BY <1>2, <1>3, <1>6, <1>8, <1>9, <2>1, <3>1 DEF Delivery
  <2>2. CASE r # q
    <3>1. Told(r) \subseteq Told(r)' /\ (Unheard(r)' => Unheard(r))
      BY <1>3
    <3>. QED
      BY <1>2, <1>6, <1>9, <2>2, <3>1, DeliveryStays
  <2>. QED
    BY <2>1, <2>2
<1>. QED
  BY <1>3, <1>10, <1>11 DEF EInv

-----------------------------------------------------------------------------
(* The engine thread's own work.                                           *)

(* What taking a message does to the inbox. *)
LEMMA InboxTaken ==
  ASSUME EInv, NEW op, Get(op)
  PROVE  /\ Head(inbox) \in Messages /\ Head(inbox).op = op /\ Head(inbox) \in Range(inbox)
         /\ thread = "drain" /\ phase = "idle"
         /\ inbox' \in Seq(Messages) /\ InboxTrue' /\ InboxOnce'
         /\ Range(inbox') \subseteq Range(inbox) /\ Range(inbox) \subseteq Range(inbox') \cup {Head(inbox)}
         /\ op = "add" => Head(inbox) \notin Range(inbox') /\ Head(inbox).id \in submitted
         /\ op = "cancel" => asked[Head(inbox).id] > 0
         /\ op = "stop" => Cut
<1>0. /\ inbox \in Seq(Messages) /\ InboxTrue /\ InboxOnce /\ Threads
      /\ thread = "drain" /\ inbox # <<>> /\ Head(inbox).op = op /\ inbox' = Tail(inbox)
      /\ UNCHANGED <<submitted, asked>> /\ Cut' = Cut
  BY DEF EInv, EngineTypes, Inboxes, Get, loopVars, stopVars, Cut
<1>1. phase = "idle"
  BY <1>0 DEF Threads
<1>2. PICK s \in Seq(Messages) : s = inbox
  BY <1>0
<1>3. PICK t \in Seq(Messages) :
        /\ t = inbox' /\ Len(t) = Len(s) - 1 /\ Len(s) > 0
        /\ \A i \in 1 .. Len(s) - 1 : t[i] = s[i + 1]
        /\ Head(s) = s[1] /\ Head(s) \in Messages /\ Head(s) \in Range(s)
        /\ \A b : b \in Range(s) <=> b = Head(s) \/ b \in Range(t)
  BY <1>0, <1>2, TailElements
<1>4. PICK n \in Nat : Len(s) = n + 1 /\ Len(t) = n
  <2>1. Len(s) \in Nat
    BY LenProperties
  <2>. QED
    BY <1>3, <2>1
<1>5. /\ s[1].op = op /\ 1 \in 1 .. n + 1
      /\ \A i \in 1 .. n : i + 1 \in 1 .. n + 1 /\ t[i] = s[i + 1]
  BY <1>0, <1>2, <1>3, <1>4
<1>6. /\ \A i \in 1 .. n + 1 :
           /\ s[i].op = "add" => s[i].id \in submitted
           /\ s[i].op = "cancel" => asked[s[i].id] > 0
           /\ s[i].op = "stop" => Cut
      /\ \A i, j \in 1 .. n + 1 : s[i] = s[j] /\ s[i].op = "add" => i = j
  BY <1>0, <1>2, <1>4 DEF InboxTrue, InboxOnce
<1>8. InboxTrue'
  <2>. SUFFICES ASSUME NEW i \in 1 .. n
                PROVE  /\ t[i].op = "add" => t[i].id \in submitted
                       /\ t[i].op = "cancel" => asked[t[i].id] > 0
                       /\ t[i].op = "stop" => Cut
    BY <1>0, <1>3, <1>4 DEF InboxTrue
  <2>. QED
    BY <1>0, <1>5, <1>6
<1>9. InboxOnce'
  <2>1. ASSUME NEW i \in 1 .. n, NEW j \in 1 .. n, t[i] = t[j], t[i].op = "add"
        PROVE  i = j
    <3>1. i + 1 = j + 1
      BY <1>5, <1>6, <2>1
    <3>. QED
      BY <3>1
  <2>. QED
    BY <1>3, <1>4, <2>1 DEF InboxOnce
<1>10. op = "add" => s[1] \notin Range(t) /\ s[1].id \in submitted
  <2>1. ASSUME op = "add", s[1] \in Range(t) PROVE FALSE
    <3>1. PICK i \in 1 .. n : t[i] = s[1]
      BY <1>4, <2>1, RangeSeq
    <3>2. i + 1 = 1
      BY <1>5, <1>6, <2>1, <3>1
    <3>. QED
      BY <3>2
  <2>. QED
    BY <1>5, <1>6, <2>1
<1>11. (op = "cancel" => asked[s[1].id] > 0) /\ (op = "stop" => Cut)
  BY <1>5, <1>6
<1>. QED
  BY <1>0, <1>1, <1>2, <1>3, <1>8, <1>9, <1>10, <1>11

LEMMA GetAddKeeps ==
  ASSUME EInv, GetAdd
  PROVE  EInv'
<1>0. EngineTypes /\ Books /\ Threads /\ Outputs /\ Inboxes
  BY DEF EInv
<1>1. PICK q : q = Head(inbox).id
  OBVIOUS
<1>2. /\ Get("add") /\ q \notin Range(queue) \cup running \cup DOMAIN finished
      /\ queue' = Append(queue, q) /\ handles' = Append(handles, q)
      /\ sent' = [sent EXCEPT ![q] = 0]
      /\ UNCHANGED <<running, finished, output, phase, todo, thread, dropped, calls, events, text,
                     done, submitted, asked, started, stopping, stale, starts>>
  BY <1>1 DEF GetAdd, Enqueue, Get, loopVars, stopVars, consumerVars
<1>3. /\ Head(inbox) \in Messages /\ Head(inbox).op = "add" /\ Head(inbox) \in Range(inbox)
      /\ thread = "drain" /\ inbox' \in Seq(Messages) /\ InboxTrue' /\ InboxOnce'
      /\ Range(inbox') \subseteq Range(inbox) /\ Range(inbox) \subseteq Range(inbox') \cup {Head(inbox)}
      /\ Head(inbox) \notin Range(inbox') /\ q \in submitted
  BY <1>1, <1>2, InboxTaken
<1>4. q \in Requests /\ Head(inbox) = [op |-> "add", id |-> q]
  BY <1>1, <1>3 DEF Messages
<1>5. Unheard(q) /\ ~ Unheard(q)' /\ \A r \in Requests : Unheard(r)' => Unheard(r)
  BY <1>2, <1>3, <1>4 DEF Unheard
<1>6. q \notin Range(handles) /\ output[q] = <<>>
  BY <1>0, <1>4, <1>5 DEF Inboxes
<1>7. /\ queue' \in Seq(Requests) /\ Distinct(queue') /\ Range(queue') = Range(queue) \cup {q}
      /\ handles' \in Seq(Requests) /\ Distinct(handles') /\ Range(handles') = Range(handles) \cup {q}
  <2>1. ASSUME NEW s \in Seq(Requests), Distinct(s), q \notin Range(s)
        PROVE  /\ Append(s, q) \in Seq(Requests) /\ Distinct(Append(s, q))
               /\ Range(Append(s, q)) = Range(s) \cup {q}
    <3>1. PICK t \in Seq(Requests) :
            /\ t = Append(s, q) /\ Len(t) = Len(s) + 1 /\ t[Len(s) + 1] = q
            /\ \A i \in 1 .. Len(s) : t[i] = s[i]
            /\ Range(t) = Range(s) \cup {q}
      <4>1. PICK x \in Requests : x = q
        BY <1>4
      <4>2. PICK t : t = Append(s, x)
        OBVIOUS
      <4>3. /\ t \in Seq(Requests) /\ Len(t) = Len(s) + 1 /\ t[Len(s) + 1] = x
            /\ \A i \in 1 .. Len(s) : t[i] = s[i]
            /\ Range(t) = Range(s) \cup {x}
        BY <4>2, AppendElements
      <4>. QED
        BY <4>1, <4>2, <4>3
    <3>2. \A i \in 1 .. Len(s) : s[i] # q
      BY <2>1, RangeSeq
    <3>3. Len(s) \in Nat
      BY LenProperties
    <3>4. Distinct(t)
      BY <2>1, <3>1, <3>2, <3>3 DEF Distinct
    <3>. QED
      BY <3>1, <3>4
  <2>2. queue \in Seq(Requests) /\ handles \in Seq(Requests) /\ Distinct(queue) /\ Distinct(handles)
    BY <1>0 DEF EngineTypes, Books
  <2>. QED
    BY <1>2, <1>6, <2>1, <2>2
<1>8. /\ sent' \in [Requests -> Nat] /\ sent'[q] = 0
      /\ \A r \in Requests : r # q => sent'[r] = sent[r]
  <2>1. sent \in [Requests -> Nat]
    BY <1>0 DEF EngineTypes
  <2>. QED
    BY <1>2, <1>4, <2>1
<1>9. EngineTypes'
  BY <1>0, <1>2, <1>3, <1>7, <1>8 DEF EngineTypes
<1>10. Books'
  BY <1>0, <1>2, <1>7 DEF Books
<1>11. Threads'
  BY <1>0, <1>2, <1>3 DEF Threads
<1>12. Outputs'
  <2>1. Range(handles) \subseteq Requests /\ Range(queue) \subseteq Requests
        /\ running \cup DOMAIN finished \subseteq Range(handles)
    BY <1>0, RangeOfSeq DEF EngineTypes, Books
  <2>2. \A r \in Range(handles) \cup Range(queue) : r # q /\ sent'[r] = sent[r]
    BY <1>2, <1>6, <1>8, <2>1
  <2>3. Len(output[q]) = 0
    BY <1>6
  <2>. QED
    BY <1>0, <1>2, <1>6, <1>7, <1>8, <2>1, <2>2, <2>3 DEF Outputs
<1>13. Inboxes'
  <2>1. ASSUME NEW r \in Requests, Unheard(r)' PROVE r \notin Range(handles') /\ output'[r] = <<>>
    <3>1. r # q /\ Unheard(r)
      BY <1>5, <2>1
    <3>. QED
      BY <1>0, <1>2, <1>7, <3>1 DEF Inboxes
  <2>. QED
    BY <1>0, <1>2, <1>3, <2>1 DEF Inboxes
<1>14. ASSUME NEW r \in Requests PROVE Delivery(r)'
  <2>1. Told(r) \subseteq Told(r)'
    <3>1. Cut => Cut'
      BY <1>2 DEF Cut
    <3>. QED
      BY <1>2, <3>1, ToldGrows
  <2>2. (r \in Range(handles))' => \/ r \in Range(handles) /\ sent'[r] = sent[r]
                                   \/ Unheard(r) /\ sent'[r] = 0
    BY <1>5, <1>6, <1>7, <1>8
  <2>. QED
    BY <1>2, <1>5, <2>1, <2>2, DeliveryStays
<1>. QED
  BY <1>9, <1>10, <1>11, <1>12, <1>13, <1>14 DEF EInv

LEMMA GetCancelKeeps ==
  ASSUME EInv, GetCancel
  PROVE  EInv'
<1>0. EngineTypes /\ Books /\ Threads /\ Outputs /\ Inboxes
  BY DEF EInv
<1>1. PICK q : q = Head(inbox).id
  OBVIOUS
<1>2. /\ Get("cancel")
      /\ UNCHANGED <<output, phase, todo, thread, handles, sent, calls, events, text, done, submitted,
                     asked, started, stopping, stale, starts>>
      /\ \/ /\ q \in Range(handles) \ dropped /\ Abort(q) /\ dropped' = dropped \cup {q}
         \/ UNCHANGED <<queue, running, finished, dropped>>
  BY <1>1 DEF GetCancel, Abort, Get, loopVars, stopVars, consumerVars, machineVars
<1>3. /\ Head(inbox) \in Messages /\ Head(inbox).op = "cancel" /\ Head(inbox) \in Range(inbox)
      /\ thread = "drain" /\ phase = "idle" /\ inbox' \in Seq(Messages) /\ InboxTrue' /\ InboxOnce'
      /\ Range(inbox') \subseteq Range(inbox) /\ Range(inbox) \subseteq Range(inbox') \cup {Head(inbox)}
      /\ asked[q] > 0
  BY <1>1, <1>2, InboxTaken
<1>4. q \in Requests /\ \A r \in Requests : [op |-> "add", id |-> r] # Head(inbox)
  BY <1>1, <1>3 DEF Messages
<1>5. \A r \in Requests : Unheard(r)' <=> Unheard(r)
  BY <1>2, <1>3, <1>4 DEF Unheard
<1>6. /\ queue' \in Seq(Requests) /\ Distinct(queue') /\ running' \subseteq running
      /\ \/ UNCHANGED <<queue, running, finished, dropped>>
         \/ /\ q \in Range(queue) \cup running /\ Range(queue') = Range(queue) \ {q}
            /\ running' = running \ {q} /\ DOMAIN finished' = DOMAIN finished \cup {q}
            /\ finished'[q] = output[q] /\ sent[q] = Len(output[q])
            /\ \A r \in DOMAIN finished : finished'[r] = finished[r]
            /\ dropped' = dropped \cup {q}
  <2>1. queue \in Seq(Requests) /\ Distinct(queue)
    BY <1>0 DEF EngineTypes, Books
  <2>2. CASE UNCHANGED <<queue, running, finished, dropped>>
    BY <2>1, <2>2
  <2>3. CASE q \in Range(handles) \ dropped /\ Abort(q) /\ dropped' = dropped \cup {q}
    <3>1. queue' \in Without(queue, {q}) /\ running' = running \ {q}
      BY <2>3 DEF Abort
    <3>2. queue' \in Seq(Requests) /\ Distinct(queue') /\ Range(queue') = Range(queue) \ {q}
      BY <2>1, <3>1, WithoutLeaves
    <3>3. /\ q \in Range(queue) \cup running /\ finished' = Recorded(q, output[q])
          /\ sent[q] = Len(output[q])
      <4>1. CASE q \in Range(queue) /\ finished' = Recorded(q, <<>>)
        <5>1. output[q] = <<>> /\ sent[q] = 0
          BY <1>0, <4>1 DEF Outputs
        <5>. QED
          BY <4>1, <5>1
      <4>2. CASE q \in running /\ finished' = Recorded(q, output[q])
        BY <1>0, <1>3, <4>2 DEF Outputs
      <4>. QED
        BY <2>3, <4>1, <4>2 DEF Abort
    <3>4. q \notin DOMAIN finished
      BY <1>0, <3>3 DEF Books
    <3>5. /\ DOMAIN finished' = DOMAIN finished \cup {q} /\ finished'[q] = output[q]
          /\ \A r \in DOMAIN finished : finished'[r] = finished[r]
      BY <3>3, <3>4 DEF Recorded
    <3>. QED
      BY <2>3, <3>1, <3>2, <3>3, <3>5
  <2>. QED
    BY <1>2, <2>2, <2>3
<1>7. todo = {}
  BY <1>0, <1>3 DEF Threads
<1>8. EngineTypes'
  <2>1. running' \subseteq Requests /\ DOMAIN finished' \subseteq Requests /\ todo' \subseteq running'
    BY <1>0, <1>2, <1>4, <1>6, <1>7 DEF EngineTypes
  <2>. QED
    BY <1>0, <1>2, <1>3, <1>6, <2>1 DEF EngineTypes
<1>9. Books'
  <2>1. CASE UNCHANGED <<queue, running, finished, dropped>>
    BY <1>0, <1>2, <2>1 DEF Books
  <2>2. CASE /\ q \in Range(queue) \cup running /\ Range(queue') = Range(queue) \ {q}
             /\ running' = running \ {q} /\ DOMAIN finished' = DOMAIN finished \cup {q}
             /\ dropped' = dropped \cup {q}
    BY <1>0, <1>2, <1>6, <2>2 DEF Books
  <2>. QED
    BY <1>6, <2>1, <2>2
<1>10. Threads'
  BY <1>0, <1>2, <1>3 DEF Threads
<1>11. Outputs'
  <2>1. CASE UNCHANGED <<queue, running, finished, dropped>>
    BY <1>0, <1>2, <2>1 DEF Outputs
  <2>2. CASE /\ q \in Range(queue) \cup running /\ Range(queue') = Range(queue) \ {q}
             /\ running' = running \ {q} /\ DOMAIN finished' = DOMAIN finished \cup {q}
             /\ finished'[q] = output[q] /\ sent[q] = Len(output[q])
             /\ \A r \in DOMAIN finished : finished'[r] = finished[r]
             /\ dropped' = dropped \cup {q}
    <3>1. \A r \in DOMAIN finished' :
            finished'[r] = output[r] /\ (r \notin dropped' => output[r] = Answer[r])
      BY <1>0, <2>2 DEF Outputs
    <3>2. \A r \in running' \cup DOMAIN finished' : sent[r] = Len(output[r])
      BY <1>0, <1>3, <2>2 DEF Outputs
    <3>. QED
      BY <1>0, <1>2, <2>2, <3>1, <3>2 DEF Outputs
  <2>. QED
    BY <1>6, <2>1, <2>2
<1>12. Inboxes'
  BY <1>0, <1>2, <1>3, <1>5, <1>6 DEF Inboxes
<1>13. ASSUME NEW r \in Requests PROVE Delivery(r)'
  <2>1. Told(r) \subseteq Told(r)'
    <3>1. Cut => Cut'
      BY <1>2 DEF Cut
    <3>. QED
      BY <1>2, <3>1, ToldGrows
  <2>. QED
    BY <1>2, <1>5, <2>1, DeliveryStays
<1>. QED
  BY <1>8, <1>9, <1>10, <1>11, <1>12, <1>13 DEF EInv

LEMMA GetStopKeeps ==
  ASSUME EInv, GetStop
  PROVE  EInv'
<1>0. EngineTypes /\ Books /\ Threads /\ Outputs /\ Inboxes
  BY DEF EInv
<1>1. /\ Get("stop") /\ queue' \in Without(queue, Range(handles))
      /\ running' = running \ Range(handles)
      /\ finished' = [r \in DOMAIN finished \ Range(handles) |-> finished[r]]
      /\ calls' = calls \o ShutdownCalls /\ handles' = <<>> /\ dropped' = {} /\ thread' = "ended"
      /\ UNCHANGED <<output, phase, todo, sent, events, text, done, submitted, asked, started,
                     stopping, stale, starts>>
  BY DEF GetStop, Shutdown, Get, loopVars, stopVars, consumerVars
<1>2. /\ Head(inbox) \in Messages /\ Head(inbox).op = "stop" /\ Cut
      /\ thread = "drain" /\ phase = "idle" /\ inbox' \in Seq(Messages) /\ InboxTrue' /\ InboxOnce'
      /\ Range(inbox') \subseteq Range(inbox) /\ Range(inbox) \subseteq Range(inbox') \cup {Head(inbox)}
  BY <1>1, InboxTaken
<1>3. \A r \in Requests : Unheard(r)' <=> Unheard(r)
  <2>1. \A r \in Requests : [op |-> "add", id |-> r] # Head(inbox)
    BY <1>2 DEF Messages
  <2>. QED
    BY <1>1, <1>2, <2>1 DEF Unheard
<1>4. todo = {}
  BY <1>0, <1>2 DEF Threads, EngineTypes
<1>5. Cut /\ Cut'
  BY <1>1, <1>2 DEF Cut
<1>6. queue' = <<>> /\ running' = {} /\ DOMAIN finished' = {}
  <2>1. queue \in Seq(Requests) /\ Distinct(queue)
        /\ Range(queue) \cup running \cup DOMAIN finished \subseteq Range(handles)
    BY <1>0 DEF EngineTypes, Books
  <2>2. queue' = <<>>
    BY <1>1, <2>1, WithoutAll
  <2>. QED
    BY <1>1, <2>1, <2>2
<1>7. Range(queue') = {} /\ Range(handles') = {}
  BY <1>1, <1>6 DEF Range
<1>8. ASSUME NEW r \in Requests PROVE Delivery(r)'
  <2>1. Delivery(r)
    BY DEF EInv
  <2>2. PICK m \in 0 .. Len(Answer[r]), b \in 0 .. Len(Answer[r]) :
          /\ EventsTake(events[r], r, Len(text[r]), m, Told(r))
          /\ CallsTake(calls, r, m, b, Told(r))
          /\ r \in Range(handles) => b = sent[r]
          /\ Unheard(r) => b = 0
    BY <2>1 DEF Delivery
  <2>3. Told(r)' = Told(r)
    BY <1>1, <1>5 DEF Told
  <2>4. CallsTake(ShutdownCalls, r, b, b, Told(r))
    <3>1. r \in Range(handles) => "cancelled" \in Told(r)
      BY <1>0, <1>5 DEF Inboxes, Unheard, Told
    <3>. QED
      BY <1>2, <2>2, <3>1, ShutdownTakes
  <2>5. CallsTake(calls', r, m, b, Told(r))
    <3>1. PICK c \in Seq(Calls), p \in Seq(Calls) : c = calls /\ p = ShutdownCalls
      BY <1>0, <1>2, ShutdownTypes DEF EngineTypes
    <3>2. CallsTake(c \o p, r, m, b, Told(r))
      BY <2>2, <2>4, <3>1, CallsConcat
    <3>. QED
      BY <1>1, <3>1, <3>2
  <2>. QED
    BY <1>1, <1>3, <1>7, <2>1, <2>2, <2>3, <2>4, <2>5 DEF Delivery
<1>9. calls' \in Seq(Calls)
  <2>1. ShutdownCalls \in Seq(Calls)
    BY <1>2, ShutdownTypes
  <2>. QED
    BY <1>0, <1>1, <2>1, ConcatSeq DEF EngineTypes
<1>10. EngineTypes'
  <2>1. queue' \in Seq(Requests) /\ handles' \in Seq(Requests)
    BY <1>1, <1>6
  <2>. QED
    BY <1>0, <1>1, <1>2, <1>4, <1>6, <1>9, <2>1 DEF EngineTypes
<1>11. Books'
  BY <1>1, <1>6, <1>7 DEF Books, Distinct
<1>12. Threads'
  BY <1>0, <1>1, <1>2 DEF Threads
<1>13. Outputs'
  BY <1>0, <1>1, <1>6, <1>7 DEF Outputs
<1>14. Inboxes'
  BY <1>0, <1>1, <1>2, <1>3, <1>7 DEF Inboxes
<1>. QED
  BY <1>8, <1>10, <1>11, <1>12, <1>13, <1>14 DEF EInv

LEMMA PublishKeeps ==
  ASSUME EInv, Publish
  PROVE  EInv'
<1>0. EngineTypes /\ Books /\ Threads /\ Outputs /\ Inboxes
  BY DEF EInv
<1>1. PICK p \in Seq(Calls) : p = FlattenSeq(Publishes)
  BY PublishesTypes
<1>2. /\ thread = "publish" /\ calls' = calls \o p
      /\ sent' = [r \in Requests |-> Published(r)]
      /\ handles' \in Without(handles, DOMAIN finished)
      /\ dropped' = dropped \ DOMAIN finished
      /\ finished' = [r \in DOMAIN finished \ Range(handles) |-> finished[r]]
      /\ thread' = "drain"
      /\ UNCHANGED <<queue, running, output, phase, todo, inbox, events, text, done, submitted, asked,
                     started, stopping, stale, starts>>
  <2>1. calls' = calls \o p
    BY <1>1, PublishesTypes, Zenon DEF Publish
  <2>. QED
    BY <2>1 DEF Publish, loopVars, stopVars, consumerVars
<1>3. DOMAIN finished' = {} /\ dropped' = {}
  BY <1>0, <1>2 DEF Books
<1>4. /\ handles' \in Seq(Requests) /\ Distinct(handles')
      /\ Range(handles') = Range(handles) \ DOMAIN finished
  BY <1>0, <1>2, WithoutLeaves DEF EngineTypes, Books
<1>5. /\ Range(handles') = Range(queue) \cup running
      /\ Range(queue) \subseteq Requests /\ running \subseteq Requests
  <2>1. Range(queue) \subseteq Requests
    BY <1>0, RangeOfSeq DEF EngineTypes
  <2>. QED
    BY <1>0, <1>4, <2>1 DEF Books, EngineTypes
<1>6. /\ sent' \in [Requests -> Nat]
      /\ \A r \in running : sent'[r] = Len(output[r])
      /\ \A r \in Requests : r \notin running => sent'[r] = sent[r]
  <2>1. \A r \in Requests : Len(output[r]) \in Nat /\ sent[r] \in Nat
    BY <1>0 DEF EngineTypes
  <2>. QED
    BY <1>2, <1>5, <2>1 DEF Published
<1>7. \A r \in Requests : (Unheard(r)' <=> Unheard(r)) /\ Told(r)' = Told(r)
  BY <1>2 DEF Unheard, Told, Cut
<1>8. ASSUME NEW r \in Requests PROVE Delivery(r)'
  <2>1. Delivery(r)
    BY DEF EInv
  <2>2. PICK m \in 0 .. Len(Answer[r]), b \in 0 .. Len(Answer[r]) :
          /\ EventsTake(events[r], r, Len(text[r]), m, Told(r))
          /\ CallsTake(calls, r, m, b, Told(r))
          /\ r \in Range(handles) => b = sent[r]
          /\ Unheard(r) => b = 0
    BY <2>1 DEF Delivery
  <2>3. PICK d : d = IF r \in Range(handles) THEN Reached(r) ELSE b
    OBVIOUS
  <2>4. CallsTake(p, r, b, d, Told(r))
    BY <1>1, <2>2, <2>3, PublishesTake
  <2>5. d \in 0 .. Len(Answer[r])
    BY <2>3, NewsTakes
  <2>6. CallsTake(calls', r, m, d, Told(r))
    <3>1. PICK c \in Seq(Calls), q \in Seq(Calls) : c = calls /\ q = p
      BY <1>0 DEF EngineTypes
    <3>2. CallsTake(c \o q, r, m, d, Told(r))
      BY <2>2, <2>4, <3>1, CallsConcat
    <3>. QED
      BY <1>2, <3>1, <3>2
  <2>7. r \in Range(handles') => d = sent'[r]
    <3>. SUFFICES ASSUME r \in Range(handles') PROVE d = sent'[r]
      OBVIOUS
    <3>1. r \in Range(handles) /\ r \notin DOMAIN finished
      BY <1>4
    <3>. QED
      BY <1>6, <2>3, <3>1 DEF Reached
  <2>8. Unheard(r)' => d = 0
    <3>. SUFFICES ASSUME Unheard(r)' PROVE d = 0
      OBVIOUS
    <3>1. r \notin Range(handles) /\ b = 0
      BY <1>0, <1>7, <2>2 DEF Inboxes
    <3>. QED
      BY <2>3, <3>1
  <2>. QED
    BY <1>2, <1>7, <2>1, <2>2, <2>4, <2>5, <2>6, <2>7, <2>8 DEF Delivery
<1>9. calls' \in Seq(Calls)
  BY <1>0, <1>2, ConcatSeq DEF EngineTypes
<1>10. EngineTypes'
  BY <1>0, <1>2, <1>3, <1>4, <1>6, <1>9 DEF EngineTypes
<1>11. Books'
  BY <1>0, <1>2, <1>3, <1>4, <1>5 DEF Books
<1>12. Threads'
  BY <1>0, <1>2 DEF Threads
<1>13. Outputs'
  <2>1. \A r \in Range(queue) : r \notin running /\ output[r] = <<>> /\ sent'[r] = 0
    BY <1>0, <1>5, <1>6 DEF Books, Outputs
  <2>2. \A r \in Range(handles') : sent'[r] <= Len(output[r])
    <3>1. \A r \in Range(queue) : Len(output[r]) = 0
      BY <2>1
    <3>2. \A r \in running : Len(output[r]) \in Nat
      BY <1>0, <1>5 DEF EngineTypes
    <3>. QED
      BY <1>5, <1>6, <2>1, <3>1, <3>2
  <2>. QED
    BY <1>0, <1>2, <1>3, <1>6, <2>1, <2>2 DEF Outputs
<1>14. Inboxes'
  <2>1. InboxTrue' /\ InboxOnce'
    <3>1. phase = "idle"
      BY <1>0, <1>2 DEF Threads
    <3>. QED
      BY <1>0, <1>2, <3>1 DEF Inboxes, InboxTrue, InboxOnce, Cut, loopVars, stopVars
  <2>. QED
    BY <1>0, <1>2, <1>3, <1>4, <1>7, <2>1 DEF Inboxes
<1>. QED
  BY <1>8, <1>10, <1>11, <1>12, <1>13, <1>14 DEF EInv

-----------------------------------------------------------------------------
(* Every step.                                                             *)

LEMMA EngineNextKeeps ==
  ASSUME EInv, [EngineNext]_engineVars
  PROVE  EInv'
<1>1. CASE Thread
  <2>1. CASE GetAdd
    BY <2>1, GetAddKeeps
  <2>2. CASE GetCancel
    BY <2>2, GetCancelKeeps
  <2>3. CASE GetStop
    BY <2>3, GetStopKeeps
  <2>4. CASE Idle \/ CallStep \/ StepReturns \/ StepRaises
    BY <2>4, ThreadMovesKeep
  <2>5. CASE InStep
    BY <2>5, InStepKeeps
  <2>6. CASE Publish
    BY <2>6, PublishKeeps
  <2>. QED
    BY <1>1, <2>1, <2>2, <2>3, <2>4, <2>5, <2>6 DEF Thread
<1>2. CASE Start
  BY <1>2, StartKeeps
<1>3. CASE Stop
  BY <1>3, StopKeeps
<1>4. CASE Stopped
  BY <1>4, StoppedKeeps
<1>5. CASE RunCallback
  BY <1>5, RunCallbackKeeps
<1>6. ASSUME NEW r \in Requests, Submit(r) PROVE EInv'
  BY <1>6, SubmitKeeps
<1>7. ASSUME NEW r \in Requests, Cancel(r) PROVE EInv'
  BY <1>7, CancelKeeps
<1>8. ASSUME NEW r \in Requests, Consume(r) PROVE EInv'
  BY <1>8, ConsumeKeeps
<1>9. CASE UNCHANGED engineVars
  <2>1. /\ UNCHANGED <<machineVars, inbox, loopVars, threadVars>>
        /\ UNCHANGED <<queue, running, finished, output, todo, inbox, calls, handles, sent, events,
                       text, done, asked, starts, started, stopping, stale>>
    BY <1>9 DEF engineVars, machineVars, loopVars, stopVars, threadVars, consumerVars
  <2>2. /\ Books' /\ Threads' /\ Outputs' /\ Inboxes'
        /\ \A r \in Requests : Told(r)' = Told(r) /\ (Unheard(r)' <=> Unheard(r))
    BY <2>1, OnlyStreams
  <2>3. EngineTypes'
    BY <2>1 DEF EInv, EngineTypes
  <2>4. ASSUME NEW r \in Requests PROVE Delivery(r)'
    BY <2>1, <2>2, DeliveryStays
  <2>. QED
    BY <2>2, <2>3, <2>4 DEF EInv
<1>. QED
  BY <1>1, <1>2, <1>3, <1>4, <1>5, <1>6, <1>7, <1>8, <1>9 DEF EngineNext

(* Wherever a request is, what its consumer has been told, what the event  *)
(* loop still holds for it and what the thread has yet to send are the     *)
(* successive parts of one answer, and the books of the thread and of the  *)
(* scheduler agree (_drain_inbox, _publish and _shutdown, with step()).    *)
THEOREM EngineInvariant == EngineSpec => []EInv
<1>1. EngineInit => EInv
  BY InitEngine
<1>2. EInv /\ [EngineNext]_engineVars => EInv'
  BY EngineNextKeeps
<1>. QED
  BY <1>1, <1>2, PTL DEF EngineSpec

(* Every request the scheduler queues, runs or has finished has exactly    *)
(* one handle, and the other way round; when the thread reads its inbox,   *)
(* all that ran is published.                                              *)
THEOREM OneBookKept == EngineSpec => []OneBook
<1>1. EInv => OneBook
  <2>. SUFFICES ASSUME EInv PROVE OneBook
    OBVIOUS
  <2>1. Distinct(handles) /\ handles \in Seq(Requests) /\ Books /\ Outputs
    BY DEF EInv, EngineTypes, Books
  <2>2. IsInjective(handles)
    BY <2>1 DEF IsInjective, Distinct
  <2>. QED
    BY <2>1, <2>2 DEF OneBook, Books, Outputs
<1>. QED
  BY <1>1, EngineInvariant, PTL

(* A Done tells its reader the truth: "length" and "stop" come with the    *)
(* whole answer, "cancelled" only after a cancel() or a stop().            *)
THEOREM ReasonsTrue == EngineSpec => []ReasonTrue
<1>1. EInv => ReasonTrue
  <2>. SUFFICES ASSUME EInv, NEW r \in Requests, done[r] # NoDone
                PROVE  CASE done[r].reason = "length" ->
                              done[r].ids = Answer[r] /\ Len(Answer[r]) = MaxTokens[r]
                         [] done[r].reason = "stop" ->
                              done[r].ids = Answer[r] /\ (Len(Answer[r]) < MaxTokens[r] \/ MaxTokens[r] = 0)
                         [] done[r].reason = "cancelled" ->
                              asked[r] > 0 \/ stopping > 0 \/ ~ started \/ starts > 1
    BY DEF ReasonTrue
  <2>1. TrueReason(r, done[r].reason, done[r].ids, Told(r))
    BY DEF EInv, Delivery
  <2>2. CASE done[r].reason = "length"
    BY <2>1, <2>2 DEF TrueReason
  <2>3. CASE done[r].reason = "stop"
    BY <2>1, <2>3 DEF TrueReason
  <2>4. CASE done[r].reason = "cancelled"
    <3>1. asked[r] > 0 \/ Cut
      BY <2>1, <2>4 DEF TrueReason, Told
    <3>2. asked[r] > 0 \/ stopping > 0 \/ ~ started \/ starts > 1
      BY <3>1 DEF Cut
    <3>. QED
      BY <2>4, <3>2
  <2>. QED
    BY <2>1, <2>2, <2>3, <2>4 DEF TrueReason
<1>. QED
  BY <1>1, EngineInvariant, PTL

-----------------------------------------------------------------------------
(* What a consumer sees is a TokenStream: submit() opens it, an event that *)
(* is consumed continues it, and nothing else shows.                       *)

LEMMA ConsumeContinues ==
  ASSUME EInv, NEW r \in Requests, Consume(r)
  PROVE  Stream!Yield(r) \/ Stream!Close(r)
<1>1. /\ done[r] = NoDone /\ events[r] # <<>> /\ submitted' = submitted
      /\ \/ /\ Head(events[r]).type = "chunk"
            /\ text' = [text EXCEPT ![r] = @ \o Head(events[r]).ids] /\ done' = done
         \/ /\ Head(events[r]).type = "done" /\ text' = text
            /\ done' = [done EXCEPT ![r] = [reason |-> Head(events[r]).reason,
                                            ids |-> Head(events[r]).ids]]
  BY DEF Consume, loopVars, stopVars
<1>2. /\ Len(text[r]) \in Nat /\ Len(text[r]) <= Len(Answer[r]) /\ Len(Answer[r]) \in Nat
      /\ text[r] = UpTo(r, Len(text[r]))
  <2>1. text[r] \in Seq(Tok)
    BY DEF EInv, EngineTypes
  <2>. QED
    BY <2>1, AnswerTypes, LenProperties DEF EInv, Delivery
<1>3. PICK k \in 0 .. Len(Answer[r]) : Takes(Head(events[r]), r, Len(text[r]), k, Told(r))
  BY <1>1, NextEvent
<1>4. r \in submitted
  BY <1>3 DEF Takes, TrueReason, Told
<1>5. CASE /\ Head(events[r]).type = "chunk"
           /\ text' = [text EXCEPT ![r] = @ \o Head(events[r]).ids] /\ done' = done
  <2>1. Len(text[r]) < k /\ Head(events[r]).ids = SubSeq(Answer[r], Len(text[r]) + 1, k)
    BY <1>3, <1>5 DEF Takes
  <2>2. PICK a \in 0 .. k : a = Len(text[r])
    BY <1>2, <2>1
  <2>3. text[r] \o Head(events[r]).ids = SubSeq(Answer[r], 1, k)
    BY <1>2, <2>1, <2>2, Continues DEF UpTo
  <2>4. k \in Len(text[r]) + 1 .. Len(Answer[r])
    BY <1>2, <2>1
  <2>5. text' = [text EXCEPT ![r] = SubSeq(Answer[r], 1, k)]
    BY <1>5, <2>3, Zenon
  <2>. QED
    BY <1>1, <1>4, <1>5, <2>4, <2>5 DEF Stream!Yield
<1>6. CASE /\ Head(events[r]).type = "done" /\ text' = text
           /\ done' = [done EXCEPT ![r] = [reason |-> Head(events[r]).reason,
                                           ids |-> Head(events[r]).ids]]
  <2>. DEFINE reason == Head(events[r]).reason
              ids == Head(events[r]).ids
  <2>1. ids = UpTo(r, Len(text[r])) /\ TrueReason(r, reason, ids, Told(r))
    BY <1>3, <1>6 DEF Takes
  <2>2. ids = text[r]
    BY <1>2, <2>1
  <2>3. /\ reason \in {"stop", "length", "cancelled"}
        /\ reason # "cancelled" => text[r] = Answer[r]
    BY <2>1, <2>2 DEF TrueReason
  <2>4. done' = [done EXCEPT ![r] = [reason |-> reason, ids |-> text[r]]]
    BY <1>6, <2>2, Zenon
  <2>. HIDE DEF reason, ids
  <2>5. \E t \in {"stop", "length", "cancelled"} :
          /\ t # "cancelled" => text[r] = Answer[r]
          /\ done' = [done EXCEPT ![r] = [reason |-> t, ids |-> text[r]]]
    BY <2>3, <2>4
  <2>. QED
    BY <1>1, <1>4, <1>6, <2>5 DEF Stream!Close
<1>. QED
  BY <1>1, <1>5, <1>6

LEMMA EngineStepStreams ==
  ASSUME EInv, [EngineNext]_engineVars
  PROVE  [Stream!StreamNext]_(Stream!streamVars)
<1>1. ASSUME NEW r \in Requests, Submit(r) PROVE Stream!Open(r)
  BY <1>1 DEF Submit, consumerVars, Stream!Open
<1>2. ASSUME NEW r \in Requests, Consume(r) PROVE Stream!Yield(r) \/ Stream!Close(r)
  BY <1>2, ConsumeContinues
<1>3. ASSUME NEW r \in Requests, Cancel(r) PROVE UNCHANGED <<submitted, text, done>>
  BY <1>3 DEF Cancel, consumerVars
<1>4. CASE Start \/ Stop \/ Stopped \/ RunCallback \/ UNCHANGED engineVars
  BY <1>4 DEF Start, Stop, Stopped, RunCallback, loopVars, stopVars, consumerVars, engineVars, Stream!streamVars
<1>5. CASE Thread
  <2>1. CASE GetAdd \/ GetCancel \/ GetStop
    BY <2>1 DEF GetAdd, GetCancel, GetStop, Get, loopVars, stopVars, consumerVars, Stream!streamVars
  <2>2. CASE Idle \/ CallStep \/ InStep \/ StepReturns \/ StepRaises \/ Publish
    BY <2>2 DEF Idle, CallStep, InStep, StepReturns, StepRaises, Publish, loopVars, stopVars, consumerVars,
                Stream!streamVars
  <2>. QED
    BY <1>5, <2>1, <2>2 DEF Thread
<1>. QED
  BY <1>1, <1>2, <1>3, <1>4, <1>5 DEF EngineNext, Stream!StreamNext, Stream!streamVars

(* Streaming changes no token: every handle is a TokenStream.              *)
THEOREM EngineRefinesStream == EngineSpec => IsTokenStream
<1>1. EngineInit => Stream!StreamInit
  BY DEF EngineInit, Stream!StreamInit
<1>2. EInv /\ [EngineNext]_engineVars => [Stream!StreamNext]_(Stream!streamVars)
  BY EngineStepStreams
<1>3. [Stream!StreamNext]_(Stream!streamVars) <=> [Stream!StreamNext]_<<submitted, text, done>>
  BY DEF Stream!streamVars
<1>. QED
  BY <1>1, <1>2, <1>3, EngineInvariant, PTL DEF EngineSpec, IsTokenStream, Stream!StreamSpec

============================================================================
