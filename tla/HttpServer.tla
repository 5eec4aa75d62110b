----------------------------- MODULE HttpServer -----------------------------
(***************************************************************************)
(* The HTTP layer (cpp/python/ni/server.py): a handler per connection      *)
(* reads one request, answers it and closes.  A completion is a request to *)
(* the engine, of which the handler knows what TokenStream promises, and   *)
(* AsyncEngine keeps: Yield and Close are the handle's next event.         *)
(* Connections and requests are one to one.                                *)
(***************************************************************************)
EXTENDS TokenStream, Detok

CONSTANTS
  Asks         \* the Kinds each connection may turn out to ask for

Kinds == {"word", "length", "get", "none", "bad", "collect", "stream"}

VARIABLES
  listening,   \* the server accepts connections
  engine,      \* "on", "stopping" (stop() awaits the thread) or "off"
  at,          \* where each connection's handler is
  ask,         \* what its client asks for
  client,      \* "up", "stalled" (does not read), "gone", or "lost" to the server too
  timer,       \* the 30 s timer of each read: 0 and 1 are any two in succession
  reply,       \* what was written, an item for each write
  expired,     \* connections that a timeout ended
  cancelled,   \* requests whose handle was cancelled
  cut          \* requests to whose handles the engine sends nothing more

lifeVars == <<listening, engine>>
httpVars == <<streamVars, lifeVars, at, ask, client, timer, reply, expired,
              cancelled, cut>>

HttpInit ==
  /\ StreamInit
  /\ listening = TRUE /\ engine = "on"
  /\ at = [r \in Requests |-> "idle"]
  /\ ask \in {f \in [Requests -> Kinds] : \A r \in Requests : f[r] \in Asks[r]}
  /\ client = [r \in Requests |-> "up"]
  /\ timer = [r \in Requests |-> 0]
  /\ reply = [r \in Requests |-> <<>>]
  /\ expired = {} /\ cancelled = {} /\ cut = {}

Goto(r, where) == at' = [at EXCEPT ![r] = where]
Write(r, item) == reply' = [reply EXCEPT ![r] = Append(@, item)]

Json(status) == [type |-> "json", status |-> status]
Item(type) == [type |-> type]
Event(type, ids) == [type |-> type, ids |-> ids]

-----------------------------------------------------------------------------
(* The clients. *)
Connect(r) ==
  /\ at[r] = "idle" /\ listening
  /\ Goto(r, "line")
  /\ UNCHANGED <<streamVars, lifeVars, ask, client, timer, reply, expired,
                 cancelled, cut>>

Turn(r, from, to) ==
  /\ at[r] \notin {"idle", "closed"}
  /\ client[r] \in from
  /\ client' = [client EXCEPT ![r] = to]
  /\ UNCHANGED <<streamVars, lifeVars, at, ask, timer, reply, expired,
                 cancelled, cut>>

(* It stops reading for good: a slow reader is one whose drain() takes long. *)
Stall(r) == Turn(r, {"up"}, "stalled")

(* It closes its end; the server learns it when it reads, or when what it  *)
(* wrote is refused ... *)
Leave(r) == Turn(r, {"up", "stalled"}, "gone")

(* ... or it resets the connection. *)
Reset(r) == Turn(r, {"up", "stalled", "gone"}, "lost")

-----------------------------------------------------------------------------
(* _handle: the request line, the header lines, the body.  Every line is   *)
(* awaited under a timer of its own, and nothing bounds the header lines.  *)
NewTimer(r) == timer' = [timer EXCEPT ![r] = 1 - @]

ReadLine(r) ==
  /\ at[r] = "line" /\ client[r] # "lost"
  /\ Goto(r, IF ask[r] = "word" THEN "closing" ELSE "headers")
  /\ NewTimer(r)
  /\ UNCHANGED <<streamVars, lifeVars, ask, client, reply, expired, cancelled, cut>>

ReadHeader(r) ==
  /\ at[r] = "headers" /\ client[r] # "lost"
  /\ NewTimer(r)
  /\ UNCHANGED <<streamVars, lifeVars, at, ask, client, reply, expired, cancelled, cut>>

HasBody(r) == ask[r] \in {"bad", "collect", "stream"}

(* A header line that is not a length raises; the last answer to an        *)
(* exception is a 500. *)
EndHeaders(r) ==
  /\ at[r] = "headers" /\ client[r] # "lost"
  /\ \/ /\ ask[r] = "length"
        /\ Write(r, Json(500)) /\ Goto(r, "answered")
     \/ /\ ask[r] # "length"
        /\ Goto(r, IF HasBody(r) THEN "body" ELSE "route")
        /\ UNCHANGED reply
  /\ UNCHANGED <<streamVars, lifeVars, ask, client, timer, expired,
                 cancelled, cut>>

ReadBody(r) ==
  /\ at[r] = "body" /\ client[r] # "lost"
  /\ Goto(r, "route")
  /\ UNCHANGED <<streamVars, lifeVars, ask, client, timer, reply, expired,
                 cancelled, cut>>

(* The end of the stream: no line, or a body cut short, is not answered;   *)
(* among the headers it counts as their end, and a request whose           *)
(* content-length had not come yet has an empty body.                      *)
WithoutLength(r) ==
  CASE HasBody(r) -> "bad"
    [] ask[r] = "length" -> "get"
    [] OTHER -> ask[r]

ReadEof(r) ==
  /\ client[r] = "gone"
  /\ \/ /\ at[r] \in {"line", "body"}
        /\ Goto(r, "closing")
        /\ UNCHANGED ask
     \/ /\ at[r] = "headers"
        /\ ask' = [ask EXCEPT ![r] = WithoutLength(r)]
        /\ Goto(r, "route")
  /\ UNCHANGED <<streamVars, lifeVars, client, timer, reply, expired, cancelled,
                 cut>>

ReadReset(r) ==
  /\ at[r] \in {"line", "headers", "body"} /\ client[r] = "lost"
  /\ Goto(r, "closing")
  /\ UNCHANGED <<streamVars, lifeVars, ask, client, timer, reply, expired,
                 cancelled, cut>>

(* wait_for: the TimeoutError it raises is the one _handle passes over     *)
(* from Python 3.11 on, and an exception like any other before.            *)
\* Mutation: only the request line is read under a timeout.
TimedOut_Line(r) ==
  /\ at[r] = "line"
  /\ expired' = expired \cup {r}
  /\ Goto(r, "closing")
  /\ UNCHANGED <<streamVars, lifeVars, ask, client, timer, reply, cancelled, cut>>

TimedOut(r) ==
  /\ at[r] \in {"line", "headers"}
  /\ expired' = expired \cup {r}
  /\ \/ Goto(r, "closing") /\ UNCHANGED reply
     \/ Goto(r, "answered") /\ Write(r, Json(500))
  /\ UNCHANGED <<streamVars, lifeVars, ask, client, timer,
                 cancelled, cut>>

-----------------------------------------------------------------------------
(* _route and _completions.                                                *)
Status(r) == CASE ask[r] = "get" -> 200
               [] ask[r] = "none" -> 404
               [] OTHER -> 400

RouteSimple(r) ==
  /\ at[r] = "route" /\ ask[r] \notin {"collect", "stream"}
  /\ Write(r, Json(Status(r))) /\ Goto(r, "answered")
  /\ UNCHANGED <<streamVars, lifeVars, ask, client, timer, expired,
                 cancelled, cut>>

(* submit().  Behind the engine's stop() it is not read any more. *)
Submitted(r) ==
  /\ engine # "off"
  /\ Open(r)
  /\ cut' = IF engine = "stopping" THEN cut \cup {r} ELSE cut

\* Mutation: the stream's head is written before the engine is asked.
Complete_HeadFirst(r) ==
  /\ at[r] = "route" /\ ask[r] \in {"collect", "stream"}
  /\ \/ /\ Submitted(r)
        /\ Goto(r, IF ask[r] = "stream" THEN "streaming" ELSE "collecting")
        /\ IF ask[r] = "stream" THEN Write(r, Item("head")) ELSE UNCHANGED reply
     \/ /\ engine = "off"
        /\ reply' = [reply EXCEPT ![r] =
             @ \o (IF ask[r] = "stream" THEN <<Item("head")>> ELSE <<>>)
               \o <<Json(500)>>]
        /\ Goto(r, "answered")
        /\ UNCHANGED <<streamVars, cut>>
  /\ UNCHANGED <<lifeVars, ask, client, timer, expired, cancelled>>

Complete(r) ==
  /\ at[r] = "route" /\ ask[r] \in {"collect", "stream"}
  /\ \/ /\ Submitted(r)
        /\ Goto(r, IF ask[r] = "stream" THEN "streaming" ELSE "collecting")
        /\ IF ask[r] = "stream" THEN Write(r, Item("head")) ELSE UNCHANGED reply
     \/ /\ engine = "off"
        /\ Write(r, Json(500)) /\ Goto(r, "answered")
        /\ UNCHANGED <<streamVars, cut>>
  /\ UNCHANGED <<lifeVars, ask, client, timer, expired, cancelled>>

(* The engine: an exception of step() has ended its thread, or the request *)
(* waits for ever at the scheduler.                                        *)
EngineCuts(r) ==
  /\ r \in submitted \ cut /\ done[r] = NoDone
  /\ cut' = cut \cup {r}
  /\ UNCHANGED <<streamVars, lifeVars, at, ask, client, timer, reply, expired, cancelled>>

(* The next event of the handle.  Only a cancelled request, or one that    *)
(* the engine's stop() cut off, is closed as cancelled.                    *)
NextChunk(r) == r \notin cut /\ Yield(r)

NextDone(r) ==
  /\ r \notin cut /\ Close(r)
  /\ done'[r].reason = "cancelled" => r \in cancelled \/ engine # "on"

CollectChunk(r) ==
  /\ at[r] = "collecting"
  /\ NextChunk(r)
  /\ UNCHANGED <<lifeVars, at, ask, client, timer, reply, expired, cancelled,
                 cut>>

(* The answer's text is rendered; what the tokenizer raises is a 500. *)
CollectDone(r) ==
  /\ at[r] = "collecting"
  /\ NextDone(r)
  /\ Write(r, IF Rendered(done'[r].ids) THEN Event("json", done'[r].ids) ELSE Json(500))
  /\ Goto(r, "answered")
  /\ UNCHANGED <<lifeVars, ask, client, timer, expired, cancelled, cut>>

-----------------------------------------------------------------------------
(* _stream.  A connection found lost, at an event or in drain(), cancels   *)
(* the request and ends the handler.                                       *)
Abandon(r) ==
  /\ cancelled' = cancelled \cup {r}
  /\ Goto(r, "closing")

\* Mutation: the event is delivered to a connection that is lost.
StreamLost_Event(r) ==
  /\ at[r] = "streaming" /\ client[r] = "lost"
  /\ NextChunk(r) \/ NextDone(r)
  /\ Goto(r, "closing")
  /\ UNCHANGED <<lifeVars, ask, client, timer, reply, expired, cancelled, cut>>

StreamLost(r) ==
  /\ at[r] = "streaming" /\ client[r] = "lost"
  /\ NextChunk(r) \/ NextDone(r)
  /\ Abandon(r)
  /\ UNCHANGED <<lifeVars, ask, client, timer, reply, expired, cut>>

StreamChunk(r) ==
  /\ at[r] = "streaming" /\ client[r] # "lost"
  /\ NextChunk(r) /\ Rendered(text'[r])
  /\ Write(r, Event("event", SubSeq(text'[r], Len(text[r]) + 1, Len(text'[r]))))
  /\ Goto(r, "event")
  /\ UNCHANGED <<lifeVars, ask, client, timer, expired, cancelled, cut>>

(* What push() raises is no lost connection: it passes _stream by, which   *)
(* cancels nothing, and the last answer to an exception is a 500.          *)
StreamRaises(r) ==
  /\ at[r] = "streaming" /\ client[r] # "lost"
  /\ NextChunk(r) /\ ~ Rendered(text'[r])
  /\ Write(r, Json(500)) /\ Goto(r, "failed")
  /\ UNCHANGED <<lifeVars, ask, client, timer, expired, cancelled, cut>>

StreamDone(r) ==
  /\ at[r] = "streaming" /\ client[r] # "lost"
  /\ NextDone(r)
  /\ Write(r, Item("final")) /\ Goto(r, "final")
  /\ UNCHANGED <<lifeVars, ask, client, timer, expired, cancelled, cut>>

(* The text that the events written carry. *)
Shown(items) ==
  FoldLeft(LAMBDA d, item :
             CASE item.type = "event" -> Push(d, item.ids)
               [] item.type = "final" -> Flush(d)
               [] OTHER -> d,
           NewDetok, items).out

(* drain() after an event, after the final one, which [DONE] follows, and  *)
(* after the whole answer or what stands for it. *)
Drain(r) ==
  /\ client[r] # "lost"
  /\ \/ /\ at[r] = "event" /\ Goto(r, "streaming")
        /\ UNCHANGED reply
     \/ /\ at[r] = "final" /\ Goto(r, "answered")
        /\ Write(r, Item("DONE"))
     \/ /\ at[r] \in {"answered", "failed"} /\ Goto(r, "closing")
        /\ UNCHANGED reply
  /\ UNCHANGED <<streamVars, lifeVars, ask, client, timer, expired,
                 cancelled, cut>>

DrainFails(r) ==
  /\ client[r] = "lost"
  /\ \/ at[r] \in {"event", "final"} /\ Abandon(r)
     \/ /\ at[r] = "answered" /\ ask[r] = "stream" /\ r \in submitted
        /\ Abandon(r)
     \/ /\ at[r] = "failed" \/ (at[r] = "answered" /\ ~ (ask[r] = "stream" /\ r \in submitted))
        /\ Goto(r, "closing")
        /\ UNCHANGED cancelled
  /\ UNCHANGED <<streamVars, lifeVars, ask, client, timer, reply, expired, cut>>

(* close() and wait_closed() *)
CloseConnection(r) ==
  /\ at[r] = "closing"
  /\ Goto(r, "closed")
  /\ UNCHANGED <<streamVars, lifeVars, ask, client, timer, reply, expired,
                 cancelled, cut>>

-----------------------------------------------------------------------------
(* tools/serve_http.py, at its end: the server stops, then the engine. *)
StopServer ==
  /\ listening
  /\ listening' = FALSE
  /\ UNCHANGED <<streamVars, engine, at, ask, client, timer, reply, expired,
                 cancelled, cut>>

StopEngine ==
  /\ ~ listening
  /\ \/ engine = "on" /\ engine' = "stopping"
     \/ engine = "stopping" /\ engine' = "off"
  /\ UNCHANGED <<streamVars, listening, at, ask, client, timer, reply, expired,
                 cancelled, cut>>

Client(r) == Connect(r) \/ Stall(r) \/ Leave(r) \/ Reset(r)

Read(r) == ReadLine(r) \/ ReadHeader(r) \/ EndHeaders(r) \/ ReadBody(r)

Answering(r) ==
  \/ ReadEof(r) \/ ReadReset(r)
  \/ RouteSimple(r) \/ Complete(r)
  \/ CollectChunk(r) \/ CollectDone(r)
  \/ StreamLost(r) \/ StreamChunk(r) \/ StreamRaises(r) \/ StreamDone(r)
  \/ Drain(r) \/ DrainFails(r)
  \/ CloseConnection(r)

HttpNext ==
  \/ StopServer \/ StopEngine
  \/ \E r \in Requests : Client(r) \/ EngineCuts(r) \/ Read(r) \/ TimedOut(r) \/ Answering(r)

HttpSpec == HttpInit /\ [][HttpNext]_httpVars

(* The event loop resumes a handler whose await is over, and a timer runs  *)
(* out unless the line it is for comes before: the next line has another.  *)
(* The engine ends every stream that it does not cut, as AsyncEngine's     *)
(* StreamsEndUnlessCut says; that it cuts none is not assumed.  A client   *)
(* need not send what is awaited, and one that does not read may hold up   *)
(* drain() and wait_closed().                                              *)
Blocked(r) ==
  client[r] = "stalled" /\ at[r] \in {"event", "final", "answered", "failed", "closing"}

HttpFairness ==
  \A r \in Requests :
    /\ WF_httpVars(~ Blocked(r) /\ Answering(r))
    /\ \A i \in 0 .. 1 : WF_httpVars(timer[r] = i /\ TimedOut(r))
FairHttpSpec == HttpSpec /\ HttpFairness

-----------------------------------------------------------------------------
Over(r) == at[r] \in {"closing", "closed"}

(* A handler that stopped reading its handle before the Done has cancelled *)
(* the request, so no client that left keeps a slot and its KV blocks,     *)
(* unless it was an exception of push() that stopped it; and a handler     *)
(* cancels only when its client is lost.                                   *)
NoOrphans ==
  \A r \in Requests :
    /\ Over(r) /\ r \in submitted =>
         done[r] # NoDone \/ r \in cancelled \/ ~ Rendered(text[r])
    /\ r \in cancelled => Over(r) /\ client[r] = "lost"

(* One request, one response: what a connection is sent is a part of one   *)
(* well-formed answer, never an error inside a stream or a second answer,  *)
(* unless the tokenizer raised, and then the error is the last of it; and  *)
(* it is a whole one unless the client went away, sent no request, or let  *)
(* the time run out.                                                       *)
AnswersWhole ==
  \A r \in Requests :
    LET items == reply[r]
        n     == Len(items)
    IN  /\ \A i \in 1 .. n :
             CASE items[i].type = "json" -> n = 1 \/ (i = n /\ ~ Rendered(text[r]))
               [] items[i].type = "head" -> i = 1
               [] items[i].type \in {"event", "final"} -> i > 1 /\ items[i - 1].type \in {"head", "event"}
               [] items[i].type = "DONE" -> i = n /\ items[i - 1].type = "final"
        /\ Over(r) => \/ n > 0 /\ items[n].type \in {"json", "DONE"}
                      \/ client[r] \in {"gone", "lost"} \/ ask[r] = "word" \/ r \in expired

(* "One connection = one request = one response" (server.py:136).          *)
OneResponse ==
  \A r \in Requests :
    Cardinality({i \in DOMAIN reply[r] : reply[r][i].type \in {"json", "head"}}) <= 1

(* An event that renders to nothing is followed by one that begins with a  *)
(* space which the tokenizer drops where a text begins.                    *)
DropsSpace(items) ==
  Strips /\ \E i \in 1 .. Len(items) - 1 :
    /\ items[i].type = "event" /\ items[i + 1].type = "event"
    /\ Rendering(items[i].ids) = <<>>
    /\ Rendering(items[i + 1].ids) # <<>> /\ Head(Rendering(items[i + 1].ids)) = "sp"

Ended(r) == \E i \in DOMAIN reply[r] : reply[r][i].type = "final"

(* The text a client is streamed never has to be taken back: it is at all  *)
(* times the beginning of the text of the whole answer, and in the end the *)
(* text of the tokens delivered, just as without streaming.  This is said  *)
(* of answers the tokenizer can render, and of streams in which no space   *)
(* comes behind an event that renders to nothing (see TextIsOneShot).      *)
StreamedText ==
  \A r \in Requests :
    Rendered(Answer[r]) /\ ~ DropsSpace(reply[r]) =>
      IF Ended(r)
      THEN Shown(reply[r]) = Decode(text[r])
      ELSE IsPrefix(Shown(reply[r]), Decode(Answer[r]))

(* "The concatenation of every emitted delta equals the one-shot decode of *)
(* all ids" (detok.py:22), for every answer the tokenizer can render.      *)
TextIsOneShot ==
  \A r \in Requests :
    Ended(r) /\ Rendered(Answer[r]) => Shown(reply[r]) = Decode(text[r])

(* The timer of a read is replaced for ever: header lines that never end,  *)
(* each in less than 30 s.                                                 *)
Trickles(r) == []<>(timer[r] = 0) /\ []<>(timer[r] = 1)

(* Every connection is closed, unless its client goes on sending header    *)
(* lines for ever, or never finishes the body, which is read without a     *)
(* timeout, or stops reading the answer, or the engine cuts its request;   *)
(* and one whose client went away is closed whatever its handler awaited,  *)
(* but the next event of a request that was cut.                           *)
ConnectionsEnd ==
  \A r \in Requests :
    /\ Trickles(r) \/ (at[r] = "line" ~> at[r] \in {"closed", "body"} \/ client[r] = "stalled")
    /\ at[r] \notin {"idle", "line", "headers", "body"}
         ~> at[r] = "closed" \/ client[r] = "stalled" \/ r \in cut
    /\ at[r] # "idle" /\ client[r] \in {"gone", "lost"}
         ~> at[r] = "closed" \/ r \in cut
=============================================================================
