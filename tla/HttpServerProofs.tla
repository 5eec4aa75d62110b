--------------------------- MODULE HttpServerProofs ---------------------------
(***************************************************************************)
(* Proofs about the HTTP server, for every set of connections, every       *)
(* answer and every tokenizer.  A handler changes nothing of another       *)
(* connection's, so the invariant is one of a single connection, and a     *)
(* step has to be followed at the connection that takes it only.           *)
(***************************************************************************)
EXTENDS HttpServer, TLAPS

(* NoDone is no Done event: what a handle without one has cannot be taken  *)
(* for one. *)
NoDoneDistinct == \A reason, ids : NoDone # [reason |-> reason, ids |-> ids]

-----------------------------------------------------------------------------
(* Sequences of whatever is written. *)
IsSequence(s) == \E S : s \in Seq(S)

(* Appending keeps what is there and adds one element behind it. *)
LEMMA AppendKeeps ==
  ASSUME NEW s, NEW x, IsSequence(s)
  PROVE  /\ IsSequence(Append(s, x))
         /\ Len(s) \in Nat
         /\ Len(Append(s, x)) = Len(s) + 1
         /\ Append(s, x)[Len(s) + 1] = x
         /\ \A i \in 1 .. Len(s) : Append(s, x)[i] = s[i]
<1>1. PICK S : s \in Seq(S)
  BY DEF IsSequence
<1>2. s \in Seq(S \cup {x}) /\ x \in S \cup {x}
  BY <1>1
<1>3. Append(s, x) \in Seq(S \cup {x})
  BY <1>2
<1>4. IsSequence(Append(s, x))
  BY <1>3 DEF IsSequence
<1>. QED
  BY <1>2, <1>4

-----------------------------------------------------------------------------
(* The answer on a connection, where the tokenizer raised or not. *)
InPlace(items, raised, i) ==
  /\ items[i].type = "json" => Len(items) = 1 \/ (i = Len(items) /\ raised)
  /\ items[i].type = "head" => i = 1
  /\ items[i].type \in {"event", "final"} => i > 1 /\ items[i - 1].type \in {"head", "event"}
  /\ items[i].type = "DONE" => i = Len(items) /\ items[i - 1].type = "final"

WellFormed(items, raised) == \A i \in 1 .. Len(items) : InPlace(items, raised, i)

Types == {"json", "head", "event", "final", "DONE"}
Typed(items) == \A i \in 1 .. Len(items) : items[i].type \in Types
Ends(items, types) == Len(items) > 0 /\ items[Len(items)].type \in types

Sound(items, raised) == IsSequence(items) /\ Typed(items) /\ WellFormed(items, raised)

(* What may be written next keeps an answer well-formed. *)
MayFollow(items, type, raised) ==
  \/ Len(items) = 0 /\ type \in {"json", "head"}
  \/ Ends(items, {"head", "event"}) /\ type \in {"event", "final"}
  \/ Ends(items, {"head", "event"}) /\ type = "json" /\ raised
  \/ Ends(items, {"final"}) /\ type = "DONE"

(* An answer that may go on has no json in it yet, so that it makes no     *)
(* difference to it whether the tokenizer raised. *)
LEMMA SoundEither ==
  ASSUME NEW items, NEW before, NEW raised, Sound(items, before),
         Len(items) = 0 \/ Ends(items, {"head", "event", "final"})
  PROVE  Sound(items, raised)
<1>. DEFINE n == Len(items)
<1>1. n \in Nat
  BY DEF Sound, IsSequence
<1>2. ASSUME NEW i \in 1 .. n PROVE InPlace(items, raised, i)
  <2>1. items[n].type \in {"head", "event", "final"}
    BY <1>1, <1>2 DEF Ends
  <2>2. InPlace(items, before, i) /\ InPlace(items, before, n)
    BY <1>1, <1>2 DEF Sound, WellFormed
  <2>3. items[i].type # "json"
    BY <1>1, <1>2, <2>1, <2>2 DEF InPlace
  <2>. QED
    BY <2>2, <2>3 DEF InPlace
<1>. QED
  BY <1>2 DEF Sound, WellFormed

LEMMA WriteKeeps ==
  ASSUME NEW items, NEW x, NEW before, NEW raised,
         Sound(items, before), MayFollow(items, x.type, raised)
  PROVE  Sound(Append(items, x), raised) /\ Ends(Append(items, x), {x.type})
<1>. DEFINE new == Append(items, x)
            n   == Len(items)
<1>1. /\ IsSequence(new) /\ n \in Nat /\ Len(new) = n + 1 /\ new[n + 1] = x
      /\ \A i \in 1 .. n : new[i] = items[i]
  BY AppendKeeps DEF Sound
<1>2. x.type \in Types
  BY DEF MayFollow, Types
<1>. HIDE DEF new
<1>3. Typed(new)
  BY <1>1, <1>2 DEF Sound, Typed
<1>4. ASSUME NEW i \in 1 .. n + 1 PROVE InPlace(new, raised, i)
  <2>1. CASE i = n + 1 /\ n = 0
    <3>1. new[i] = x /\ x.type \in {"json", "head"}
      BY <1>1, <2>1 DEF MayFollow, Ends
    <3>. QED
      BY <1>1, <2>1, <3>1 DEF InPlace
  <2>2. CASE i = n + 1 /\ n > 0
    <3>1. new[i] = x /\ new[i - 1] = items[n]
      BY <1>1, <2>2
    <3>. QED
      BY <1>1, <2>2, <3>1 DEF MayFollow, Ends, InPlace
  <2>3. CASE i \in 1 .. n
    <3>1. new[i] = items[i] /\ (i > 1 => new[i - 1] = items[i - 1])
      BY <1>1, <2>3
    <3>2. items[n].type \in {"head", "event", "final"} /\ n > 0
      BY <1>1, <2>3 DEF MayFollow, Ends
    <3>3. InPlace(items, before, i) /\ InPlace(items, before, n)
      BY <1>1, <2>3 DEF Sound, WellFormed
    <3>4. items[i].type # "json" /\ items[i].type # "DONE"
      BY <1>1, <2>3, <3>2, <3>3 DEF InPlace
    <3>. QED
      BY <1>1, <2>3, <3>1, <3>3, <3>4 DEF InPlace
  <2>. QED
    BY <1>1, <2>1, <2>2, <2>3
<1>5. WellFormed(new, raised)
  BY <1>1, <1>4 DEF WellFormed
<1>. QED
  BY <1>1, <1>3, <1>5 DEF Sound, Ends, new

-----------------------------------------------------------------------------
(* The invariant of a connection. *)
Unasked == {"idle", "line", "headers", "body", "route"}
Places == Unasked \cup {"collecting", "streaming", "event", "final", "answered", "failed",
                     "closing", "closed"}

(* Until a handler asks the engine, there is nothing of the engine's to    *)
(* cancel; when it has gone on from the last event, the request is over or *)
(* cancelled, or the tokenizer raised. *)
HandleHeld(r) ==
  /\ at[r] \in Unasked => r \notin submitted
  /\ at[r] \in {"final", "answered"} /\ r \in submitted => done[r] # NoDone
  /\ at[r] = "failed" => ~ Rendered(text[r])
  /\ Over(r) /\ r \in submitted => done[r] # NoDone \/ r \in cancelled \/ ~ Rendered(text[r])
  /\ r \in cancelled => Over(r) /\ client[r] = "lost"

(* What a handler has written, by where it is. *)
Answered(r) ==
  /\ Sound(reply[r], ~ Rendered(text[r]))
  /\ at[r] \in Unasked \cup {"collecting"} => Len(reply[r]) = 0
  /\ at[r] \in {"streaming", "event"} => Ends(reply[r], {"head", "event"})
  /\ at[r] = "final" => Ends(reply[r], {"final"})
  /\ at[r] \in {"answered", "failed"} => Ends(reply[r], {"json", "DONE"})
  /\ Over(r) => \/ Ends(reply[r], {"json", "DONE"})
                \/ client[r] \in {"gone", "lost"} \/ ask[r] = "word" \/ r \in expired

HttpTypes ==
  /\ at \in [Requests -> Places]
  /\ DOMAIN ask = Requests /\ DOMAIN client = Requests
  /\ DOMAIN reply = Requests /\ DOMAIN done = Requests /\ DOMAIN text = Requests

HttpInv == HttpTypes /\ \A r \in Requests : HandleHeld(r) /\ Answered(r)

LEMMA InitInv == HttpInit => HttpInv
<1>. SUFFICES ASSUME HttpInit PROVE HttpInv
  OBVIOUS
<1>1. HttpTypes
  BY DEF HttpInit, StreamInit, HttpTypes, Places, Unasked
<1>2. ASSUME NEW r \in Requests PROVE HandleHeld(r)
  BY DEF HttpInit, StreamInit, HandleHeld, Over, Unasked
<1>3. ASSUME NEW r \in Requests PROVE Answered(r)
  <2>1. at[r] = "idle" /\ reply[r] = <<>> /\ Len(reply[r]) = 0
    BY DEF HttpInit
  <2>2. IsSequence(reply[r])
    BY <2>1 DEF IsSequence
  <2>. QED
    BY <2>1, <2>2 DEF Answered, Sound, Typed, WellFormed, Over
<1>. QED
  BY <1>1, <1>2, <1>3 DEF HttpInv

-----------------------------------------------------------------------------
(* A step leaves every connection but one as it was. *)
Same(q) ==
  /\ at'[q] = at[q] /\ ask'[q] = ask[q] /\ client'[q] = client[q]
  /\ reply'[q] = reply[q] /\ done'[q] = done[q] /\ text'[q] = text[q]
  /\ q \in submitted' <=> q \in submitted
  /\ q \in cancelled' <=> q \in cancelled
  /\ q \in expired' <=> q \in expired

LEMMA SameKeeps ==
  ASSUME NEW q, Same(q), HandleHeld(q), Answered(q)
  PROVE  HandleHeld(q)' /\ Answered(q)'
<1>1. HandleHeld(q)'
  BY DEF Same, HandleHeld, Over
<1>2. Answered(q)'
  BY DEF Same, Answered, Over
<1>. QED
  BY <1>1, <1>2

LEMMA OneMoves ==
  ASSUME HttpInv, HttpTypes', NEW r \in Requests,
         \A q \in Requests \ {r} : Same(q),
         HandleHeld(r)', Answered(r)'
  PROVE  HttpInv'
<1>1. ASSUME NEW q \in Requests PROVE HandleHeld(q)' /\ Answered(q)'
  <2>1. CASE q = r
    BY <2>1
  <2>2. CASE q # r
    BY <2>2, SameKeeps DEF HttpInv
  <2>. QED
    BY <2>1, <2>2
<1>. QED
  BY <1>1 DEF HttpInv

(* Reading the request, connecting, and the turns of the loop: nothing is  *)
(* written, and the handler goes on or closes. *)
LEMMA ReadLineKeeps ==
  ASSUME HttpInv, NEW r \in Requests, ReadLine(r)
  PROVE  HttpInv'
<1>1. HttpTypes'
  BY DEF HttpInv, HttpTypes, ReadLine, Goto, Write, streamVars, Places, Unasked
<1>2. \A q \in Requests \ {r} : Same(q)
  BY DEF HttpInv, HttpTypes, ReadLine, Goto, Write, streamVars, Same
<1>3. HandleHeld(r)'
  BY DEF HttpInv, HttpTypes, ReadLine, Goto, Write, streamVars, HandleHeld, Over, Unasked
<1>4. Answered(r)'
  BY DEF HttpInv, HttpTypes, ReadLine, Goto, Write, streamVars, HandleHeld, Answered, Over, Unasked
<1>. QED
  BY <1>1, <1>2, <1>3, <1>4, OneMoves

LEMMA ReadHeaderKeeps ==
  ASSUME HttpInv, NEW r \in Requests, ReadHeader(r)
  PROVE  HttpInv'
<1>1. HttpTypes'
  BY DEF HttpInv, HttpTypes, ReadHeader, Goto, Write, streamVars, Places, Unasked
<1>2. \A q \in Requests \ {r} : Same(q)
  BY DEF HttpInv, HttpTypes, ReadHeader, Goto, Write, streamVars, Same
<1>3. HandleHeld(r)'
  BY DEF HttpInv, HttpTypes, ReadHeader, Goto, Write, streamVars, HandleHeld, Over, Unasked
<1>4. Answered(r)'
  BY DEF HttpInv, HttpTypes, ReadHeader, Goto, Write, streamVars, HandleHeld, Answered, Over, Unasked
<1>. QED
  BY <1>1, <1>2, <1>3, <1>4, OneMoves

LEMMA ReadBodyKeeps ==
  ASSUME HttpInv, NEW r \in Requests, ReadBody(r)
  PROVE  HttpInv'
<1>1. HttpTypes'
  BY DEF HttpInv, HttpTypes, ReadBody, Goto, Write, streamVars, Places, Unasked
<1>2. \A q \in Requests \ {r} : Same(q)
  BY DEF HttpInv, HttpTypes, ReadBody, Goto, Write, streamVars, Same
<1>3. HandleHeld(r)'
  BY DEF HttpInv, HttpTypes, ReadBody, Goto, Write, streamVars, HandleHeld, Over, Unasked
<1>4. Answered(r)'
  BY DEF HttpInv, HttpTypes, ReadBody, Goto, Write, streamVars, HandleHeld, Answered, Over, Unasked
<1>. QED
  BY <1>1, <1>2, <1>3, <1>4, OneMoves

LEMMA ReadEofKeeps ==
  ASSUME HttpInv, NEW r \in Requests, ReadEof(r)
  PROVE  HttpInv'
<1>1. HttpTypes'
  BY DEF HttpInv, HttpTypes, ReadEof, Goto, Write, streamVars, Places, Unasked
<1>2. \A q \in Requests \ {r} : Same(q)
  BY DEF HttpInv, HttpTypes, ReadEof, Goto, Write, streamVars, Same
<1>3. HandleHeld(r)'
  BY DEF HttpInv, HttpTypes, ReadEof, Goto, Write, streamVars, HandleHeld, Over, Unasked
<1>4. Answered(r)'
  BY DEF HttpInv, HttpTypes, ReadEof, Goto, Write, streamVars, HandleHeld, Answered, Over, Unasked
<1>. QED
  BY <1>1, <1>2, <1>3, <1>4, OneMoves

LEMMA ReadResetKeeps ==
  ASSUME HttpInv, NEW r \in Requests, ReadReset(r)
  PROVE  HttpInv'
<1>1. HttpTypes'
  BY DEF HttpInv, HttpTypes, ReadReset, Goto, Write, streamVars, Places, Unasked
<1>2. \A q \in Requests \ {r} : Same(q)
  BY DEF HttpInv, HttpTypes, ReadReset, Goto, Write, streamVars, Same
<1>3. HandleHeld(r)'
  BY DEF HttpInv, HttpTypes, ReadReset, Goto, Write, streamVars, HandleHeld, Over, Unasked
<1>4. Answered(r)'
  BY DEF HttpInv, HttpTypes, ReadReset, Goto, Write, streamVars, HandleHeld, Answered, Over, Unasked
<1>. QED
  BY <1>1, <1>2, <1>3, <1>4, OneMoves

LEMMA CloseConnectionKeeps ==
  ASSUME HttpInv, NEW r \in Requests, CloseConnection(r)
  PROVE  HttpInv'
<1>1. HttpTypes'
  BY DEF HttpInv, HttpTypes, CloseConnection, Goto, Write, streamVars, Places, Unasked
<1>2. \A q \in Requests \ {r} : Same(q)
  BY DEF HttpInv, HttpTypes, CloseConnection, Goto, Write, streamVars, Same
<1>3. HandleHeld(r)'
  BY DEF HttpInv, HttpTypes, CloseConnection, Goto, Write, streamVars, HandleHeld, Over, Unasked
<1>4. Answered(r)'
  BY DEF HttpInv, HttpTypes, CloseConnection, Goto, Write, streamVars, HandleHeld, Answered, Over, Unasked
<1>. QED
  BY <1>1, <1>2, <1>3, <1>4, OneMoves

LEMMA ConnectKeeps ==
  ASSUME HttpInv, NEW r \in Requests, Connect(r)
  PROVE  HttpInv'
<1>1. HttpTypes'
  BY DEF HttpInv, HttpTypes, Connect, Goto, Write, streamVars, Places, Unasked
<1>2. \A q \in Requests \ {r} : Same(q)
  BY DEF HttpInv, HttpTypes, Connect, Goto, Write, streamVars, Same
<1>3. HandleHeld(r)'
  BY DEF HttpInv, HttpTypes, Connect, Goto, Write, streamVars, HandleHeld, Over, Unasked
<1>4. Answered(r)'
  BY DEF HttpInv, HttpTypes, Connect, Goto, Write, streamVars, HandleHeld, Answered, Over, Unasked
<1>. QED
  BY <1>1, <1>2, <1>3, <1>4, OneMoves

LEMMA TurnKeeps ==
  ASSUME HttpInv, NEW r \in Requests, NEW from \in SUBSET {"up", "stalled", "gone"},
         NEW to \in {"stalled", "gone", "lost"}, ("gone" \in from => to = "lost"), Turn(r, from, to)
  PROVE  HttpInv'
<1>1. HttpTypes'
  BY DEF HttpInv, HttpTypes, Turn, Goto, Write, streamVars, Places, Unasked
<1>2. \A q \in Requests \ {r} : Same(q)
  BY DEF HttpInv, HttpTypes, Turn, Goto, Write, streamVars, Same
<1>3. HandleHeld(r)'
  BY DEF HttpInv, HttpTypes, Turn, Goto, Write, streamVars, HandleHeld, Over, Unasked
<1>4. Answered(r)'
  BY DEF HttpInv, HttpTypes, Turn, Goto, Write, streamVars, HandleHeld, Answered, Over, Unasked
<1>. QED
  BY <1>1, <1>2, <1>3, <1>4, OneMoves

LEMMA CollectChunkKeeps ==
  ASSUME HttpInv, NEW r \in Requests, CollectChunk(r)
  PROVE  HttpInv'
<1>1. HttpTypes'
  BY DEF HttpInv, HttpTypes, CollectChunk, Goto, Write, streamVars, NextChunk, Yield, Places, Unasked
<1>2. \A q \in Requests \ {r} : Same(q)
  BY DEF HttpInv, HttpTypes, CollectChunk, Goto, Write, streamVars, NextChunk, Yield, Same
<1>3. HandleHeld(r)'
  BY DEF HttpInv, HttpTypes, CollectChunk, Goto, Write, streamVars, NextChunk, Yield, HandleHeld, Over, Unasked
<1>4. Answered(r)'
  <2>1. Len(reply[r]) = 0 /\ Sound(reply[r], ~ Rendered(text[r]))
    BY DEF HttpInv, Answered, CollectChunk
  <2>2. Sound(reply[r], ~ Rendered(text'[r]))
    BY <2>1, SoundEither
  <2>. QED
    BY <2>2 DEF HttpInv, HttpTypes, CollectChunk, Answered, Over, Unasked
<1>. QED
  BY <1>1, <1>2, <1>3, <1>4, OneMoves

LEMMA StreamLostKeeps ==
  ASSUME HttpInv, NEW r \in Requests, StreamLost(r)
  PROVE  HttpInv'
<1>1. HttpTypes'
  BY DEF HttpInv, HttpTypes, StreamLost, Goto, Write, streamVars, NextChunk, NextDone, Yield, Close, Abandon, Places, Unasked
<1>2. \A q \in Requests \ {r} : Same(q)
  BY DEF HttpInv, HttpTypes, StreamLost, Goto, Write, streamVars, NextChunk, NextDone, Yield, Close, Abandon, Same
<1>3. HandleHeld(r)'
  BY DEF HttpInv, HttpTypes, StreamLost, Goto, Write, streamVars, NextChunk, NextDone, Yield, Close, Abandon, HandleHeld, Over, Unasked
<1>4. Answered(r)'
  <2>1. Ends(reply[r], {"head", "event"}) /\ Sound(reply[r], ~ Rendered(text[r]))
    BY DEF HttpInv, Answered, StreamLost
  <2>2. Sound(reply[r], ~ Rendered(text'[r]))
    BY <2>1, SoundEither DEF Ends
  <2>. QED
    BY <2>2 DEF HttpInv, HttpTypes, StreamLost, Goto, Abandon, Answered, Over, Unasked
<1>. QED
  BY <1>1, <1>2, <1>3, <1>4, OneMoves

LEMMA DrainFailsKeeps ==
  ASSUME HttpInv, NEW r \in Requests, DrainFails(r)
  PROVE  HttpInv'
<1>1. HttpTypes'
  BY DEF HttpInv, HttpTypes, DrainFails, Goto, Write, streamVars, Abandon, Places, Unasked
<1>2. \A q \in Requests \ {r} : Same(q)
  BY DEF HttpInv, HttpTypes, DrainFails, Goto, Write, streamVars, Abandon, Same
<1>3. HandleHeld(r)'
  BY DEF HttpInv, HttpTypes, DrainFails, Goto, Write, streamVars, Abandon, HandleHeld, Over, Unasked
<1>4. Answered(r)'
  BY DEF HttpInv, HttpTypes, DrainFails, Goto, Write, streamVars, Abandon, HandleHeld, Answered, Over, Unasked
<1>. QED
  BY <1>1, <1>2, <1>3, <1>4, OneMoves

(* What a write leaves on the connection. *)
LEMMA Writes ==
  ASSUME HttpInv, NEW r \in Requests, NEW item, Write(r, item),
         MayFollow(reply[r], item.type, ~ Rendered(text'[r]))
  PROVE  Sound(reply'[r], ~ Rendered(text'[r])) /\ Ends(reply'[r], {item.type})
<1>1. Sound(reply[r], ~ Rendered(text[r]))
  BY DEF HttpInv, Answered
<1>2. reply'[r] = Append(reply[r], item)
  BY DEF Write, HttpInv, HttpTypes
<1>. QED
  BY <1>1, <1>2, WriteKeeps

(* The steps that write: each writes what may follow what is there. *)
LEMMA RouteSimpleKeeps ==
  ASSUME HttpInv, NEW r \in Requests, RouteSimple(r)
  PROVE  HttpInv'
<1>1. HttpTypes'
  BY DEF HttpInv, HttpTypes, RouteSimple, Goto, streamVars, Write, Places, Unasked
<1>2. \A q \in Requests \ {r} : Same(q)
  BY DEF HttpInv, HttpTypes, RouteSimple, Goto, streamVars, Write, Same
<1>3. HandleHeld(r)'
  BY DEF HttpInv, HttpTypes, RouteSimple, Goto, streamVars, HandleHeld, Over, Unasked
<1>4. Write(r, Json(Status(r))) => Sound(reply'[r], ~ Rendered(text'[r])) /\ Ends(reply'[r], {"json"})
  <2>1. (Json(Status(r))).type = "json"
    BY DEF Json, Item, Event
  <2>2. Write(r, Json(Status(r))) => MayFollow(reply[r], "json", ~ Rendered(text'[r]))
    BY DEF HttpInv, Answered, RouteSimple, Goto, streamVars, MayFollow, Unasked
  <2>. QED
    BY <2>1, <2>2, Writes
<1>5. Answered(r)'
  BY <1>4 DEF HttpInv, HttpTypes, RouteSimple, Goto, streamVars, HandleHeld, Answered, Ends, Over, Unasked
<1>. QED
  BY <1>1, <1>2, <1>3, <1>5, OneMoves

LEMMA EndHeadersKeeps ==
  ASSUME HttpInv, NEW r \in Requests, EndHeaders(r)
  PROVE  HttpInv'
<1>1. HttpTypes'
  BY DEF HttpInv, HttpTypes, EndHeaders, Goto, streamVars, Write, Places, Unasked
<1>2. \A q \in Requests \ {r} : Same(q)
  BY DEF HttpInv, HttpTypes, EndHeaders, Goto, streamVars, Write, Same
<1>3. HandleHeld(r)'
  BY DEF HttpInv, HttpTypes, EndHeaders, Goto, streamVars, HandleHeld, Over, Unasked
<1>4. Write(r, Json(500)) => Sound(reply'[r], ~ Rendered(text'[r])) /\ Ends(reply'[r], {"json"})
  <2>1. (Json(500)).type = "json"
    BY DEF Json, Item, Event
  <2>2. Write(r, Json(500)) => MayFollow(reply[r], "json", ~ Rendered(text'[r]))
    BY DEF HttpInv, Answered, EndHeaders, Goto, streamVars, MayFollow, Unasked
  <2>. QED
    BY <2>1, <2>2, Writes
<1>5. Answered(r)'
  BY <1>4 DEF HttpInv, HttpTypes, EndHeaders, Goto, streamVars, HandleHeld, Answered, Ends, Over, Unasked
<1>. QED
  BY <1>1, <1>2, <1>3, <1>5, OneMoves

LEMMA TimedOutKeeps ==
  ASSUME HttpInv, NEW r \in Requests, TimedOut(r)
  PROVE  HttpInv'
<1>1. HttpTypes'
  BY DEF HttpInv, HttpTypes, TimedOut, Goto, streamVars, Write, Places, Unasked
<1>2. \A q \in Requests \ {r} : Same(q)
  BY DEF HttpInv, HttpTypes, TimedOut, Goto, streamVars, Write, Same
<1>3. HandleHeld(r)'
  BY DEF HttpInv, HttpTypes, TimedOut, Goto, streamVars, HandleHeld, Over, Unasked
<1>4. Write(r, Json(500)) => Sound(reply'[r], ~ Rendered(text'[r])) /\ Ends(reply'[r], {"json"})
  <2>1. (Json(500)).type = "json"
    BY DEF Json, Item, Event
  <2>2. Write(r, Json(500)) => MayFollow(reply[r], "json", ~ Rendered(text'[r]))
    BY DEF HttpInv, Answered, TimedOut, Goto, streamVars, MayFollow, Unasked
  <2>. QED
    BY <2>1, <2>2, Writes
<1>5. Answered(r)'
  BY <1>4 DEF HttpInv, HttpTypes, TimedOut, Goto, streamVars, HandleHeld, Answered, Ends, Over, Unasked
<1>. QED
  BY <1>1, <1>2, <1>3, <1>5, OneMoves

LEMMA CompleteKeeps ==
  ASSUME HttpInv, NEW r \in Requests, Complete(r)
  PROVE  HttpInv'
<1>1. HttpTypes'
  BY DEF HttpInv, HttpTypes, Complete, Goto, streamVars, Submitted, Open, Write, Places, Unasked
<1>2. \A q \in Requests \ {r} : Same(q)
  BY DEF HttpInv, HttpTypes, Complete, Goto, streamVars, Submitted, Open, Write, Same
<1>3. HandleHeld(r)'
  BY DEF HttpInv, HttpTypes, Complete, Goto, streamVars, Submitted, Open, HandleHeld, Over, Unasked
<1>4. Write(r, Item("head")) => Sound(reply'[r], ~ Rendered(text'[r])) /\ Ends(reply'[r], {"head"})
  <2>1. (Item("head")).type = "head"
    BY DEF Json, Item, Event
  <2>2. Write(r, Item("head")) => MayFollow(reply[r], "head", ~ Rendered(text'[r]))
    BY DEF HttpInv, Answered, Complete, Goto, streamVars, Submitted, Open, MayFollow, Unasked
  <2>. QED
    BY <2>1, <2>2, Writes
<1>5. Write(r, Json(500)) => Sound(reply'[r], ~ Rendered(text'[r])) /\ Ends(reply'[r], {"json"})
  <2>1. (Json(500)).type = "json"
    BY DEF Json, Item, Event
  <2>2. Write(r, Json(500)) => MayFollow(reply[r], "json", ~ Rendered(text'[r]))
    BY DEF HttpInv, Answered, Complete, Goto, streamVars, Submitted, Open, MayFollow, Unasked
  <2>. QED
    BY <2>1, <2>2, Writes
<1>6. Answered(r)'
  BY <1>4, <1>5 DEF HttpInv, HttpTypes, Complete, Goto, streamVars, Submitted, Open, HandleHeld, Answered, Ends, Over, Unasked
<1>. QED
  BY <1>1, <1>2, <1>3, <1>6, OneMoves

LEMMA CollectDoneKeeps ==
  ASSUME NoDoneDistinct, HttpInv, NEW r \in Requests, CollectDone(r)
  PROVE  HttpInv'
<1>1. HttpTypes'
  BY DEF HttpInv, HttpTypes, CollectDone, Goto, streamVars, NextDone, Close, Write, Places, Unasked
<1>2. \A q \in Requests \ {r} : Same(q)
  BY DEF HttpInv, HttpTypes, CollectDone, Goto, streamVars, NextDone, Close, Write, Same
<1>3. HandleHeld(r)'
  BY DEF HttpInv, HttpTypes, CollectDone, Goto, streamVars, NextDone, Close, NoDoneDistinct, HandleHeld, Over, Unasked
<1>4. Sound(reply'[r], ~ Rendered(text'[r])) /\ Ends(reply'[r], {"json"})
  <2>1. PICK item : Write(r, item) /\ item.type = "json"
    BY DEF CollectDone, Json, Event
  <2>2. MayFollow(reply[r], "json", ~ Rendered(text'[r]))
    BY DEF HttpInv, Answered, CollectDone, MayFollow
  <2>. QED
    BY <2>1, <2>2, Writes
<1>5. Answered(r)'
  BY <1>4 DEF HttpInv, HttpTypes, CollectDone, Goto, Answered, Ends, Over, Unasked
<1>. QED
  BY <1>1, <1>2, <1>3, <1>5, OneMoves

LEMMA StreamChunkKeeps ==
  ASSUME HttpInv, NEW r \in Requests, StreamChunk(r)
  PROVE  HttpInv'
<1>1. HttpTypes'
  BY DEF HttpInv, HttpTypes, StreamChunk, Goto, streamVars, NextChunk, Yield, Write, Places, Unasked
<1>2. \A q \in Requests \ {r} : Same(q)
  BY DEF HttpInv, HttpTypes, StreamChunk, Goto, streamVars, NextChunk, Yield, Write, Same
<1>3. HandleHeld(r)'
  BY DEF HttpInv, HttpTypes, StreamChunk, Goto, streamVars, NextChunk, Yield, HandleHeld, Over, Unasked
<1>4. Write(r, Event("event", SubSeq(text'[r], Len(text[r]) + 1, Len(text'[r])))) => Sound(reply'[r], ~ Rendered(text'[r])) /\ Ends(reply'[r], {"event"})
  <2>1. (Event("event", SubSeq(text'[r], Len(text[r]) + 1, Len(text'[r])))).type = "event"
    BY DEF Json, Item, Event
  <2>2. Write(r, Event("event", SubSeq(text'[r], Len(text[r]) + 1, Len(text'[r])))) => MayFollow(reply[r], "event", ~ Rendered(text'[r]))
    BY DEF HttpInv, Answered, StreamChunk, Goto, streamVars, NextChunk, Yield, MayFollow, Unasked
  <2>. QED
    BY <2>1, <2>2, Writes
<1>5. Answered(r)'
  BY <1>4 DEF HttpInv, HttpTypes, StreamChunk, Goto, streamVars, NextChunk, Yield, HandleHeld, Answered, Ends, Over, Unasked
<1>. QED
  BY <1>1, <1>2, <1>3, <1>5, OneMoves

LEMMA StreamRaisesKeeps ==
  ASSUME HttpInv, NEW r \in Requests, StreamRaises(r)
  PROVE  HttpInv'
<1>1. HttpTypes'
  BY DEF HttpInv, HttpTypes, StreamRaises, Goto, NextChunk, Yield, Write, Places, Unasked
<1>2. \A q \in Requests \ {r} : Same(q)
  BY DEF HttpInv, HttpTypes, StreamRaises, Goto, NextChunk, Yield, Write, Same
<1>3. HandleHeld(r)'
  BY DEF HttpInv, HttpTypes, StreamRaises, Goto, NextChunk, Yield, HandleHeld, Over, Unasked
<1>4. Sound(reply'[r], ~ Rendered(text'[r])) /\ Ends(reply'[r], {"json"})
  <2>1. Write(r, Json(500)) /\ (Json(500)).type = "json"
    BY DEF StreamRaises, Json
  <2>2. MayFollow(reply[r], "json", ~ Rendered(text'[r]))
    BY DEF HttpInv, Answered, StreamRaises, MayFollow
  <2>. QED
    BY <2>1, <2>2, Writes
<1>5. Answered(r)'
  BY <1>4 DEF HttpInv, HttpTypes, StreamRaises, Goto, Answered, Ends, Over, Unasked
<1>. QED
  BY <1>1, <1>2, <1>3, <1>5, OneMoves

LEMMA StreamDoneKeeps ==
  ASSUME NoDoneDistinct, HttpInv, NEW r \in Requests, StreamDone(r)
  PROVE  HttpInv'
<1>1. HttpTypes'
  BY DEF HttpInv, HttpTypes, StreamDone, Goto, streamVars, NextDone, Close, Write, Places, Unasked
<1>2. \A q \in Requests \ {r} : Same(q)
  BY DEF HttpInv, HttpTypes, StreamDone, Goto, streamVars, NextDone, Close, Write, Same
<1>3. HandleHeld(r)'
  BY DEF HttpInv, HttpTypes, StreamDone, Goto, streamVars, NextDone, Close, NoDoneDistinct, HandleHeld, Over, Unasked
<1>4. Write(r, Item("final")) => Sound(reply'[r], ~ Rendered(text'[r])) /\ Ends(reply'[r], {"final"})
  <2>1. (Item("final")).type = "final"
    BY DEF Json, Item, Event
  <2>2. Write(r, Item("final")) => MayFollow(reply[r], "final", ~ Rendered(text'[r]))
    BY DEF HttpInv, Answered, StreamDone, Goto, streamVars, NextDone, Close, MayFollow, Unasked
  <2>. QED
    BY <2>1, <2>2, Writes
<1>5. Answered(r)'
  BY <1>4 DEF HttpInv, HttpTypes, StreamDone, Goto, streamVars, NextDone, Close, HandleHeld, Answered, Ends, Over, Unasked
<1>. QED
  BY <1>1, <1>2, <1>3, <1>5, OneMoves

LEMMA DrainKeeps ==
  ASSUME HttpInv, NEW r \in Requests, Drain(r)
  PROVE  HttpInv'
<1>1. HttpTypes'
  BY DEF HttpInv, HttpTypes, Drain, Goto, streamVars, Write, Places, Unasked
<1>2. \A q \in Requests \ {r} : Same(q)
  BY DEF HttpInv, HttpTypes, Drain, Goto, streamVars, Write, Same
<1>3. HandleHeld(r)'
  BY DEF HttpInv, HttpTypes, Drain, Goto, streamVars, HandleHeld, Over, Unasked
<1>4. at[r] = "final" => Sound(reply'[r], ~ Rendered(text'[r])) /\ Ends(reply'[r], {"DONE"})
  <2>1. (Item("DONE")).type = "DONE"
    BY DEF Json, Item, Event
  <2>2. at[r] = "final" => Write(r, Item("DONE")) /\ MayFollow(reply[r], "DONE", ~ Rendered(text'[r]))
    BY DEF HttpInv, Answered, Drain, Goto, streamVars, MayFollow, Unasked
  <2>. QED
    BY <2>1, <2>2, Writes
<1>5. Answered(r)'
  BY <1>4 DEF HttpInv, HttpTypes, Drain, Goto, streamVars, HandleHeld, Answered, Ends, Over, Unasked
<1>. QED
  BY <1>1, <1>2, <1>3, <1>5, OneMoves

-----------------------------------------------------------------------------
(* A step in which no handler moves. *)
LEMMA OthersKeep ==
  ASSUME HttpInv, HttpTypes', \A q \in Requests : Same(q)
  PROVE  HttpInv'
BY SameKeeps DEF HttpInv

LEMMA StopKeeps ==
  ASSUME HttpInv,
         StopServer \/ StopEngine \/ (\E r \in Requests : EngineCuts(r)) \/ UNCHANGED httpVars
  PROVE  HttpInv'
<1>1. HttpTypes'
  BY DEF HttpInv, HttpTypes, StopServer, StopEngine, EngineCuts, httpVars, lifeVars, streamVars
<1>2. \A q \in Requests : Same(q)
  BY DEF StopServer, StopEngine, EngineCuts, httpVars, lifeVars, streamVars, Same
<1>. QED
  BY <1>1, <1>2, OthersKeep

LEMMA ClientKeeps ==
  ASSUME HttpInv, NEW r \in Requests, Client(r)
  PROVE  HttpInv'
<1>1. CASE Connect(r)
  BY <1>1, ConnectKeeps
<1>2. CASE Stall(r)
  <2>1. Turn(r, {"up"}, "stalled")
    BY <1>2 DEF Stall
  <2>. QED
    BY <2>1, TurnKeeps
<1>3. CASE Leave(r)
  <2>1. Turn(r, {"up", "stalled"}, "gone")
    BY <1>3 DEF Leave
  <2>. QED
    BY <2>1, TurnKeeps
<1>4. CASE Reset(r)
  <2>1. Turn(r, {"up", "stalled", "gone"}, "lost")
    BY <1>4 DEF Reset
  <2>. QED
    BY <2>1, TurnKeeps
<1>. QED
  BY <1>1, <1>2, <1>3, <1>4 DEF Client

LEMMA NextKeeps ==
  ASSUME NoDoneDistinct, HttpInv, [HttpNext]_httpVars
  PROVE  HttpInv'
<1>1. CASE StopServer \/ StopEngine \/ (\E r \in Requests : EngineCuts(r)) \/ UNCHANGED httpVars
  BY <1>1, StopKeeps
<1>2. CASE \E r \in Requests : Client(r)
  BY <1>2, ClientKeeps
<1>3. CASE \E r \in Requests : Read(r)
  BY <1>3, ReadLineKeeps, ReadHeaderKeeps, EndHeadersKeeps, ReadBodyKeeps DEF Read
<1>4. CASE \E r \in Requests : TimedOut(r)
  BY <1>4, TimedOutKeeps
<1>5. CASE \E r \in Requests : Answering(r)
  <2>1. PICK r \in Requests : Answering(r)
    BY <1>5
  <2>2. CASE ReadEof(r) \/ ReadReset(r) \/ RouteSimple(r) \/ Complete(r)
    BY <2>2, ReadEofKeeps, ReadResetKeeps, RouteSimpleKeeps, CompleteKeeps
  <2>3. CASE CollectChunk(r) \/ CollectDone(r)
    BY <2>3, CollectChunkKeeps, CollectDoneKeeps
  <2>4. CASE StreamLost(r) \/ StreamChunk(r) \/ StreamRaises(r) \/ StreamDone(r)
    BY <2>4, StreamLostKeeps, StreamChunkKeeps, StreamRaisesKeeps, StreamDoneKeeps
  <2>5. CASE Drain(r) \/ DrainFails(r) \/ CloseConnection(r)
    BY <2>5, DrainKeeps, DrainFailsKeeps, CloseConnectionKeeps
  <2>. QED
    BY <2>1, <2>2, <2>3, <2>4, <2>5 DEF Answering
<1>. QED
  BY <1>1, <1>2, <1>3, <1>4, <1>5 DEF HttpNext

LEMMA InvAlways == NoDoneDistinct /\ HttpSpec => []HttpInv
<1>1. NoDoneDistinct /\ HttpInv /\ [HttpNext]_httpVars => HttpInv'
  BY NextKeeps
<1>2. NoDoneDistinct => NoDoneDistinct'
  BY DEF NoDoneDistinct
<1>. QED
  BY InitInv, <1>1, <1>2, PTL DEF HttpSpec

-----------------------------------------------------------------------------
(* However many connections there are and whenever their clients leave, a  *)
(* handler that stopped reading its handle before the Done has cancelled   *)
(* the request, unless an exception of the tokenizer stopped it, and it    *)
(* cancels only for a client that is lost: _stream (server.py:226-258).    *)
THEOREM RequestsNotOrphaned == NoDoneDistinct /\ HttpSpec => []NoOrphans
<1>1. HttpInv => NoOrphans
  BY DEF HttpInv, HandleHeld, NoOrphans
<1>. QED
  BY InvAlways, <1>1, PTL

(* Whatever a client asks for and whatever goes wrong, what is written on  *)
(* its connection is a part of one well-formed answer, but for the error   *)
(* that ends a stream the tokenizer raised in, and at the end the whole of *)
(* it unless the client went away, sent no request or let the time run     *)
(* out: _handle, _route, _completions and _stream.                         *)
THEOREM AnswersAreWhole == NoDoneDistinct /\ HttpSpec => []AnswersWhole
<1>1. HttpInv => AnswersWhole
  <2>. SUFFICES ASSUME HttpInv, NEW r \in Requests
                PROVE  /\ \A i \in 1 .. Len(reply[r]) :
                            CASE reply[r][i].type = "json" ->
                                   \/ Len(reply[r]) = 1
                                   \/ i = Len(reply[r]) /\ ~ Rendered(text[r])
                              [] reply[r][i].type = "head" -> i = 1
                              [] reply[r][i].type \in {"event", "final"} ->
                                   i > 1 /\ reply[r][i - 1].type \in {"head", "event"}
                              [] reply[r][i].type = "DONE" ->
                                   i = Len(reply[r]) /\ reply[r][i - 1].type = "final"
                       /\ Over(r) => \/ /\ Len(reply[r]) > 0
                                        /\ reply[r][Len(reply[r])].type \in {"json", "DONE"}
                                     \/ client[r] \in {"gone", "lost"}
                                     \/ ask[r] = "word" \/ r \in expired
    BY DEF AnswersWhole
  <2>1. Answered(r)
    BY DEF HttpInv
  <2>2. ASSUME NEW i \in 1 .. Len(reply[r])
        PROVE  CASE reply[r][i].type = "json" ->
                      Len(reply[r]) = 1 \/ (i = Len(reply[r]) /\ ~ Rendered(text[r]))
                 [] reply[r][i].type = "head" -> i = 1
                 [] reply[r][i].type \in {"event", "final"} ->
                      i > 1 /\ reply[r][i - 1].type \in {"head", "event"}
                 [] reply[r][i].type = "DONE" ->
                      i = Len(reply[r]) /\ reply[r][i - 1].type = "final"
    <3>1. InPlace(reply[r], ~ Rendered(text[r]), i) /\ reply[r][i].type \in Types
      BY <2>1 DEF Answered, Sound, Typed, WellFormed
    <3>2. CASE reply[r][i].type = "json"
      BY <3>1, <3>2 DEF InPlace
    <3>3. CASE reply[r][i].type = "head"
      BY <3>1, <3>3 DEF InPlace
    <3>4. CASE reply[r][i].type \in {"event", "final"}
      BY <3>1, <3>4 DEF InPlace
    <3>5. CASE reply[r][i].type = "DONE"
      BY <3>1, <3>5 DEF InPlace
    <3>. QED
      BY <3>1, <3>2, <3>3, <3>4, <3>5 DEF Types
  <2>3. Over(r) => \/ /\ Len(reply[r]) > 0
                      /\ reply[r][Len(reply[r])].type \in {"json", "DONE"}
                   \/ client[r] \in {"gone", "lost"}
                   \/ ask[r] = "word" \/ r \in expired
    BY <2>1 DEF Answered, Ends
  <2>. QED
    BY <2>2, <2>3
<1>. QED
  BY InvAlways, <1>1, PTL
===============================================================================
