----------------------------- MODULE AsyncEngine -----------------------------
(***************************************************************************)
(* The asyncio bridge (cpp/python/ni/async_engine.py): an event loop that  *)
(* submits, cancels and consumes, and an engine thread that drives a       *)
(* scheduler.  They share an inbox one way and call_soon_threadsafe the    *)
(* other; all else is the engine thread's.  The scheduler is what          *)
(* StepMachine promises, which Scheduler implements.                       *)
(***************************************************************************)
EXTENDS StepMachine

CONSTANTS
  MaxTokens,   \* max_tokens of each request
  NoDone,      \* no Done event yet
  LateSubmits, \* may submit() be called while stop() awaits the thread?
  MaxCancels,  \* bound: cancel() calls for each request
  MaxStarts,   \* bound: calls of start()
  MaxStops     \* bound: calls of stop() that await a thread at once

ASSUME EngineAssumption ==
  /\ \A r \in Requests :
       /\ Answer[r] \in Seq(Range(Answer[r]))
       /\ MaxTokens[r] \in Nat /\ Len(Answer[r]) <= MaxTokens[r]
  /\ LateSubmits \in BOOLEAN /\ MaxCancels \in [Requests -> Nat] 
  /\ MaxStarts \in Nat /\ MaxStops \in Nat

VARIABLES
  inbox,       \* the queue to the engine thread
  started,     \* _thread is set
  stopping,    \* how many stop()s await the end of the newest thread
  stale,       \* and how many that of an earlier one, which is over
  starts,      \* how often start() was called
  thread,      \* where the engine thread is: "drain", "step", "publish", "ended"
  handles,     \* _handles, in the order of insertion
  sent,        \* _sent
  dropped,     \* _cancelled
  calls,       \* the callbacks the event loop has yet to run
  events,      \* the queue of each handle
  submitted, text, done,   \* what the consumers have seen, as in TokenStream
  asked        \* how often each request's cancel() was called

stopVars == <<started, stopping, stale, starts>>
loopVars == <<submitted, asked, stopVars>>
threadVars == <<thread, handles, sent, dropped>>
consumerVars == <<events, text, done>>
engineVars == <<machineVars, inbox, loopVars, threadVars, calls, consumerVars>>

EngineInit ==
  /\ MachineInit
  /\ inbox = <<>> /\ calls = <<>>
  /\ started = FALSE /\ stopping = 0 /\ stale = 0 /\ starts = 0
  /\ thread = "ended"
  /\ handles = <<>> /\ sent = [r \in Requests |-> 0] /\ dropped = {}
  /\ events = [r \in Requests |-> <<>>]
  /\ submitted = {}
  /\ text = [r \in Requests |-> <<>>]
  /\ done = [r \in Requests |-> NoDone]
  /\ asked = [r \in Requests |-> 0]

Chunk(ids) == [type |-> "chunk", ids |-> ids]
Final(reason, ids) == [type |-> "done", reason |-> reason, ids |-> ids]

-----------------------------------------------------------------------------
(* The event loop.  start() tests nothing: its callers are taken to await  *)
(* an end of the thread first, so no two threads ever drive one scheduler, *)
(* and not to restart on a scheduler left in the middle of a step that     *)
(* raised.                                                                 *)
Start ==
  /\ ~ started /\ thread = "ended" /\ starts < MaxStarts /\ phase # "raised"
  /\ started' = TRUE /\ starts' = starts + 1
  /\ stale' = stale + stopping /\ stopping' = 0
  /\ thread' = "drain"
  /\ UNCHANGED <<machineVars, inbox, submitted, asked, handles, sent, dropped,
                 calls, consumerVars>>

(* stop() may overlap another one: each puts an item of its own. *)
Stop ==
  /\ started /\ stopping + stale < MaxStops
  /\ inbox' = Append(inbox, [op |-> "stop"])
  /\ stopping' = stopping + 1
  /\ UNCHANGED <<machineVars, submitted, asked, started, stale, starts, threadVars,
                 calls, consumerVars>>

(* stop() after its join, which may come after the next start(). *)
Stopped ==
  /\ \/ /\ stopping > 0 /\ thread = "ended"
        /\ stopping' = stopping - 1
        /\ UNCHANGED stale
     \/ /\ stale > 0
        /\ stale' = stale - 1
        /\ UNCHANGED stopping
  /\ started' = FALSE
  /\ UNCHANGED <<machineVars, inbox, submitted, asked, starts, threadVars, calls,
                 consumerVars>>

Submit(r) ==
  /\ started
  /\ LateSubmits \/ stopping = 0
  /\ r \notin submitted
  /\ inbox' = Append(inbox, [op |-> "add", id |-> r])
  /\ submitted' = submitted \cup {r}
  /\ UNCHANGED <<machineVars, asked, stopVars, threadVars, calls, consumerVars>>

Cancel(r) ==
  /\ r \in submitted /\ asked[r] < MaxCancels[r]
  /\ inbox' = Append(inbox, [op |-> "cancel", id |-> r])
  /\ asked' = [asked EXCEPT ![r] = @ + 1]
  /\ UNCHANGED <<machineVars, submitted, stopVars, threadVars, calls, consumerVars>>

(* A callback of call_soon_threadsafe: put_nowait on the handle's queue. *)
RunCallback ==
  /\ calls # <<>>
  /\ LET c == Head(calls)
     IN  events' = [events EXCEPT ![c.id] = Append(@, c.event)]
  /\ calls' = Tail(calls)
  /\ UNCHANGED <<machineVars, inbox, loopVars, threadVars, text, done>>

(* __anext__ *)
Consume(r) ==
  /\ done[r] = NoDone /\ events[r] # <<>>
  /\ events' = [events EXCEPT ![r] = Tail(@)]
  /\ LET ev == Head(events[r])
     IN  \/ /\ ev.type = "chunk"
            /\ text' = [text EXCEPT ![r] = @ \o ev.ids]
            /\ UNCHANGED done
         \/ /\ ev.type = "done"
            /\ done' = [done EXCEPT ![r] = [reason |-> ev.reason, ids |-> ev.ids]]
            /\ UNCHANGED text
  /\ UNCHANGED <<machineVars, inbox, loopVars, threadVars, calls>>

-----------------------------------------------------------------------------
(* The engine thread: drain the inbox, ... *)
Get(op) ==
  /\ thread = "drain" /\ inbox # <<>>
  /\ Head(inbox).op = op
  /\ inbox' = Tail(inbox)
  /\ UNCHANGED <<loopVars, consumerVars>>

GetAdd ==
  /\ Get("add")
  /\ LET r == Head(inbox).id
     IN  /\ Enqueue(r)
         /\ handles' = Append(handles, r)
         /\ sent' = [sent EXCEPT ![r] = 0]
  /\ UNCHANGED <<thread, dropped, calls>>

GetCancel ==
  /\ Get("cancel")
  /\ LET r == Head(inbox).id
     IN  \/ /\ r \in Range(handles) \ dropped
            /\ Abort(r)
            /\ dropped' = dropped \cup {r}
         \/ /\ r \notin Range(handles) \ dropped
            /\ UNCHANGED <<machineVars, dropped>>
  /\ UNCHANGED <<thread, handles, sent, calls>>

(* What cancel() and finished.pop() leave of a request at shutdown. *)
Partial(r) ==
  CASE r \in DOMAIN finished -> finished[r]
    [] r \in running -> output[r]
    [] OTHER -> <<>>

\* Mutation: only the requests that run get their Done.
ShutdownCalls_Running ==
  LET open == SelectSeq(handles, LAMBDA r : r \in running)
  IN  [i \in DOMAIN open |->
         [id |-> open[i], event |-> Final("cancelled", Partial(open[i]))]]

ShutdownCalls ==
  [i \in DOMAIN handles |->
     [id |-> handles[i], event |-> Final("cancelled", Partial(handles[i]))]]

\* Mutation: the scheduler keeps what was outstanding.
Shutdown_Kept ==
  /\ calls' = calls \o ShutdownCalls
  /\ handles' = <<>> /\ dropped' = {}
  /\ UNCHANGED <<machineVars, sent>>

Shutdown ==
  /\ queue' \in Without(queue, Range(handles))
  /\ running' = running \ Range(handles)
  /\ finished' = [r \in DOMAIN finished \ Range(handles) |-> finished[r]]
  /\ calls' = calls \o ShutdownCalls
  /\ handles' = <<>> /\ dropped' = {}
  /\ UNCHANGED <<output, phase, todo, sent>>

GetStop ==
  /\ Get("stop")
  /\ Shutdown
  /\ thread' = "ended"

(* ... and once it is empty, step if there is work. *)
Idle ==
  /\ thread = "drain" /\ inbox = <<>>
  /\ ~ Busy
  /\ thread' = "publish"
  /\ UNCHANGED <<machineVars, inbox, loopVars, handles, sent, dropped, calls,
                 consumerVars>>

CallStep ==
  /\ thread = "drain" /\ inbox = <<>>
  /\ BeginStep
  /\ thread' = "step"
  /\ UNCHANGED <<inbox, loopVars, handles, sent, dropped, calls, consumerVars>>

InStep ==
  /\ thread = "step"
  /\ Admit \/ \E r \in Requests : Accept(r)
  /\ UNCHANGED <<inbox, loopVars, threadVars, calls, consumerVars>>

StepReturns ==
  /\ thread = "step" /\ EndStep
  /\ thread' = "publish"
  /\ UNCHANGED <<inbox, loopVars, handles, sent, dropped, calls, consumerVars>>

(* Nothing catches an exception of step(): the thread ends with it. *)
StepRaises ==
  /\ thread = "step" /\ Raise
  /\ thread' = "ended"
  /\ UNCHANGED <<inbox, loopVars, handles, sent, dropped, calls, consumerVars>>

\* Mutation: a cancelled request is reported like any other.
Reason_Uncancelled(r) ==
  IF Len(finished[r]) >= MaxTokens[r] /\ MaxTokens[r] > 0 THEN "length" ELSE "stop"

Reason(r) ==
  CASE r \in dropped -> "cancelled"
    [] r \notin dropped /\ Len(finished[r]) >= MaxTokens[r] /\ MaxTokens[r] > 0 -> "length"
    [] OTHER -> "stop"

(* The tokens of out that are not sent yet, if any. *)
Unsent(r, out) ==
  IF Len(out) > sent[r] THEN <<Chunk(SubSeq(out, sent[r] + 1, Len(out)))>> ELSE <<>>

\* Mutation: the last step's tokens are left to the Done.
News_DoneOnly(r) ==
  CASE r \in DOMAIN finished -> <<Final(Reason(r), finished[r])>>
    [] r \in running -> Unsent(r, output[r])
    [] OTHER -> <<>>

News(r) ==
  CASE r \in DOMAIN finished -> Append(Unsent(r, finished[r]), Final(Reason(r), finished[r]))
    [] r \in running -> Unsent(r, output[r])
    [] OTHER -> <<>>

Published(r) == IF r \in running THEN Len(output[r]) ELSE sent[r]

Publish ==
  /\ thread = "publish"
  /\ calls' = calls \o FlattenSeq(
       [i \in DOMAIN handles |->
          LET evs == News(handles[i])
          IN  [k \in DOMAIN evs |-> [id |-> handles[i], event |-> evs[k]]]])
  /\ sent' = [r \in Requests |-> Published(r)]
  /\ handles' \in Without(handles, DOMAIN finished)
  /\ dropped' = dropped \ DOMAIN finished
  /\ finished' = [r \in DOMAIN finished \ Range(handles) |-> finished[r]]
  /\ thread' = "drain"
  /\ UNCHANGED <<queue, running, output, phase, todo, inbox, loopVars, consumerVars>>

-----------------------------------------------------------------------------
Thread ==
  \/ GetAdd \/ GetCancel \/ GetStop
  \/ Idle \/ CallStep \/ InStep \/ StepReturns \/ StepRaises
  \/ Publish

EngineNext ==
  \/ Thread
  \/ Start \/ Stop \/ Stopped \/ RunCallback
  \/ \E r \in Requests : Submit(r) \/ Cancel(r) \/ Consume(r)

EngineSpec == EngineInit /\ [][EngineNext]_engineVars

(* The thread runs, the event loop runs its callbacks and resumes stop(),  *)
(* and a consumer goes on awaiting its next event.  Nobody has to start,   *)
(* stop, submit or cancel.                                                 *)
EngineFairness ==
  /\ WF_engineVars(Thread) /\ WF_engineVars(RunCallback) /\ WF_engineVars(Stopped)
  /\ \A r \in Requests : WF_engineVars(Consume(r))

FairEngineSpec == EngineSpec /\ EngineFairness

-----------------------------------------------------------------------------
(* The engine and its scheduler agree on what is open: every request the   *)
(* scheduler queues, runs or has finished has a handle to deliver it to,   *)
(* and the other way round, so an engine that stopped leaves nothing in    *)
(* the scheduler and no KV allocated; and when the thread reads its inbox  *)
(* all that has run is published, so that neither a cancel nor a stop      *)
(* found there can lose a token.                                           *)
OneBook ==
  /\ IsInjective(handles)
  /\ Range(handles) = Range(queue) \cup running \cup DOMAIN finished
  /\ dropped \subseteq DOMAIN finished
  /\ thread = "drain" => \A r \in running \cup DOMAIN finished : sent[r] = Len(output[r])

(* The finish reason is true: "length" is the whole budget, "stop" is the  *)
(* whole answer short of it, and "cancelled" is told only of requests that *)
(* somebody cancelled or that a stop() cut off.                            *)
ReasonTrue ==
  \A r \in Requests :
    done[r] # NoDone =>
      CASE done[r].reason = "length" ->
             done[r].ids = Answer[r] /\ Len(Answer[r]) = MaxTokens[r]
        [] done[r].reason = "stop" ->
             done[r].ids = Answer[r] /\ (Len(Answer[r]) < MaxTokens[r] \/ MaxTokens[r] = 0)
        [] done[r].reason = "cancelled" ->
             asked[r] > 0 \/ stopping > 0 \/ ~ started \/ starts > 1

(* Streaming changes no token: what a consumer sees is a TokenStream.      *)
Stream == INSTANCE TokenStream
IsTokenStream == Stream!StreamSpec

(* Every handle's stream ends with its Done: no consumer awaits forever.   *)
EveryStreamEnds ==
  \A r \in Requests : r \in submitted ~> done[r] # NoDone

(* ... and when one does not, an exception of step() has ended the thread; *)
(* or the request lies for ever in the inbox of a thread that is over,     *)
(* submitted behind a stop that nobody followed by a start (the stop may   *)
(* be the second of two that overlapped, and have ended the thread of a    *)
(* later start()); or it waits for ever at a scheduler that runs nothing   *)
(* and admits nothing, which prefix sharing makes possible                 *)
(* (RunCompletes in MCSchedulerStarves).                                   *)
Unread(r) == thread = "ended" /\ [op |-> "add", id |-> r] \in Range(inbox)
Starved(r) == r \in Range(queue) /\ running = {}

StreamsEndUnlessCut ==
  \A r \in Requests :
    r \in submitted ~> (done[r] # NoDone \/ phase = "raised" \/ []Unread(r) \/ []Starved(r))
=============================================================================
