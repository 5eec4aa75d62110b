----------------------------- MODULE StepMachine -----------------------------
(***************************************************************************)
(* What a scheduler promises to whoever drives it: the surface that        *)
(* AsyncEngine relies on (add, step, has_work, cancel, running, finished), *)
(* with nothing of batches, reservations or KV blocks.  Scheduler is shown *)
(* to implement it; AsyncEngine is built over it.                          *)
(*                                                                         *)
(* One call of step() is BeginStep, an Accept for each running sequence,   *)
(* any number of admissions from the head of the queue, and EndStep.       *)
(***************************************************************************)
EXTENDS Subsequence, SequencesExt

CONSTANTS
  Requests,
  Answer,      \* the tokens of each request, run by itself
  MayStall,    \* may a step leave the queue alone though nothing runs?
  MayRaise     \* may step() raise?

ASSUME MachineAssumption ==
  MayStall \in BOOLEAN /\ MayRaise \in BOOLEAN

VARIABLES
  queue,       \* the requests that wait
  running,     \* the requests that run
  finished,    \* request -> its output
  output,      \* the tokens each request has emitted
  phase,       \* "idle", "step" inside a call of step(), "raised"
  todo         \* the running sequences this step has yet to decode

machineVars == <<queue, running, finished, output, phase, todo>>

MachineInit ==
  /\ queue = <<>> /\ running = {} /\ finished = <<>>
  /\ output = [r \in Requests |-> <<>>]
  /\ phase = "idle" /\ todo = {}

Busy == queue # <<>> \/ running # {}

Recorded(r, out) ==
  [q \in DOMAIN finished \cup {r} |-> IF q = r THEN out ELSE finished[q]]

Enqueue(r) ==
  /\ phase = "idle"
  /\ r \notin Range(queue) \cup running \cup DOMAIN finished
  /\ queue' = Append(queue, r)
  /\ UNCHANGED <<running, finished, output, phase, todo>>

(* cancel(): a queued request ends with no output, a running one with what *)
(* it has.                                                                 *)
Abort(r) ==
  /\ phase = "idle"
  /\ \/ r \in Range(queue) /\ finished' = Recorded(r, <<>>)
     \/ r \in running /\ finished' = Recorded(r, output[r])
  /\ queue' \in Without(queue, {r})
  /\ running' = running \ {r}
  /\ UNCHANGED <<output, phase, todo>>

BeginStep ==
  /\ phase = "idle" /\ Busy
  /\ phase' = "step" /\ todo' = running
  /\ UNCHANGED <<queue, running, finished, output>>

(* A sequence gets further along its answer, or to the end of it.          *)
Advance(r) ==
  \/ /\ \E n \in Len(output[r]) + 1 .. Len(Answer[r]) :
          output' = [output EXCEPT ![r] = SubSeq(Answer[r], 1, n)]
     /\ running' = running \cup {r}
     /\ UNCHANGED finished
  \/ /\ output' = [output EXCEPT ![r] = Answer[r]]
     /\ finished' = Recorded(r, Answer[r])
     /\ running' = running \ {r}

Accept(r) ==
  /\ phase = "step" /\ r \in todo
  /\ Advance(r)
  /\ todo' = todo \ {r}
  /\ UNCHANGED <<queue, phase>>

Admit ==
  /\ phase = "step" /\ todo = {} /\ queue # <<>>
  /\ Advance(Head(queue))
  /\ queue' = Tail(queue)
  /\ UNCHANGED <<phase, todo>>

EndStep ==
  /\ phase = "step" /\ todo = {}
  /\ running = {} /\ ~ MayStall => queue = <<>>
  /\ phase' = "idle"
  /\ UNCHANGED <<queue, running, finished, output, todo>>

Raise ==
  /\ phase = "step" /\ MayRaise
  /\ phase' = "raised" /\ todo' = {}
  /\ UNCHANGED <<queue, running, finished, output>>

MachineNext ==
  \/ BeginStep \/ Admit \/ EndStep \/ Raise
  \/ \E r \in Requests : Enqueue(r) \/ Abort(r) \/ Accept(r)

MachineSpec == MachineInit /\ [][MachineNext]_machineVars
=============================================================================
