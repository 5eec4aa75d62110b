----------------------------- MODULE TokenStream -----------------------------
(***************************************************************************)
(* What a RequestHandle promises its consumer: chunks that follow each     *)
(* other along the request's answer without a gap or a repetition, then    *)
(* exactly one Done with the same tokens; and unless the request was       *)
(* cancelled, all of them.                                                 *)
(***************************************************************************)
EXTENDS Naturals, Sequences

CONSTANTS Requests, Answer, NoDone

VARIABLES
  submitted,   \* the requests that have a handle
  text,        \* the tokens of the chunks each handle has yielded
  done         \* the Done event each handle has yielded, or NoDone

streamVars == <<submitted, text, done>>

StreamInit ==
  /\ submitted = {}
  /\ text = [r \in Requests |-> <<>>]
  /\ done = [r \in Requests |-> NoDone]

Open(r) ==
  /\ r \notin submitted
  /\ submitted' = submitted \cup {r}
  /\ UNCHANGED <<text, done>>

Yield(r) ==
  /\ r \in submitted /\ done[r] = NoDone
  /\ \E n \in Len(text[r]) + 1 .. Len(Answer[r]) :
       text' = [text EXCEPT ![r] = SubSeq(Answer[r], 1, n)]
  /\ UNCHANGED <<submitted, done>>

Close(r) ==
  /\ r \in submitted /\ done[r] = NoDone
  /\ \E reason \in {"stop", "length", "cancelled"} :
       /\ reason # "cancelled" => text[r] = Answer[r]
       /\ done' = [done EXCEPT ![r] = [reason |-> reason, ids |-> text[r]]]
  /\ UNCHANGED <<submitted, text>>

StreamNext == \E r \in Requests : Open(r) \/ Yield(r) \/ Close(r)

StreamSpec == StreamInit /\ [][StreamNext]_streamVars
=============================================================================
