------------------------------ MODULE MCServing ------------------------------
(* Bounds for model-checking what serves requests: in a behaviour either   *)
(* the engine runs, over any scheduler that is a StepMachine, or the HTTP  *)
(* server does, over any engine whose handles are a TokenStream.           *)
EXTENDS AsyncEngine, TLC

CONSTANTS r1, r2

VARIABLE runs  \* what runs: the engine, called in one of two ways, or a connection

-----------------------------------------------------------------------------
\* One request that ends by its budget, one by EOS short of it.
MCRequests == {r1, r2}
MCAnswer == (r1 :> <<"a", "b">>) @@ (r2 :> <<"c">>)
MCMaxTokens == (r1 :> 2) @@ (r2 :> 2)

\* One may be cancelled twice, the other is not; or nobody is.
TwiceCancelled == (r1 :> 2) @@ (r2 :> 0)
NeverCancelled == [r \in MCRequests |-> 0]

\* Bound: either r1 may be cancelled, and before a restart twice, or two stop()s may overlap.
FewCalls ==
  /\ runs = "cancels" => stopping + stale <= 1 /\ (asked[r1] = 2 => starts < 2)
  /\ runs = "stops" => asked[r1] = 0

-----------------------------------------------------------------------------
(* The server.  Handlers share nothing but the engine and the listening    *)
(* socket, whose ends no handler causes, so in a behaviour one connection  *)
(* runs, of any kind.                                                      *)
VARIABLES
  wsubmitted, wtext, wdone,
  listening, engine, at, ask, client, timer, reply, expired, cancelled, cut

Connections == {r1, r2}

\* A character and a space split between tokens, and a token that renders to nothing
\* before a space; a token the tokenizer raises on.
WebAnswer == (r1 :> <<"hi", "lo_", "eos", "_a">>) @@ (r2 :> <<"a", "odd">>)
WebBytes ==
  ("_a" :> <<"sp", "a">>) @@ ("a" :> <<"a">>) @@ ("hi" :> <<"hi">>)
  @@ ("lo_" :> <<"lo", "sp">>) @@ ("eos" :> <<>>)

\* What does not depend on the answer is asked for on one connection.
AllKinds == {"word", "length", "get", "none", "bad", "collect", "stream"}
WebAsks == [r \in Connections |-> IF r = r1 THEN AllKinds ELSE {"get", "collect", "stream"}]

Web == INSTANCE HttpServer WITH
         Requests <- Connections, Answer <- WebAnswer, BytesOf <- WebBytes, Strips <- TRUE,
         Asks <- WebAsks, submitted <- wsubmitted, text <- wtext, done <- wdone

webVars == <<wsubmitted, wtext, wdone, listening, engine, at, ask, client, timer,
             reply, expired, cancelled, cut>>

-----------------------------------------------------------------------------
MCInit ==
  /\ runs \in {"cancels", "stops"} \cup Connections
  /\ EngineInit /\ Web!HttpInit
  /\ \A r \in Connections \ {runs} : ask[r] = "get"

MCNext ==
  /\ UNCHANGED runs
  /\ \/ runs \notin Connections /\ EngineNext /\ FewCalls' /\ UNCHANGED webVars
     \/ /\ runs \in Connections /\ Web!HttpNext /\ UNCHANGED engineVars
        /\ \A r \in Connections \ {runs} : at'[r] = "idle"

MCSpec ==
  /\ MCInit /\ [][MCNext]_<<runs, engineVars, webVars>>
  /\ EngineFairness /\ Web!HttpFairness

(* The server's properties, each as HttpServer states it: no request is    *)
(* left running for a client that is gone, ... *)
NoOrphans == Web!NoOrphans

(* ... one request has one well-formed response, ... *)
AnswersWhole == Web!AnswersWhole

(* ... the text streamed is the text of the tokens, ... *)
StreamedText == Web!StreamedText

(* ... and every connection comes to its end. *)
ConnectionsEnd == Web!ConnectionsEnd
==============================================================================
