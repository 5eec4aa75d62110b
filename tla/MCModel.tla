------------------------------- MODULE MCModel -------------------------------
(* Bounds for the model library: in a behaviour a model is loaded, or its  *)
(* rows are quantized and read, or it makes a few calls, or a generation   *)
(* loop runs over it.                                                      *)
EXTENDS ModelForward, Speculative, ModelLoading, Quant

VARIABLES
  runs,  \* which of the four
  made   \* Bound: how many calls a behaviour makes

CONSTANTS host, device, MaxMade

-----------------------------------------------------------------------------
(* Calls. *)
MCHosts == {host}
MCDevices == {device}

\* Four experts: ties between two of them, different choices for the two tokens.
RECURSIVE TokenOf(_)
TokenOf(x) == IF x[1] = "embed" THEN x[2] ELSE IF x[1] = "norm" THEN TokenOf(x[3]) ELSE TokenOf(x[2])
MCRouterLogit(i, e, x) ==
  CASE TokenOf(x) = 1 -> <<2, 3, 3, 1>>[e + 1]
    [] TokenOf(x) = 2 /\ i = 0 -> <<1, 1, 2, 1>>[e + 1]
    [] OTHER -> <<0, 5, 0, 5>>[e + 1]

MCIds == {<<2>>, <<1, 2, 1>>}
MCBatches ==
  {[tokens |-> <<1, 2>>, caches |-> cs] : cs \in {<<host, device>>, <<host>>}}
MCSpecBatches ==
  {[tokens |-> <<1, 2, 1>>, counts |-> n, caches |-> cs] :
     n \in {<<2, 1>>, <<1, 2>>, <<1, 1>>}, cs \in {<<host, device>>, <<device, host>>}}
MCFails == {<<>>, <<1, 1>>}

-----------------------------------------------------------------------------
(* Loops. *)
Logits(a, b, c) == <<a, b, c>>
MCTargetLogits(tokens) ==
  LET n == Len(tokens) IN
  IF n = 0 THEN Logits(0, 0, 0)
  ELSE CASE tokens[n] = 1 -> IF n % 2 = 0 THEN Logits(2, 4, 0) ELSE Logits(2, 2, -2)
         [] tokens[n] = 2 -> IF n % 3 = 0 THEN Logits(6, 4, 0) ELSE Logits(4, 0, 4)
         [] OTHER -> Logits(2, 0, 2)
MCDraftLogits(tokens) ==
  IF Len(tokens) % 2 = 0 THEN Logits(2, 2, 0) ELSE Logits(4, 0, 2)

Params(t, k, p, r) == [temperature |-> t, top_k |-> k, top_p |-> p, penalty |-> r]
All == <<1, 1>>
MCRuns ==
  [method : {"plain", "draft", "lookup"}, rule : {"sample"}, prompt : {<<3>>, <<1, 2, 1>>},
   max_tokens : {3}, k : {1, 2}, ngram : {1}, eos : {0, 3},
   params : {Params(0, 0, All, 1), Params(0, 0, All, 2), Params(1, 0, All, 2), Params(2, 0, <<4, 7>>, 1),
             Params(1, 2, <<1, 2>>, 1), Params(2, 0, <<2, 3>>, 2)}] \cup
  [method : {"draft", "lookup"}, rule : {"greedy"}, prompt : {<<1>>, <<1, 2, 1>>, <<2, 1, 2, 1>>},
   max_tokens : {0, 1, 4}, k : {1, 3}, ngram : {1, 2}, eos : {0, 3}, params : {Params(0, 0, All, 1)}] \cup
  [method : {"plain"}, rule : {"sample"}, prompt : {<<>>, <<1>>}, max_tokens : {0, 1},
   k : {1}, ngram : {1}, eos : {0}, params : {Params(0, 0, All, 1)}]

-----------------------------------------------------------------------------
(* Loading: every mixture of multipliers and layouts. *)
MCModels ==
  [folds : SUBSET Scalars, qk_norm : BOOLEAN, qkv_bias : BOOLEAN, tied : BOOLEAN, n_experts : {0, 2},
   mode : {"None", "Q4G"}, quantize_embed : BOOLEAN, half : BOOLEAN]

(* Rows: odd and even, with groups that divide them and that do not, of    *)
(* values that round up, down and to even.                                 *)
MCRows == [0 .. 4 -> {-5, 1, 4}] \cup [0 .. 4 -> {-3, 0, 2}] \cup [0 .. 5 -> {-3, 0, 2}]
MCGroups == {3, 4, 6}

-----------------------------------------------------------------------------
(* What a behaviour is not about stays in one initial state. *)
IdleRow == CHOOSE row \in MCRows : TRUE

MCInit ==
  /\ runs \in {"calls", "loop", "loading", "rows"}
  /\ made = 0
  /\ run \in IF runs = "loop" THEN Runs ELSE {CHOOSE r \in Runs : TRUE}
  /\ config \in IF runs = "loading" THEN Models ELSE {CHOOSE c \in Models : TRUE}
  /\ ModelInit /\ LoopInit /\ LoadInit
  /\ IF runs = "rows" THEN QuantInit(MCRows, MCGroups) ELSE QuantInit({IdleRow}, {3})

MCNext ==
  /\ UNCHANGED runs
  /\ \/ /\ runs = "calls" /\ made < MaxMade
        /\ made' = made + 1 /\ ModelNext
        /\ UNCHANGED <<loopVars, loadVars, quantVars>>
     \/ /\ runs = "loop" /\ LoopNext
        /\ UNCHANGED <<made, modelVars, loadVars, quantVars>>
     \/ /\ runs = "loading" /\ LoadNext
        /\ UNCHANGED <<made, modelVars, loopVars, quantVars>>
     \/ /\ runs = "rows" /\ LinearQ4G
        /\ UNCHANGED <<made, modelVars, loopVars, loadVars>>

MCSpec == MCInit /\ [][MCNext]_<<runs, made, modelVars, loopVars, loadVars, quantVars>>
==============================================================================
