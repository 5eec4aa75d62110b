---------------------------- MODULE ModelLoading ----------------------------
(***************************************************************************)
(* The constructor of Model: what becomes of each .bin of the directory.   *)
(* A weight is its scale, relative to the checkpoint's, and the form it is *)
(* kept in; a scale is a product of powers of the config's multipliers,    *)
(* kept as the exponent of each.                                           *)
(***************************************************************************)
EXTENDS Integers, FiniteSets, Functions

CONSTANTS
  Layers,   \* num_layers
  Models    \* [folds, qk_norm, qkv_bias, tied, n_experts, mode, quantize_embed, half]

(* The multipliers that may differ from 1: attention_multiplier (times the *)
(* root of head_dim), residual_, embedding_multiplier and logits_scaling.  *)
Scalars == {"attention", "residual", "embedding", "logits"}

ASSUME LoadingAssumption ==
  /\ Layers \in Nat \ {0}
  /\ \A c \in Models : c.folds \subseteq Scalars /\ c.n_experts \in Nat
                       /\ {c.qk_norm, c.qkv_bias, c.tied, c.quantize_embed, c.half} \subseteq BOOLEAN

VARIABLES
  config,   \* cfg_ and the arguments
  stage,    \* how far the constructor is, or "raised"
  w,        \* w_: name -> tensor
  weights,  \* weights_: name -> Weight
  embed,    \* embed_ and
  lmHead    \* lm_head_: at most one Weight each

loadVars == <<config, stage, w, weights, embed, lmHead>>

-----------------------------------------------------------------------------
(* The names: layer (0 for none), part, expert. *)
Global(part) == <<0, part, 0>>
Embed == Global("embed_tokens")
LmHead == Global("lm_head")
FinalNorm == Global("norm")

Mlp == {"gate_proj", "up_proj", "down_proj"}
LayerParts(c) ==
  {"input_layernorm", "post_attention_layernorm", "q_proj", "k_proj", "v_proj", "o_proj"}
    \cup (IF c.qkv_bias THEN {"q_bias", "k_bias", "v_bias"} ELSE {})
    \cup (IF c.qk_norm THEN {"q_norm", "k_norm"} ELSE {})
    \cup (IF c.n_experts = 0 THEN Mlp ELSE {"router"})

(* What tools/export_weights.py writes: a tied model has no lm_head. *)
Files(c) ==
  {Embed, FinalNorm} \cup (IF c.tied THEN {} ELSE {LmHead})
    \cup {<<i, part, 0>> : i \in 1 .. Layers, part \in LayerParts(c)}
    \cup {<<i, part, e>> : i \in 1 .. Layers, part \in Mlp, e \in 1 .. c.n_experts}

is_layer_proj(n) ==
  n[2] \in {"q_proj", "k_proj", "v_proj", "o_proj"} \cup Mlp
is_half_eligible(n) == is_layer_proj(n) \/ n \in {Embed, LmHead}

Unscaled == [s \in Scalars |-> 0]
Raw == [scale |-> Unscaled, form |-> "f32", resident |-> FALSE]

LoadInit ==
  /\ config \in Models
  /\ stage = "fold"
  /\ w = [n \in Files(config) |-> Raw]
  /\ weights = <<>> /\ embed = {} /\ lmHead = {}

-----------------------------------------------------------------------------
(* The folds.  scale_weight passes over a name that is absent. *)
\* Mutation: a tied model's logits keep the embedding's multiplier.
Folded_NotDivided(c, n) ==
  [s \in Scalars |->
     CASE s \notin c.folds -> 0
       [] s = "attention" /\ n[2] \in {"q_proj", "q_bias"} -> 1
       [] s = "residual" /\ n[2] \in {"o_proj", "down_proj"} -> 1
       [] s = "embedding" /\ n = Embed -> 1
       [] s = "logits" /\ n = FinalNorm -> -1
       [] OTHER -> 0]

Folded(c, n) ==
  [s \in Scalars |->
     CASE s \notin c.folds -> 0
       [] s = "attention" /\ n[2] \in {"q_proj", "q_bias"} -> 1
       [] s = "residual" /\ n[2] \in {"o_proj", "down_proj"} -> 1
       [] s = "embedding" /\ n = Embed -> 1
       [] s = "embedding" /\ n = FinalNorm /\ c.tied -> -1
       [] s = "logits" /\ n = FinalNorm -> -1
       [] OTHER -> 0]

Fold ==
  /\ stage = "fold"
  /\ IF "attention" \in config.folds /\ config.qk_norm
     THEN stage' = "raised" /\ UNCHANGED w
     ELSE /\ stage' = "quantize"
          /\ w' = [n \in DOMAIN w |-> [w[n] EXCEPT !.scale = Folded(config, n)]]
  /\ UNCHANGED <<config, weights, embed, lmHead>>

Without(f, names) == Restrict(f, DOMAIN f \ names)
Built(t, form) == [t EXCEPT !.form = form, !.resident = TRUE]

(* make_quant_weight of each projection *)
Quantize ==
  /\ stage = "quantize" /\ stage' = "embed"
  /\ LET names == {n \in DOMAIN w : config.mode # "None" /\ is_layer_proj(n)}
     IN  /\ weights' = [n \in names |-> Built(w[n], config.mode)]
         /\ w' = Without(w, names)
  /\ UNCHANGED <<config, embed, lmHead>>

QuantizeEmbed ==
  /\ stage = "embed" /\ stage' = "resident"
  /\ IF config.quantize_embed
     THEN LET head == IF config.tied THEN {} ELSE {LmHead} \cap DOMAIN w
          IN  /\ embed' = {Built(w[Embed], "Q8")}
              /\ lmHead' = {Built(w[n], "Q8") : n \in head}
              /\ w' = Without(w, {Embed} \cup head)
     ELSE UNCHANGED <<embed, lmHead, w>>
  /\ UNCHANGED <<config, weights>>

(* to_resident of all that is left in w_ *)
Resident ==
  /\ stage = "resident" /\ stage' = "wrap"
  /\ w' = [n \in DOMAIN w |->
             Built(w[n], IF is_half_eligible(n) /\ config.half THEN "half" ELSE "f32")]
  /\ UNCHANGED <<config, weights, embed, lmHead>>

(* DenseWeight around the projections, the embedding and the lm_head.      *)
Wrap ==
  /\ stage = "wrap" /\ stage' = "loaded"
  /\ LET projs == {n \in DOMAIN w : is_layer_proj(n)}
         table == IF embed = {} THEN {Embed} ELSE {}
         head  == IF lmHead = {} /\ ~ config.tied THEN {LmHead} \cap DOMAIN w ELSE {}
     IN  /\ weights' = [n \in DOMAIN weights \cup projs |->
                          IF n \in DOMAIN weights THEN weights[n] ELSE w[n]]
         /\ embed' = embed \cup {w[n] : n \in table}
         /\ lmHead' = lmHead \cup {w[n] : n \in head}
         /\ w' = Without(w, projs \cup table \cup head)
  /\ UNCHANGED config

LoadNext == Fold \/ Quantize \/ QuantizeEmbed \/ Resident \/ Wrap

LoadSpec == LoadInit /\ [][LoadNext]_loadVars

-----------------------------------------------------------------------------
Times(t, u) == [s \in Scalars |-> t.scale[s] + u.scale[s]]
Power(c, s, e) == [x \in Scalars |-> IF x = s /\ s \in c.folds THEN e ELSE 0]
One(S) == CHOOSE x \in S : TRUE

(* lm_head() *)
OutputWeight == IF lmHead # {} THEN One(lmHead) ELSE One(embed)

(* Where a loaded model finds a weight. *)
Home(n) ==
  CASE n = Embed -> One(embed)
    [] n = LmHead -> OutputWeight
    [] is_layer_proj(n) -> weights[n]
    [] OTHER -> w[n]

(* The scales: a loaded model computes with the multipliers of its config  *)
(* although no operation of the forward pass knows them: queries times     *)
(* keys carry attention_multiplier, what a sublayer adds                   *)
(* residual_multiplier (its nonlinear inside none), the embedding          *)
(* embedding_multiplier, and the logits nothing but 1 / logits_scaling,    *)
(* whatever form each weight has.                                          *)
ScalesFolded ==
  stage = "loaded" =>
    /\ \A i \in 1 .. Layers :
         /\ Times(Home(<<i, "q_proj", 0>>), Home(<<i, "k_proj", 0>>)) = Power(config, "attention", 1)
         /\ config.qkv_bias =>
              Home(<<i, "q_bias", 0>>).scale = Home(<<i, "q_proj", 0>>).scale
         /\ Times(Home(<<i, "v_proj", 0>>), Home(<<i, "o_proj", 0>>)) = Power(config, "residual", 1)
    /\ \A n \in Files(config) :
         n[2] \in Mlp =>
           Home(n).scale = Power(config, "residual", IF n[2] = "down_proj" THEN 1 ELSE 0)
    /\ One(embed).scale = Power(config, "embedding", 1)
    /\ Times(w[FinalNorm], OutputWeight) = Power(config, "logits", -1)

(* The form asked for. *)
Form(n) ==
  IF is_layer_proj(n) /\ config.mode # "None" THEN config.mode
  ELSE IF n \in {Embed, LmHead} /\ config.quantize_embed THEN "Q8"
  ELSE IF is_half_eligible(n) /\ config.half THEN "half"
  ELSE "f32"

(* Every file ends in one place, where the forward pass looks it up and    *)
(* weight_bytes() counts it once, resident, in the form asked for.         *)
OneHome ==
  stage = "loaded" =>
    /\ Cardinality(embed) = 1
    /\ Cardinality(lmHead) = (IF config.tied THEN 0 ELSE 1)
    /\ DOMAIN w \cap DOMAIN weights = {}
    /\ DOMAIN w \cup DOMAIN weights = Files(config) \ {Embed, LmHead}
    /\ \A n \in Files(config) : Home(n).resident /\ Home(n).form = Form(n)

(* What the forward pass looks up is what the config asked for. *)
LoadedAsConfigured == ScalesFolded /\ OneHome
=============================================================================
