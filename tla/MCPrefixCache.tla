---------------------------- MODULE MCPrefixCache ----------------------------
(* Bounds for model-checking PrefixCache. *)
EXTENDS PrefixCache, TLC

CONSTANTS c1, c2, t1, t2

MCCaches == {c1, c2}
MCToken == {t1, t2}
\* One block and a token, and two blocks and a token, with a common first block.
MCPrompts == {<<t1, t1, t1>>, <<t1, t1, t2, t1, t1>>}
\* A token fed by a decode step, and a block's worth of a prefill.
MCChunks == {<<t1>>, <<t2, t1>>}
\* The caches are interchangeable.
MCSymmetry == Permutations(MCCaches)
=============================================================================
