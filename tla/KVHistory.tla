------------------------------ MODULE KVHistory ------------------------------
(***************************************************************************)
(* What a KV cache promises the decode loop (cache.hpp: KVCacheBase): each *)
(* sequence has a token history of its own.  A step extends one history (a *)
(* forward, or a seeded prefix) or cuts it back (truncate, release), and   *)
(* leaves every other history alone.  Nothing of blocks, sharing or a      *)
(* prefix cache is visible here.                                           *)
(***************************************************************************)
EXTENDS Integers, Sequences

CONSTANTS
  Caches,      \* the sequences' caches
  MaxSeq       \* the model's context length

VARIABLE
  history      \* the tokens whose K/V each cache holds

(* t starts with s. *)
StartsWith(t, s) == Len(s) <= Len(t) /\ SubSeq(t, 1, Len(s)) = s

Init == history = [c \in Caches |-> <<>>]

Extend(c) == StartsWith(history'[c], history[c]) /\ Len(history'[c]) <= MaxSeq

Cut(c) == StartsWith(history[c], history'[c])

Next ==
  \E c \in Caches :
    /\ Extend(c) \/ Cut(c)
    /\ \A d \in Caches \ {c} : history'[d] = history[d]

Spec == Init /\ [][Next]_history

=============================================================================
