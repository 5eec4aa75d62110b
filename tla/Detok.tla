------------------------------- MODULE Detok -------------------------------
(***************************************************************************)
(* Incremental detokenization (cpp/python/ni/detok.py) over a tokenizer    *)
(* whose tokens are byte sequences that may end inside a character.  A     *)
(* byte is "hi" (opens a character of two), "lo" (closes it), or a         *)
(* character of its own, one of them the space "sp".                       *)
(***************************************************************************)
EXTENDS Naturals, Sequences, SequencesExt

CONSTANTS
  BytesOf,   \* token -> the bytes it renders to: none for a special token;
             \* of any other token decode() raises
  Strips     \* does decode() drop the space it would begin with?

REPLACEMENT == "?"

(* The character that begins at byte i, if one does. *)
CharAt(b, i) ==
  LET opens  == b[i] = "hi" /\ i < Len(b) /\ b[i + 1] = "lo"
      closes == b[i] = "lo" /\ i > 1 /\ b[i - 1] = "hi"
  IN  CASE opens -> <<"wide">>
        [] closes -> <<>>
        [] ~ opens /\ ~ closes /\ b[i] \in {"hi", "lo"} -> <<REPLACEMENT>>
        [] OTHER -> <<b[i]>>

(* tokenizer.decode *)
Rendered(ids) == ToSet(ids) \subseteq DOMAIN BytesOf
Rendering(ids) == FlattenSeq([i \in DOMAIN ids |-> BytesOf[ids[i]]])

Decode(ids) ==
  LET b   == Rendering(ids)
      out == FlattenSeq([i \in DOMAIN b |-> CharAt(b, i)])
  IN  IF Strips /\ out # <<>> /\ out[1] = "sp" THEN Tail(out) ELSE out

-----------------------------------------------------------------------------
(* A detokenizer: its ids, the two offsets of its window, and the text it  *)
(* has returned. *)
NewDetok == [ids |-> <<>>, prefix |-> 0, read |-> 0, out |-> <<>>]

Window(d) == Decode(SubSeq(d.ids, d.prefix + 1, Len(d.ids)))
Context(d) == Decode(SubSeq(d.ids, d.prefix + 1, d.read))
NewText(d) == SubSeq(Window(d), Len(Context(d)) + 1, Len(Window(d)))

Held(d) == Window(d) # <<>> /\ Last(Window(d)) = REPLACEMENT

\* Mutation: the window starts at the new ids, which then render alone.
Advance_Alone(d) ==
  [d EXCEPT !.prefix = Len(d.ids), !.read = Len(d.ids), !.out = @ \o NewText(d)]

Advance(d) ==
  [d EXCEPT !.prefix = d.read, !.read = Len(d.ids), !.out = @ \o NewText(d)]

Push(d, new) ==
  LET e == [d EXCEPT !.ids = @ \o new]
  IN  IF Held(e) THEN e ELSE Advance(e)

Flush(d) ==
  [d EXCEPT !.prefix = Len(d.ids), !.read = Len(d.ids), !.out = @ \o NewText(d)]
=============================================================================
