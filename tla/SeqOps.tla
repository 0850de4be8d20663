------------------------------- MODULE SeqOps -------------------------------
(***************************************************************************)
(* Slices with an element taken out.  SequencesExt has such operators too, *)
(* but what it extends makes every proof about a module that extends it    *)
(* many times slower.                                                      *)
(***************************************************************************)
EXTENDS Integers, Sequences

RemoveAt(s, i) == SubSeq(s, 1, i - 1) \o SubSeq(s, i + 1, Len(s))

(* e is s[i] and is in no place before.                                    *)
FirstAt(s, e, i) == s[i] = e /\ \A j \in 1 .. i - 1 : s[j] # e

(* s unless e is in it.                                                    *)
RemoveFirst(s, e) ==
  IF \A i \in DOMAIN s : s[i] # e THEN s
  ELSE RemoveAt(s, CHOOSE i \in DOMAIN s : FirstAt(s, e, i))
=============================================================================
