------------------------------ MODULE MCFilter ------------------------------
(* Instances of Filter for TLC. *)
EXTENDS Filter, SequencesExt

CONSTANT MaxFragments

\* Texts are made of these: the ways a scheme, a URL and a run begin and end.
Fragments == {<<"letter">>, <<"digit">>, <<"under">>, <<"dash">>, <<"query">>, <<"other">>,
              <<"colon", "slash", "slash">>}
Texts == {FlattenSeq(s) : s \in SeqOf(Fragments, MaxFragments)}
=============================================================================
