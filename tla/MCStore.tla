------------------------------ MODULE MCStore ------------------------------
(* Instances of Store for TLC. *)
EXTENDS Store, TLC

CONSTANTS i1, i2, text, html, a, b

\* Two formats that share a blob, two blobs, and a mime given twice.
MixedLists == {<<<<text, a>>, <<html, a>>>>, <<<<html, b>>, <<text, a>>>>, <<<<text, a>>, <<text, b>>>>}
OneFormatLists == {<<<<text, a>>>>, <<<<text, b>>>>}
\* Every list ends in b, so an item added with a kept the wrong format.
LastLists == {<<<<text, b>>>>, <<<<text, a>>, <<text, b>>>>}

TaskSymmetry == Permutations(Tasks)
=============================================================================
