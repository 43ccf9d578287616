----------------------------- MODULE MCDaemon -----------------------------
(* Instances of Daemon for TLC. *)
EXTENDS Daemon, TLC

CONSTANTS i1, text, png

AddLists == {<<text, png>>}
TextLists == {<<text>>}
\* Removes two mimes, of which the second may be missing when the first has been
\* removed, and sets one again.
OneUpdate == {<<<<text, png>>, <<text>>>>}
=============================================================================
