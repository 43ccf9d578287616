------------------------------ MODULE MCLabeld ------------------------------
(* An instance of Labeld for TLC. *)
EXTENDS Labeld

CONSTANTS labeld, watcher

TwoClients == {labeld, watcher}

\* richclip-labeld, and `richclip watch --mime application/x-richclip-label'.
Filters == [c \in TwoClients |->
    IF c = labeld THEN [tag |-> "item-added", mimes |-> {"image/png"}]
                  ELSE [tag |-> "any", mimes |-> {Label}]]

MimesUsed == {"image/png", Label}
=============================================================================
