----------------------------- MODULE MCCommands -----------------------------
(* An instance of Commands for TLC. *)
EXTENDS Commands

Bare == [kind |-> "list", id |-> NoId, mime |-> NoMime, sets |-> <<>>, removes |-> <<>>,
         age |-> NoAge, limit |-> 9]

File(m)  == <<m, "file">>
Stdin(m) == <<m, "stdin">>

Adds == {[Bare EXCEPT !.kind = "add", !.sets = sets] :
            sets \in {<<File(Text), Stdin(Label)>>, <<Stdin(Text), Stdin(Label)>>}}

Updates == {[Bare EXCEPT !.kind = "update", !.id = 1, !.sets = sets, !.removes = removes] :
                sets \in {<<>>, <<File(Label)>>}, removes \in {<<>>, <<Text, Label>>}}

Deletes == {[Bare EXCEPT !.kind = "delete", !.id = id, !.mime = mime, !.age = age] :
                id \in {NoId, 1}, mime \in {NoMime, Text}, age \in {NoAge, 2}}
Prunings == {[Bare EXCEPT !.kind = "delete", !.age = age] : age \in {1, 3, 13, 20, 30}}

Lists == {[Bare EXCEPT !.mime = mime, !.limit = limit] :
            mime \in {NoMime, Label}, limit \in {1, 9}}

OnItems == {[Bare EXCEPT !.kind = kind, !.id = id, !.mime = IF kind = "decode" THEN Text ELSE NoMime] :
                kind \in {"restore", "formats", "decode", "inspect"}, id \in {1, 3}}

Given == Adds \cup Updates \cup Deletes \cup Prunings \cup Lists \cup OnItems

\* Two items; the label of the second has the content of the first.
Beginnings ==
    {[live |-> {1, 2},
      rows |-> [k \in Ids |-> CASE k = 1 -> [NoRows EXCEPT ![Text] = "old"]
                                [] k = 2 -> [NoRows EXCEPT ![Text] = "file", ![Label] = "old"]
                                [] OTHER -> NoRows]]}

MimesUsed == {Text, Label}
=============================================================================
