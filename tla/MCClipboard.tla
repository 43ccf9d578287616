---------------------------- MODULE MCClipboard ----------------------------
(* Instances of Clipboard for TLC. *)
EXTENDS Clipboard, TLC

CONSTANTS text, utf8, png, hint, label, a, b, secret, empty

\* utf8 is text with a parameter; only text and images are allowed.
BaseTypes == [m \in Mimes |-> IF m = utf8 THEN text ELSE m]
\* A single b is as much as one item may have.
Sizes == (a :> 1) @@ (b :> 2) @@ (secret :> 1) @@ (empty :> 0)

\* Text and an image too much for one item, a secret after an image, and a
\* password with its hint.
SomeCopies == {<<<<utf8, a>>, <<png, b>>>>, <<<<png, a>>, <<text, secret>>>>,
               <<<<text, a>>, <<hint, empty>>>>}
\* A labelled text; an image with a hint; two items that capture gives back as
\* they are.
KeptItems == {{<<text, a>>, <<label, b>>}, {<<png, a>>, <<hint, empty>>}}
PlainItems == {{<<text, a>>}, {<<png, a>>}}

=============================================================================
