SPECIFICATION Spec
CONSTANTS
    text = text  utf8 = utf8  png = png  hint = hint  label = label
    a = a  b = b  secret = secret  empty = empty
    Mimes = {text, utf8, png, hint, label}
    Base <- BaseTypes
    Allowed = {text, png}
    Hints = {hint}
    Textual = {text}
    Internal = {label}
    Contents = {a, b, secret, empty}
    Empty = empty
    Secrets = {secret}
    Size <- Sizes
    MaxFormat = 2
    MaxItem = 2
    Copies <- SomeCopies
    Kept <- PlainItems
    Restores = {r1, r2}
    None = None
    MaxOffers = 1
    MaxFaults = 0
CHECK_DEADLOCK FALSE
INVARIANTS NoSelfCapture
