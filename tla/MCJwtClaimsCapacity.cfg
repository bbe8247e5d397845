SPECIFICATION Spec
CONSTANTS
    Chars <- MCChars
    Key <- MCKey
    GroupLen = 4
    ExpDigits = 2
    HexDigits = 2
    BufferLen = 24
    MaxLens = {5, 9, 13}
    Documents <- MCDocuments
    Texts <- MCTexts
INVARIANT ValueLengthSuffices
CHECK_DEADLOCK FALSE
