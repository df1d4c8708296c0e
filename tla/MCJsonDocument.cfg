SPECIFICATION SpecAll
CONSTANTS
  MaxShort = 4
  \* The quote, the backslash, u, control characters around the one that has
  \* an escape of its own, and a byte of a multi-byte character; what numbers
  \* are made of; the boundaries of UTF-8 and of the surrogates.
  StringBytes = {10, 31, 34, 48, 92, 117, 255}
  MaxString = 4
  NumberBytes = {43, 45, 46, 48, 49, 101}
  MaxNumber = 6
  Units = {0, 127, 128, 2047, 2048, 55295, 55296, 56319, 56320, 57343, 57344, 65535}
  Texts <- AllTexts
INVARIANTS
  ReaderInvariant
  NothingIsLost
  StringsAreExact
  NumbersFollowTheGrammar
PROPERTIES
  ImplementsContract
  ReopeningTerminates
CHECK_DEADLOCK FALSE
