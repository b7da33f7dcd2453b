CONSTANTS
  Files = {1, 2}
  Contents <- MCContents
  Gone = Gone
  ParseOf <- MCParseOf
  Parseable <- MCParseable
  TooLarge = {huge}
  Blank = Blank
  Blocked = {pii}
  plain = plain
  secret = secret
  huge = huge
  hello = hello
  bye = bye
  pii = pii
  MaxEdits = 2
  MaxBuilds = 2
SPECIFICATION Spec
INVARIANTS
  CacheNeverChangesOutput
CHECK_DEADLOCK FALSE
