\* The slot rule on every key of up to four characters over a, {, }; the
\* routing of every command of up to three key arguments.
CONSTANTS
  Chars = {"a", "b", "{", "}"}
  Crc16 <- MCCrc16
  DBNum = 16385
  SlotKeys <- MCSlotKeys
  ArgKeys <- MCArgKeys
  MaxArgs = 3
SPECIFICATION Spec
INVARIANTS TypeOK HashTagRule RouteAsSpecified
