SPECIFICATION ConsoleSpec
CONSTANTS
  CHARS = {"b", "t"}
  BOOT <- MCBoot
  ROOM = 3
  TEXTS = {"hello", "world"}
  MaxTyped = 5
INVARIANTS ConsoleInv
PROPERTIES CommandIsMeant
