SPECIFICATION Spec
CHECK_DEADLOCK FALSE
CONSTANTS
  DropTag = "d"
  CardTag = "c"
  ToolTag = "t"
  Payloads <- MCPayloads
  Messages <- MCMessages
  Private = {"thought"}
INVARIANTS
  ChunksDoNotMatter
  WritersAgree
  ThinkingStaysApart
