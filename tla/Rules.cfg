SPECIFICATION RulesSpec
CONSTANTS
  Seconds = {2, 3}
  Unusable = unusable
  DefaultMs = 2
  Unit = 2
  SelfDenyMs = 3
  MIN_MARGIN_MS = 2
  MaxBootMs = 1
  Faults = {"unusable", "edit"}
  MaxEdits = 1
  Frames <- MixedFrames
  MaxFrames = 3
  Radix = 2
  Small = 2
  Medium = 4
  MaxMessage = 8
  Refused <- BadMessages
  Texts <- ShortTexts
  MaxTexts = 1
  Payloads <- FullPayloads
CHECK_DEADLOCK FALSE
INVARIANTS GuardedIfChecked Reassembled PeerReads RightSize ScannerReads
