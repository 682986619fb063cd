\* By hand: a directory left behind by an interrupt in its removal, or by a failed one.
CONSTANTS
  Places <- ThePlaces
  Denied <- TheDenied
  Awkward <- TheAwkward
  Inside <- TheInside
  Beyond <- TheBeyond
  Spelled <- TheSpelled
  NoLocator <- TheAbsent
  Nowhere = "nowhere"
  MaxLocators = 1
  Payloads <- ThePayloads
  MaxObjects = 2
  Contracts = {"ephemeris", "atlas", "github"}
  Retained <- TheRetained
  MaxEdits = 1
  Answers <- TheAnswers
  Silence <- TheSilence
  AttemptCap = 2
  MaxInterrupts = 2
SPECIFICATION Spec
INVARIANT DirectoryDeleted
CHECK_DEADLOCK FALSE
