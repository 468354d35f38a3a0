\* Every service on an instance of its own; see MCServices.tla.
CONSTANTS
  MaxCalls = 2
  PageParts = 3
  MaxPolls = 2
  MaxTracks = 2
  MaxDrops = 1
  Keys = {"a", "b"}
  Requests <- MCRequests
  MaxReading = 2
  MaxRefusals = 1
  MaxStops = 2
  Staff <- MCStaff
  Hired = 2
  CatalogSize = 2
  Draws <- MCDraws
  MinShift = 45
  Stride = 47
  MaxShift = 360
  ResyncEvery = 2
  MaxOverlaps = 1
  MaxSaves = 1
  MaxBreaks = 1
  Wearers = {"a", "b"}
  PartCatalog <- MCCatalog
  SingleKinds = {"skin", "clothing"}
  MaxPalette = 1
  MaxHue = 360
  HueInputs <- MCHueInputs
  MaxEdits = 2
  MaxComposed = 1
  MaxConverted = 1
  MinPublish = 2
  MaxPublish = 4
  Fade = 3
  Top = 2
  MaxTime = 6
  DefaultLimit = 4
  MaxLimit = 10
  DefaultPage = 2
  MaxPage = 3
  PageSizes = {1, 2}
  FirstSize = 2
  Capacities = {2}
  MaxSeq = 5
  MaxSettings = 2
  Leaders <- MCLeaders
  Feedbacks <- MCFeedbacks
  Companies = {"c1", "c2"}
  NoLink = "none"
  MaxTurns = 2
  MaxAsked = 2
  Offices = {"c1", "c2"}
  Clerks = {"a"}
  StaleAfter = 1
  MaxClock = 1
  MaxChanges = 2
  MaxSwitches = 2
SPECIFICATION MCSpec
INVARIANTS ServicesTypeOK DefaultsDiffer CallsToldInOrder RosterCached DraftsValid ReaderComplete RawErrorsOnlyByTurns RepliesInContext OwnOffice
PROPERTIES ServicesSettle NoTraceOfRefused DraftsSaved ChoiceKept
CHECK_DEADLOCK FALSE
