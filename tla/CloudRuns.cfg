SPECIFICATION Spec
CONSTANTS
  Endorsements = {"dd", "core", "add-edit", "entity-event", "rcf"}
  MaxFlags = 0
  MaxEntries = 2
  MaxEdits = 1
  CommandLines <- MCCommandLines
  FileEntries <- MCFileEntries
INVARIANTS
  WhatStartsIsWhatPassed
  EarlyAndLateAgree
  ExitCodeIsTrue
  RefusalMeansNothingStarted
