SPECIFICATION AppSpec
CONSTANTS
  MaxRuns = 3
  MaxLaunches = 3
  Service = {"srt"}
  Form = {"f1", "f2"}
  Secret = {"none", "key"}
  NoSecret = "none"
  GivenForm = "f1"
  GivenSecret = "key"
INVARIANTS OneRunAtATime
PROPERTIES RunEndIsSeen RestartKeepsConfig
CHECK_DEADLOCK FALSE
