\* Two tasks use the file system, the managers may be late.
CONSTANTS
  Tasks = {valgo, shell}
  Managers = {valgo, output}
  QueueLength = 2
  Prompt = FALSE
  Nobody = Nobody
SPECIFICATION FairSpec
INVARIANTS TypeOK UsageCounts ToldOnce
PROPERTIES DecidesWhenIdle FallsAsleep
