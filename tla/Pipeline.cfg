CONSTANTS
  MaxLines = 2
  MaxFd = 4
  Cap = 1
SPECIFICATION StagesSpec
CHECK_DEADLOCK FALSE
INVARIANTS EndsOfStage TableOfStage ForegroundOfStage RedirectionsOfStage
PROPERTIES EofOfStage SigpipeOfStage PromptOfStage
