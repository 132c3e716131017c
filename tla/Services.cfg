SPECIFICATION ServicesSpec
CONSTANTS
  Streams <- Mixed
  Early = 3
  Faults <- EndAndIdle
  MaxLen = 3
  MaxPrinted = 2
  LineLimit = 1
  ValueLimit = 2
  Pipe = 1
  MaxTokens = 3
  MaxAttempts = 2
  Projects = {1, 2}
  MaxJobs = 2
  Packages = {1}
  Updaters = {1, 2}
  MaxVersion = 2
  MaxDay = 2
  Turns = {1, 2}
  Convs = {1, 2, 3}
  Ongoing = 1
  MaxRedirects = 1
  MaxTags = 4
  MaxTexts = 2
  MaxQuestions = 3
  MaxTries = 3
  Routers <- MCRouters
  Networks <- MCNetworks
  MaxTurns = 2
  MaxEdits = 1
  MaxDeaths = 1
  Openers = {"one", "two"}
  Rows = {1, 2}
  MaxKills = 1
  MaxRecords = 3
  MaxClears = 1
  Places = {"repo", "top"}
  Tops = {"top"}
  Repos = {"repo"}
  Talks = {1, 2}
  MaxBlocks = 2
  Skills = {"skill"}
  Prompts = {"prompt"}
  Customs = {}
  Recipes = {"recipe"}
  MaxEdition = 2
INVARIANTS
  ServicesTypeOK
  FramesIntact
  
  
  
  
  
  
  RecordsHold

  
  
CHECK_DEADLOCK FALSE
