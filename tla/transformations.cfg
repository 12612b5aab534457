SPECIFICATION TSpec
CONSTANTS
  telegram = telegram  discord = discord  main = main  alt = alt
  Ping = Ping  ping = ping  pong = pong  photo = photo  video = video
  Blank = Blank  NoRoute = NoRoute
  Normalized <- Spellings
  Modules <- NamedModules
  Events <- AllEvents
  TelegramUpdates <- PlatformUpdates  DiscordUpdates <- Gateway
  Files <- SomeFiles  AgentFiles <- SomeAgentFiles
  CommandSpecs <- SomeSpecs  Invocations <- SomeInvocations  Said <- SomeSaid
  LastEdits <- SomeEdits  Failures <- SomeFailures
  Capitals <- CapitalNames  Lowercase <- LowerNames  Padded <- PaddedKeys
  Numbers <- NumberTexts  MaxBudget = 100
INVARIANTS NamedIsCovered HandlersStayOnRoute UpdatesDecode ConfigHolds CommandsHold RequestsHold RetriesHold
CHECK_DEADLOCK FALSE
