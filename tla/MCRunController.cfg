CONSTANTS
  Cards = {c1, c2}
  NoCard = NoCard
  Unlimited = Unlimited
  TurnLimit = 2
  ToolLimit = 2
  StepGrant = 1
  ToolGrant = 2
  RoomBound = 2
  MaxBatch = 2
  CompactEvery = 2
SPECIFICATION FairSpec
INVARIANTS
  Accounts
  ModelNeverBlind
PROPERTIES
  OnlyCurrentPlansAct
  ImplementsHumanControl
  HumanIsAnswered
