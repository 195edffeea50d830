\* Two clients and one topic.
CONSTANTS
  Clients <- TwoClients
  NoClient = NoClient
  Topics = {"news"}
  MaxCalls <- Requested
SPECIFICATION FairSpec
INVARIANTS
  TypeOK
  SubscribersAreUpToDate
  SubscribersMissNothing
  AudiencesAreAsWanted
PROPERTIES
  EverythingIsRead
\* Clients need not connect or ask for anything; processes may die.
CHECK_DEADLOCK FALSE
