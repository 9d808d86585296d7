SPECIFICATION Spec
CONSTANTS
  Feeds <- SomeFeeds
  Requests <- Orders
  MaxPosted = 3
INVARIANTS
  OwnAnswer
  AnsweredOnce
  OneFateUnknown
  OneOrderPerUpdate
PROPERTIES
  AllTaken
CHECK_DEADLOCK FALSE
