SPECIFICATION FairSpec
CONSTANTS
  Thread = {t1, t2}
  Handle = {h1, h2, h3}
  Faulty = {h3}
  None = None
INVARIANTS
  ListIntegrity
  DeliveryInOrder
  ServiceFollowsList
PROPERTIES
  EveryConsumerServed
  AllUnsubscribed
  CallsReturn
