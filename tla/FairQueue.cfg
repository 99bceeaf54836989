SPECIFICATION FairSpec
CONSTANTS
  Accounts = {a1, a2, a3}
  MaxInFlight = 2
INVARIANTS
  NobodyMonopolizes
PROPERTIES
  ImplementsSlots
  BackgroundStarts
