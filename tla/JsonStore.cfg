SPECIFICATION FairSpec
CONSTANTS
  Mutations = {m1, m2, m3, m4}
INVARIANTS
  FileIsLoadable
  OutcomeIsTrue
PROPERTIES
  ImplementsAtomicStore
  EveryCallSettles
