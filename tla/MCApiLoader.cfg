SPECIFICATION FairSpec
CONSTANTS
  Thread = {t1, t2}
  NoThread = NoThread
INVARIANTS TypeOK OneAnswer FoundIfPresent
PROPERTIES CallsReturn RefinesLazyCell
