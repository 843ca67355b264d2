SPECIFICATION StoreSpec
CONSTANTS
  Capacity = 2
  Ks = {1, 2}
  DecayDays = {0}
  MaxAdds = 3
  MaxHits = 2
  MaxTime = 2
  MaxSaves = 3
PROPERTY
  DecaysByLastUse
