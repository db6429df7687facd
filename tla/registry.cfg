SPECIFICATION FairSpec
CONSTANTS
  NONE = NONE
  w1 = w1
  w2 = w2
  r1 = r1
  r2 = r2
  Workers = {w1, w2}
  Readers = {r1, r2}
INVARIANT ListingIsHonest
PROPERTY KeepsComingBack
PROPERTY GhostsGoAway
