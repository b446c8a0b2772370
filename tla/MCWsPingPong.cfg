SPECIFICATION FairPingSpec
CONSTANT MaxPongs = 3
INVARIANTS
  ResponsiveClientLives
PROPERTY OnlyTheRaceSpares
