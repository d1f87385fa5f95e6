CONSTANTS
  MaxFotogramas = 4
  Vacios = {2}
SPECIFICATION FairSpec
INVARIANTS
  TypeOK
  FrameIsWhole
  NoWakeLost
PROPERTIES
  ShowsThePublished
  PublishedIsShown
  LentIsReturned
CHECK_DEADLOCK FALSE
