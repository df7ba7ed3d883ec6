CONSTANTS
  Conns = {c1, c2}
  Ticks = {t1, t2}
  Buttons = {button}
  Ceiling = 2
  MaxFaults = 2
  MaxPresses = 1
SPECIFICATION FairSpec
INVARIANTS TypeOK OneOwner RetryIsNeverLost SaysWhatItHolds
PROPERTIES LateCloseTakesNothing HealNeverRestarts EveryClaimEnds LostLinkIsHealedOrGivenUp OutageEnds
