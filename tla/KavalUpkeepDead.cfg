CONSTANTS
  Conns = {c1, c2}
  Ticks = {t1}
  Buttons = {button}
  Ceiling = 2
  MaxFaults = 2
  MaxPresses = 0
SPECIFICATION FairSpec
PROPERTY FailedHealIsRetried
