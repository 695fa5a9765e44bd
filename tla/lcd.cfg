\* The whole of lcd_init on a panel of six short lines, from any levels of
\* the pins.  It returns.
SPECIFICATION FairSpec
CONSTANTS
  Lines = 6
  Half = 3
INVARIANTS LcdInv
PROPERTIES HoldsStill ComInverts Painted
CHECK_DEADLOCK FALSE
