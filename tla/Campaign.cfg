\* The workflow of the README, any two commands, and the priority experiments after
\* a driver that ran or was refused; a guest may stop late.
SPECIFICATION FairSpec
CONSTANTS
  Guests = {1, 2}
  Sessions <- MCSessions
  MaxLate = 1
INVARIANTS
  OwnReadings
  ConditionsAsLabelled
PROPERTIES
  AllMeasured
