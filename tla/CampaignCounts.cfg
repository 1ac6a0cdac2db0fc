\* The counts that figure_six_b.sh reads.
SPECIFICATION Spec
CONSTANTS
  Guests = {1, 2}
  Sessions <- MCPerf
  MaxLate = 0
INVARIANT CountsForFigure
