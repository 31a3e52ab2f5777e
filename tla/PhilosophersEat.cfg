\* Three philosophers, of whom a fourth may come and go.
SPECIFICATION Spec
CONSTANTS
  MAX_PHILO = 4
  INITIAL_PHILO = 3
  Faults = {"nomem"}
CHECK_DEADLOCK FALSE
INVARIANTS NeighboursNeverEat
