SPECIFICATION Spec
CONSTANTS
  CPUs = {0, 1, 2, 3}
  Setups = {s1, s2}
  Hosts <- MCHosts
  None = None
SYMMETRY Symmetry
INVARIANTS
  BackupCovers
  OutsideUntouched
  BalancerKept
  PrecheckFindsResidue
CHECK_DEADLOCK FALSE
