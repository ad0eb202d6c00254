SPECIFICATION Spec
CONSTANTS
  Type <- MCType
  Menu <- MCMenu
  Choice = "REF"
  Members <- MCMembers
  Prompted <- MCPrompted
  Files <- MCFiles
  Saved <- MCSaved
  MaxSaves = 2
  MaxEdits = 2
  MaxCrashes = 1
  Typed <- MCTyped
  Names <- MCNames
  Bools <- MCBools
  No = 0
  Line <- conf_write_symbol
  Value <- conf_set_sym_val
  Macro <- header_print_symbol
  Objects = {"dut", "trace"}
  Includes <- MCIncludes
  Words <- MCWords
  autoconf_h = "autoconf.h"
  None = None
INVARIANTS
  ShownAsWritten
  ConfigRoundTrip
  BuildIsCurrent
CHECK_DEADLOCK FALSE
