SPECIFICATION Spec
CONSTANTS
  CommandLines <- MCCommandLines
  Modes <- MCModes
  Names <- MCNames
  ArgFiles <- MCArgFiles
  ArgsOf <- MCArgsOf
  Unreadable <- MCUnreadable
  MXFILNAMES = 4
  MaxOpen = 2
  Absent <- MCAbsent
  Wild <- MCWild
  Unmappable <- MCUnmappable
  Looks <- MCLooks
  MaxNames = 2
  MaxArgs = 3
INVARIANT VosTriedFirst
CHECK_DEADLOCK FALSE
