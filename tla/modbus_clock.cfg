\* A request made of dates that exist, and of values out of range.
SPECIFICATION Spec
CONSTANTS
  Legal = Legal
  Illegal = Illegal
  Starts <- StartsDef
  Requests <- RequestsDef
  Doomsday <- DoomsdayDef

INVARIANT ClockAsWritten
