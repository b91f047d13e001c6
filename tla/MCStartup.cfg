SPECIFICATION MCSpec
CONSTANTS
  p1 = p1  p2 = p2  sync = sync  manual = manual
  n1 = n1  n2 = n2  f = f  g = g  home = home
  Name = {n1, n2}
  DefaultName = n1
  Path = {f, g, home}
  DefaultPath = home
  Unset = Unset
  Process <- MCProcess
  Hook <- MCHook
  Interval <- MCInterval
  MaxTime = 2
  MaxFaults = 2
INVARIANTS TypeOK SettingsSurvive NeverHalfConfigured IndexesAreApart
  HooksKeepTime
CHECK_DEADLOCK FALSE
