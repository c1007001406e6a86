SPECIFICATION Spec
CONSTANTS
  Windows = {w0, w1}
  Parent = w0
  Static <- MCStatic
  LispPages = {l1, l2}
  Missing = "missing"
  Root = "root"
  UnknownPage = "unknown"
  ErrorPage = "error"
  QuitAsk = "quit"
  NotConnectedPage = "notconnected"
  HelpPage = "help"
  NoMoreHelpPage = "nohelp"
  Worksheet = "sheet"
  Broken = {"broken"}
  Targets <- MCTargets
  LispLinksOn <- MCLispLinksOn
  GoBackOn = {"unknown", "error", "quit", "notconnected"}
  ExitOn = {"quit", "nohelp"}
  NoPage = NoPage
  Stale = Stale
  NoSock = NoSock
  MaxMemoDepth = 2
  MaxDownlinkDepth = 2
  Commands = {"x", "y", "z"}
  Needs <- MCNeeds
  Buffers = {b1, b2}
  MaxClicks = 5
  MaxCommands = 2
  Careful = TRUE
INVARIANTS
  PagesAlive
  CommandsInOrder
PROPERTIES
  Browses
CHECK_DEADLOCK FALSE
