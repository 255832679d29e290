SPECIFICATION Spec
CONSTANTS
  Ctxs = {c1, c2}
  GLPlugin = pt
  GLBrowser = bt
  Shaders = {sh1}
  GLSources = {a}
  Mems = {m1}
  Unshared = FALSE
  LeavesCurrent = FALSE
  Candidates <- MCCandidates
  MaxTasks = 2
  CarefulBrowser = TRUE
  ProbesFirst = TRUE
  LeavesWork = FALSE
  Texts = {t1, t2}
  Buffers = {b1}
  Names = {n1}
  Registrars = {r1, r2}
  HtmlFirst = TRUE
  MaxItems = 2
  Menus = {m1}
  ShowCalls = {k1, k2}
  ItemIds = {x1}
  CursorIds = {q1}
  MaxUITasks = 2
  OneMenu = TRUE
  Processes = {pr1}
  Salts = {sa, sb}
  Refs = {rf1}
  Fds = {3, 4, 5}
  FileDialogs = {d1}
  MaxSize = 1
  MaxBodyItems = 2
  MaxVersion = 2
  PlainUploads = TRUE
  OpensOnce = TRUE
  MaxPath = 3
  MaxResolved = 6
INVARIANTS
  GLCallsAreIsolated
  ModuleIsUsable
  ServicesAreSound
PROPERTIES
  ServiceCallsReturn
CHECK_DEADLOCK FALSE
