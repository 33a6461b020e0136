SPECIFICATION ServicesSpec
CONSTANTS
  None = None
  Urls = {u1, u2}
  Push = Push
  NoUrl = NoUrl
  Calls = {k1, k2}
  MaxCameras = 2
  MaxRows = 2
  Keys = {a1, a2, a3}
  Clients = {e1, e2}
  KeyCalls = {k1, k2}
  ProfileIds = {p1, p2, p3}
  Users = {c1}
  ProfileCalls = {k1, k2}
  MaxProbeFaults = 2
  Tagged = {c1, c2}
  Tags = {t1, t2}
  Editors = {k1, k2}
  Readers = {r1}
  TagMax = 1
  MaxEdits = 2
  MaxOutages = 1
  Sessions = {s1, s2}
  Players = {p1, p2, p3}
  Limits = {1, 2}
  MaxChanges = 1
  MaxRestarts = 1
  Scalars = {n1, n2, n3}
  SystemScalar = n1
  Domains = {d1}
  People = {u1, u2, u3}
  Removals = {k1, k2}
  ApiKeys = {a1, a2}
  LastDay = 3
  MaxRequests = 2
  MaxAborts = 2
  Schedules = {s1, s2}
  WeekLength = 2
  DayLength = 2
  MaxPlanEdits = 1
  Clips = {r1, r2}
  FileNames = {f1, f2}
  ClipSize = 1
  Downloads = {j1}
  Transfers = {t1, t2}
  MaxProcessDeaths = 1
  Cameras = {c3}
  Recs = {r3, r4}
  Segments = {g1, g2, g3}
  Callers = {k3, k4}
  Hooks = {h1, h2}
  Limit = 1
  Movers = {k1, k2}
  StreamWorker = k1
  LastInstant = 5
  FastExit = 2
  CrashWindow = 3
  CrashLoop = 1
  Owners = {u1, u2}
  Alarms = {k1, k2}
  LastTime = 2
  Hour = 1
  Watchers = {w1, w2, w3}
  Tails = {t1, t2, t3}
  MaxDials = 4
  Notices = {1, 2, 3}
  PageSize = 1
  Clicks = {k1, k2}
  MaxBreaks = 1
  FileUrls = {u1}
  ByPush = Push
  MaxFileRows = 2
  Sites = {s1, s2}
  FirstSite = s1
  Imports = {i1, i2}
  MaxLoads = 2
  MaxSessions = 1
  PageCameras = {c1}
  Fetches = {f1, f2}
  MaxTurns = 3
  MaxDrops = 1
  Root = Root
  Nodes = {s1, s2}
  CamSites = {s1, s2}
  Names = {n1, n2}
  Asks = {q1, q2}
  Acts = {k1}
  MaxDoings = 3
INVARIANTS
  ServicesTypeOK InventorySound  OneDefaultUnlessBlurred
  PendingHasProbe TagsSound ViewersCounted ScalarsInherited
   AgreedDaysFollow DownloadsWhole QuotaNearlyKept
  FlagTellsUnlessCrossed DegradedTold LogTailServes  ImportDialogSound RowsTellStatus PanelTellsNode
PROPERTIES
  UsedDeletedOnlyWhenLate AdmittedWithinLimit LastAdminRemovedOnlyWhenStale AlertsSpaced
CHECK_DEADLOCK FALSE
