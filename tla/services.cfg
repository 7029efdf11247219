SPECIFICATION ServicesSpec
CONSTANTS
  Parts = {"watcher", "pool", "corpus", "projects", "history", "embed",
           "chat", "keyring", "search", "slicing", "http"}
  p1 = p1
  p2 = p2
  a = a
  b = b
  k1 = k1
  k2 = k2
  c1 = c1
  c2 = c2
  c3 = c3
  f1 = f1
  g1 = g1
  m1 = m1
  m2 = m2
  i1 = i1
  i2 = i2
  s1 = s1
  s2 = s2
  a1 = a1
  a2 = a2
  x1 = x1
  x2 = x2
  x3 = x3
  y1 = y1
  y2 = y2
  l1 = l1
  l2 = l2
  q1 = q1
  q2 = q2
  \* Watcher
  Paths = {p1, p2}
  Contents = {a, b}
  Oversized = {b}
  Absent = Absent
  Nobody = Nobody
  MaxChanges = 2
  \* ConnectionPool
  Conns = {k1, k2}
  Calls = {c1, c2, c3}
  NoConn = NoConn
  \* ResearchCorpus
  MaxRuns = 3
  Files = {f1}
  Texts = {a}
  Gone = Gone
  MaxContext = 1
  PageLimit = 1
  \* Projects
  ProjectGuids = {g1}
  Slugs = {m1, m2}
  \* History
  Indexers = {i1, i2}
  MaxCommits = 3
  Skipped = {2}
  MaxAge = 0
  MaxWalk = 1
  MaxDay = 2
  MaxMoves = 1
  \* EmbedCall
  Budget = 7
  BackoffBase = 1
  MaxRetries = 4
  \* ChatTurn
  Guards = {0, 2}
  TurnTimeout = 4
  MaxParseRetries = 2
  \* Keyring
  Servers = {s1, s2}
  Adders = {a1, a2}
  NoFile = NoFile
  \* Search
  Chunks = {x1, x2, x3}
  SourceFiles = {y1, y2}
  Unborn = Unborn
  Scores = {1, 2}
  Unscorable = Unscorable
  Selectors = {{y1}}
  TopKs = {2}
  \* Slicing
  MinTokens = 3
  MaxTokens = 8
  GapMinTokens = 3
  BlockSizes = {3, 10}
  Levels = {0, 2, 3}
  MaxBlocks = 4
  NodeSizes = {3, 4, 10}
  MaxNodes = 3
  \* HttpServer
  Links = {l1, l2}
  Requests = {q1, q2}
INVARIANTS
  DebounceForgetsNothing
  ConnectionsAccounted
  OneStandingVerdict
  ContextIsEarlier
  PagesShowEveryRun
  DeleteLeavesNothing
  StaleReportIsRight
  EmbedBounded
  TurnBounded
  OneDefaultSecret
  SearchIsHonest
  PackingIsBest
  ChunksPartitionTheText
  Reconciled
PROPERTIES
  TreeGetsIndexed
  ConnectionsComeBack
  HistoryCatchesUp
  DeparturesAreNoticed
CHECK_DEADLOCK FALSE
