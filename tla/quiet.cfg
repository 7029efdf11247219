\* Two files, two requests, cancelled streams; nobody cancels or deletes files.
SPECIFICATION Spec
CONSTANTS
  f1 = f1
  f2 = f2
  v1 = v1
  v2 = v2
  r1 = r1
  r2 = r2
  m1 = m1
  m2 = m2
  t1 = t1
  k1 = k1
  None = None
  Files = {f1, f2}
  Versions = {v1}
  Requests = {r1, r2}
  Models = {m1}
  Tokenizers = {t1}
  TokenizerOf <- OneTokenizer
  Pieces <- UnevenPieces
  Markdown = {}
  MaxRetries = 1
  Faults = {"embed", "stream_cancel"}
  Modes = {"full"}
  Commands = {}
  CommandKinds = {}
INVARIANTS
  VectorsTracked
  IndexedIsComplete
PROPERTIES
  StoppedStaysStopped
SYMMETRY Symmetry
