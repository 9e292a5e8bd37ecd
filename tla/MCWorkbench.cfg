SPECIFICATION BenchSpec
CONSTANTS
  Ids <- NodeIds
  Kind <- NodeKind
  Parent <- NodeParent
  Loads = {1, 2}
  MaxChanges = 1
  MaxLoads = 4
  Windows = {w1, w2}
  Repos = {A, B}
  Branches = {b1, b2}
  Changes = {c1}
  MaxStashes = 2
  MaxOps = 3
  Files = {f1}
  NoFile = NoFile
  MaxContents = 2
  MaxEdits = 1
  MaxCommits = 3
  MaxAsked = 2
  Slots = {1, 2}
  Tabs = {t1, t2, t3, t4}
  Groups = {g1, g2, g3, g4}
  NoTab = NoTab
  NoGroup = NoGroup
  maxSplitPanes = 3
  MaxArranged = 2
  MaxOpened = 2
  MaxConnects = 2
SYMMETRY Alike
CONSTRAINT UntilLapse
INVARIANTS
  BenchTypeOK
  TreeIsWhole
  OpenNodeShowsSomething
  NothingIsLost
  ChangesComeBack
  LinesAreOfTheDiffShown
  ChoiceIsKept
  QuietPageIsTrue
  EveryTabHasItsPane
  ActiveTabIsShown
  ArrangementIsKept
  TabShowsArrangement
  EverySessionIsOwned
  QuietTabShowsItsSession
PROPERTIES
  ListsGetNewer
  LinesTakenAsPicked
CHECK_DEADLOCK FALSE
