CONSTANTS
  Dirs = {"app", "own"}
  Default = "app"
  Names = {"a.yml", "b.yaml"}
  Listed = {"a.yml", "b.yaml"}
  Builtins = {"cat"}
  OwnIds = {}
  Sections = {"off", "on"}
  Off = "off"
  Ops = {o1, o2}
  Broken = Broken
  NoFile = NoFile
  None = None
  Garbage = Garbage
  Disks <- MCDisks
  MaxActs = 3
  MaxMoves = 2
SPECIFICATION Spec
SYMMETRY Symmetry
INVARIANT CatalogCurrent
INVARIANT HuntRunsTheFiles
INVARIANT SectionsKept
CHECK_DEADLOCK FALSE
