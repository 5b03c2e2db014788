\* Two callers, with three nodes besides the root or one, and two file systems to mount.
SPECIFICATION FilesSpec
CONSTANTS
  Caller = {c1, c2}
  Ops = {"open_file", "create_file", "create_dir", "delete", "file_type", "open_dir"}
  Paths <- MCPaths
  Buffers <- MCBuffers
  ReadSizes = {1, 3}
  MaxNodes = 4
  MaxData = 3
  FileSystems = {f1, f2}
  MountPaths <- MCMountPaths
  MountedFiles <- MCMountedFiles
  RootPaths <- MCRootPaths
  RootFiles <- MCRootFiles
  WalkPaths <- MCWalkPaths
  Letters = {"a", "b"}
  Bytes = {1, 2}
INVARIANTS
  LookupsAgree
  PanicsOnlyAtRoot
  MountsDistinct
  ViewsAgree
PROPERTIES
  ImplementsTree
  AnswersStable
SYMMETRY Callers
CHECK_DEADLOCK FALSE
