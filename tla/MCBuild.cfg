\* One input with three texts and two options; a program that imports up to two
\* files, which may import it and each other; two modules, one runtime file, one library
\* source, two files of a bare-metal program.
SPECIFICATION MCSpec
CONSTANTS
  Inputs = {a}
  Texts = {v1, v2, bad}
  Broken = {bad}
  Options = {fast, small}
  Torn = Torn
  None = None
  LocalFiles <- FileNames
  Main = "main"
  Dirs <- DirNames
  DirOf <- DirOfFile
  Names <- ImportNames
  At <- FileAtName
  MaxImports = 1
  MaxMain = 2
  MaxStack = 6
  Modules = {"io", "base"}
  Deps <- ModuleDeps
  StdFiles = {"io.c", "base.c"}
  ModuleOf <- ModuleFiles
  RuntimeFiles = {"kmm.c"}
  LibFiles = {"lib.c"}
  Required = {"program.c"}
  Optional = {"allocator.c"}
  SourceTexts = {"old", "new"}
  CPUs = 2
INVARIANTS
  BuildsWhatItRead
  ImportsInOrder
  LinksWhatIsNeeded
CHECK_DEADLOCK FALSE
