SPECIFICATION Spec
CONSTANTS
  Modules <- WorkerModules
  Deps <- WorkerDeps
  Entry = "ZonesWorker"
  MayFail <- WorkerModules
INVARIANT TypeOK
PROPERTIES
  ImplementsModuleLoading
  LoadingSettles
CHECK_DEADLOCK FALSE
