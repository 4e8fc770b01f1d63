\* The default modules; a handler may raise.
CONSTANTS
  Enabled <- DefaultModules
  None = None
SPECIFICATION Spec
INVARIANTS OperationSurvivesHandlers
