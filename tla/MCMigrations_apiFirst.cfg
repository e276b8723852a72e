SPECIFICATION Spec
CONSTANTS
  Targets <- BaseAndHead
  Statuses <- OneOfEach
  None = None
PROPERTIES
  MigrationsApply
