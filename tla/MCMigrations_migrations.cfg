SPECIFICATION Spec
CONSTANTS
  Targets <- AnyRevision
  Statuses <- OneOfEach
  None = None
INVARIANTS
  MigrationsTypeOK
  SchemaIsVersions
PROPERTIES
  StatusesSurvive
  RefusedForRows
