SPECIFICATION Spec
CONSTANTS
  Core = core
  Hub = hub
  Containers = {full, partial}
  Ids = {i1, i2, i3}
  None = None
  MaxMoves = 3
INVARIANT TypeOK
INVARIANT OneArtifact
PROPERTY PipelineEnds
CHECK_DEADLOCK FALSE
