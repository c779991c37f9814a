SPECIFICATION EvolutionSpec
CONSTANTS
  None = None
  Declared = {"asset.id", "asset.name"}
  Required = {"asset.id"}
  Keys <- MCKeys
  Docs <- MCDocs
  FileIndex <- MCFileIndex
  Packs <- MCPacks
  ProfileRefs <- MCProfileRefs
  Dimensions <- MCDimensions
  Ids <- MCIds
  Values <- MCValues
  ProfileDocs <- MCProfileDocs
  MaxHistory = 2

INVARIANT ReviewedPathsCompatible
INVARIANT RefsResolve
INVARIANT CompositeCautious
PROPERTY FreezeCannotLaunder
