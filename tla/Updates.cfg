CONSTANTS
  Names = {"a", "b"}
  Workspaces = {"v", "w"}
  Catalogs = {"c"}
  Managers = {"npm", "pnpm"}
  Releases <- MCReleases
  Contained = {"f", "g", "k"}
  Setups <- MCSetups
  Rounds = 3
SPECIFICATION Spec
INVARIANTS PolicyAsDocumented SelectionIsBest Settled HandOverIsTrue
PROPERTIES OnlySelectedMoves
CHECK_DEADLOCK FALSE
