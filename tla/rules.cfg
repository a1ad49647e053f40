SPECIFICATION Spec
CONSTANTS
    LocalNames = {2}
    MaxTotal = 1500
    MaxPieces = 3
INVARIANTS
    BudgetIsKept
    OrderDoesNotMatter
    ManifestIsTrue
    SecretsAreWithheld
    RoutedAsPermitted
    PluginsAreLoaded
    AccessIsLimited
    GatesAgree
    RolesAreKept
    RefusalsChangeNothing
CHECK_DEADLOCK FALSE
