CONSTANTS
    Identities = {1, 2, 3, 4, 5}
    PageSize = 2
    Catalogues <- MCCatalogues
    None = None
SPECIFICATION Spec
INVARIANTS
    ListingsAreComplete
