SPECIFICATION Spec
CONSTANTS
    None = None
    Orders = {o1, o2}
    AllChecked = FALSE
    Faults = {"cancel", "strange", "fetch", "expire", "no_id"}
INVARIANTS
    TypeOK
    EndsAreTrue
    LiveWasApproved
SYMMETRY Symmetry
PROPERTIES
    SuccessMeansInSync
    ImplementsLifecycle
    GapCloses
