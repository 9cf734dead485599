SPECIFICATION Spec
CONSTANTS
    t1 = t1
    t2 = t2
    managed = managed
    passive = passive
    NoPlugin = NoPlugin
    Threads <- MCThreads
    Plugins <- MCPlugins
    Managed <- MCManaged
    Capacity = 2
    LeasesPerPlugin = 2
    GenerationModulus = 16
    MaxLoads = 3
    MaxAcquires = 3
SYMMETRY ThreadSymmetry
INVARIANTS TypeOK StaleTokensRejected CallbacksExclusive AdmissionSound DestructionSafe
PROPERTIES ImplementsLeases
