SPECIFICATION Spec
CONSTANTS
    CallsAreDirect = TRUE
    MaxVersion = 2
    MaxBatch = 2
    MaxChanged = 2
    PackageId = "stardust"
    Unborn = Unborn
    Gone = Gone
    s = s
    t = t
    o = o
    u = u
    Static <- MCStatic
    Package <- MCPackage
INVARIANT OnlyConfiguredPackage
CHECK_DEADLOCK FALSE
