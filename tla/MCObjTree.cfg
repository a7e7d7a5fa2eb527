CONSTANTS
    t1 = t1  t2 = t2
    Threads = {t1, t2}
    Owners = {1, 2}
    Binders = {0, 1}
    MaxObjs = 5
    Width = 8
SPECIFICATION Spec
SYMMETRY ThreadSymmetry
INVARIANT RegistryIsAMap
