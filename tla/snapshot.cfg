\* Two builds of one template that may overlap, a rebuild of its rootfs, a kill.
SPECIFICATION FairSpec
CONSTANTS
    Builders = {b1, b2}
    Versions = {v1, v2, partial}
    Partial = partial
    None = None
    MaxChanges = 1
    MaxDeaths = 1
INVARIANTS
    ManifestSound
    OrphanOnlyByDeath
PROPERTIES
    BuildEnds
CHECK_DEADLOCK FALSE
