\* Two keys, a type that mounts and one that is refused or fails to mount, two frames,
\* one message after the initial props: frames replaced while loading and while
\* answering, and a frame left on show under a type that was not mounted.
SPECIFICATION HostFairSpec
CONSTANTS
    Assets = {}
    Types = {"tile", "ext"}
    Keys = {"w", "p"}
    Needs <- NoAssetsNeeded
    Numbered = {}
    Capacity = 0
    Sizes = {}
    MaxChunks = 1
    MaxUploads = 0
    External = {"ext"}
    Fragile = {"ext"}
    MaxMounts = 2
    MaxFed = 2
INVARIANTS
    HostTypeOK
    FedInOrder
    VerdictIsEarned
PROPERTIES
    TestIsAnswered
