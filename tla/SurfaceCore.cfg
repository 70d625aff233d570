\* Two names, one numbered and one not; the cap holds three units, so that two
\* uploads of up to three chunks of 1 or 2 meet it in every phase.
SPECIFICATION Spec
CONSTANTS
    Assets = {"lib", "css"}
    Types = {"tile"}
    Keys = {"w"}
    Needs <- TileNeedsLib
    Numbered = {"lib"}
    Capacity = 3
    Sizes = {0, 1, 2}
    MaxChunks = 3
    MaxUploads = 2
INVARIANTS
    TypeOK
    UsageIsExact
    CompleteIsWhole
