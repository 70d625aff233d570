--------------------------- MODULE MCSurfaceCore ---------------------------
(* SurfaceCore for TLC: the one widget type needs the numbered asset. *)
EXTENDS SurfaceCore

TileNeedsLib == [t \in Types |-> {"lib"}]

============================================================================
