--------------------------- MODULE MCSurfaceHost ---------------------------
(* SurfaceHost for TLC: no type needs an asset. *)
EXTENDS SurfaceHost

NoAssetsNeeded == [t \in Types |-> {}]

============================================================================
