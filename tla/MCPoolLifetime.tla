--------------------------- MODULE MCPoolLifetime ---------------------------
(* Instance of PoolLifetime for TLC.                                        *)
EXTENDS PoolLifetime
=============================================================================
