--------------------------- MODULE MCRumbleStream ---------------------------
(* A small instance of RumbleStream for TLC.                                *)
EXTENDS RumbleStream
=============================================================================
