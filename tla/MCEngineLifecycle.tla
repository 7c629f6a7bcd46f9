------------------------- MODULE MCEngineLifecycle -------------------------
(* Setups of EngineLifecycle for TLC.                                      *)
EXTENDS EngineLifecycle

\* Every worker class with every ingest mode.
AllSetups == Kinds \X Modes
=============================================================================
