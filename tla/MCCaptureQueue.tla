--------------------------- MODULE MCCaptureQueue ---------------------------
(* Instances of CaptureQueue: which pairs, items and workers, and whether   *)
(* the daily scheduler is heard before the queue is ready.                  *)
EXTENDS CaptureQueue
=============================================================================
