--------------------------- MODULE MCDeviceWorker ---------------------------
(* More callers than places in the channel, and batches smaller than both. *)
EXTENDS DeviceWorker
=============================================================================
