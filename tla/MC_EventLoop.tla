---------------------------- MODULE MC_EventLoop ----------------------------
(***************************************************************************)
(* Instances of EventLoop for TLC.  The state space is finite as it        *)
(* stands: the queue is bounded by its depth and nothing counts.           *)
(***************************************************************************)
EXTENDS EventLoop

AllStimuli == {"VIBRATION", "BLE_RX", "OTA_ARM"}
VibrationOnly == {"VIBRATION"}

AllCommands == {"play", "sinetest", "save", "ota"}
SaveOnly == {"save"}
=============================================================================
