-------------------------- MODULE MCPostprocessing --------------------------
(***************************************************************************)
(* Two runs, each with one bag in `rosbag2', and a bag of another name     *)
(* next to the first (bag_dir of rosbags_rosout_to_csv), which shares its  *)
(* cache file; the second run is of an older campaign.                     *)
(***************************************************************************)
EXTENDS Postprocessing

MCBags == {"b1", "b2", "r1"}
MCDir == [b \in MCBags |-> IF b = "b2" THEN "run2" ELSE "run1"]
MCBagDir == [b \in MCBags |-> IF b = "r1" THEN "rosout" ELSE "rosbag2"]
MCNewest == {"b1", "r1"}
MCGrowing == {"b1"}
MCHandlers == {"csv", "webm", "rosout"}
MCBagDirOf == [h \in MCHandlers |-> IF h = "rosout" THEN "rosout" ELSE "rosbag2"]
MCLossy == {"rosout"}
MCSkips == {{}, {"webm"}}
MCCommands == <<"csv", "command", "webm">>
=============================================================================
