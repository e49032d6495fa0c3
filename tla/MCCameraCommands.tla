-------------------------- MODULE MCCameraCommands --------------------------
(* Half degrees.  All four angle attributes together, since they share the *)
(* caches; the others, which share nothing, in twos and threes.            *)
EXTENDS CameraCommands

MCConsoles ==
    {{"want_azimut", "want_elevation", "azimut_change_rate", "elevation_change_rate"},
     {"zoom_change_rate", "focus_change_rate"},
     {"diaphragm_mode", "zoom_change_rate"},
     {"start_video_stream", "trx_scale"},
     {"show_aim", "show_telemetry", "start_video_stream"}}
MCFractions == {-1, 0, 3}
=============================================================================
