------------------------------- MODULE MCBoot -------------------------------
(* Small device configurations for Boot. *)
EXTENDS Boot, SequencesExt

TwoTUs == {"camera_main", "camera_api"}

\* With SD card and camera: the order of the source files, and its reverse.
CameraOrder == <<"FS", "IotSD", "api", "camera_main", "MqttClient", "WiFiConfig",
                 "WiFiManager", "CameraController", "camera_api", "api">>
CameraOrders == {CameraOrder, Reverse(CameraOrder)}
=============================================================================
