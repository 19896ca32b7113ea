--------------------------- MODULE MCWiFiManager ---------------------------
(* Model values of WiFiManager for TLC. *)
EXTENDS WiFiManager

NoSsid == ""
\* Up to three networks; no network at all; an entry without an SSID.
Lists == {<< >>, <<"home">>, <<"home", "work">>, <<"home", "work", "phone">>,
          <<"home", NoSsid, "phone">>}
OneNetwork == {<<"home">>}
=============================================================================
