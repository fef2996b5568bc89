--------------------------- MODULE MCMqttSession ----------------------------
(* Each property without the races it excludes, with all the others.        *)
EXTENDS MqttSession
MCRegimes == {{"StaleClock"}, {"EarlyConnect", "DropInTick"}, RaceNames}
=============================================================================
