----------------------------- MODULE MCDelivery -----------------------------
(* Two Weather Underground stations with hosts of their own and the other   *)
(* services between them; an unknown service; MQTT listed twice.            *)
EXTENDS Delivery

CONSTANTS h1, h2

On(name, h)  == [service |-> name, host |-> h, enabled |-> TRUE]
Off(name, h) == [service |-> name, host |-> h, enabled |-> FALSE]

Files ==
    {<<On("WeatherUnderground", h1), On("WeatherUnderground", h2)>>,
     <<On("MQTT", h1), On("mysql", h1)>>,
     <<On("logfile", h1), On("WeatherUnderground", h2)>>,
     <<Off("MQTT", h2), On("Display", h1), On("WeatherFlow", h1)>>,
     <<On("MQTT", h1), On("MQTT", h2)>>}
=============================================================================
