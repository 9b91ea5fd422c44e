------------------------------ MODULE MCProcess ------------------------------
(***************************************************************************)
(* A small instance of Process: the settings its control depends on vary,  *)
(* and one file that does not parse and two bad intervals are among them.  *)
(***************************************************************************)
EXTENDS Process, TLC

CONSTANTS n1, n2, q1, q2

Nothing == [s \in Setting |-> Unsaid]

Layers(file, env, flags) == [file |-> file, env |-> env, flags |-> flags]

MCInput ==
  {Layers(Nothing, Nothing, Nothing),
   Layers(GenerateDefault, Nothing, Nothing),
   Layers(Only("api.token", "usable"), Only("api.ws.enabled", "on"), Only("api.ws.enabled", "malformed")),
   Layers(Only("api.enabled", "off"), Only("discovery.interval", "zero"), Nothing),
   Layers(Only("api.port", "malformed"), Nothing, Nothing),
   Layers(Only("monitor.interval", "negative"), Nothing, Nothing)}
=============================================================================
