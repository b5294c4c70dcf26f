------------------------------- MODULE MCApi -------------------------------
(* Instances of Api for TLC.                                               *)
EXTENDS Api

AllRoutes == {"generate", "generate_stream", "openai", "openai_stream"}
Letters == {"a", "b", "<eos>"}
\* No stop string, one of one character, one that spans two tokens.
SomeStops == {{}, {<<"b">>}, {<<"a", "b">>, <<"b">>}}
=============================================================================
