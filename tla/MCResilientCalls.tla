---------------------------- MODULE MCResilientCalls ----------------------------
(* Two agents share four profiles: three of one provider, of which the host's  *)
(* own was configured without it, and one of another.                          *)
EXTENDS ResilientCalls

MCHome == <<"openai", "openai", "openai", "anthropic">>
=============================================================================
