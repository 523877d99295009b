------------------------- MODULE MCBedrockBindings -------------------------
(* BedrockBindings on a small instance.                                    *)
EXTENDS BedrockBindings
=============================================================================
