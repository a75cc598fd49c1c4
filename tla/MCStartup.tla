------------------------------ MODULE MCStartup ------------------------------
(* The instance of Startup that TLC checks: a token, whose table comes      *)
(* before that of the code it is issued on, and a bootstrap link.           *)
EXTENDS Startup

CONSTANTS token, code, link

RowTable == [g \in {token, code, link} |->
               CASE g = token -> "access_tokens"
                 [] g = code -> "authorization_codes"
                 [] g = link -> "bootstrap_tokens"]
=============================================================================
