-------------------------------- MODULE MCSession --------------------------------
(* Two usernames, one of them longer than the server allows, and as many USER_IDs   *)
(* as sessions.                                                                     *)
EXTENDS Session
================================================================================
