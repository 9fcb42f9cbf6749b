----------------------------- MODULE MCTeamFeed -----------------------------
(* The founder of a team and one member.                                   *)
EXTENDS TeamFeed
CONSTANTS founder, player
=============================================================================
