---------------------------- MODULE MCTeamBroker ----------------------------
(* The threads of a small team, for TLC. *)
EXTENDS TeamBroker, TLC

TeamThreads == GetThreads \cup Trainers \cup {Server}
=============================================================================
