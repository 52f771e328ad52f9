------------------------------ MODULE MCProtocolRooms ------------------------------
(* The instance TLC checks: racers are interchangeable, and so are the channels *)
(* whose rooms do not race in teams.                                            *)
EXTENDS ProtocolRooms, TLC

Symmetry == Permutations(Riders \ (Watchers \cup Referees))
            \cup Permutations(Channels \ TeamChannels)
================================================================================
