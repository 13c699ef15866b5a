---------------------------- MODULE MCGameLobby ----------------------------
(* A waiting room in front of the matches of MCGameRules. *)
EXTENDS GameLobby, MCGameRules

CONSTANTS c, p, q

(* The rules' own way of making a game and the room's agree on a game only its creator is in. *)
ASSUME CreateGameAgrees ==
  \A bootstrap \in Bootstraps :
    DOMAIN bootstrap.players = {0} =>
      createWaitingState(bootstrap) =
        createGame(Creator, bootstrap.maximumPlayers, bootstrap.timeLimitMs, bootstrap.createdAtMs)
=============================================================================
