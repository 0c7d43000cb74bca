---------------------------- MODULE MCServerRole ----------------------------
(* ServerRole for TLC, its symmetry, and the refinement mapping to          *)
(* RoomLifecycle.                                                           *)
EXTENDS ServerRole, TLC

(* Modes are compared with each other and nothing else.  Sound for what     *)
(* server_role checks, which is safety only.                                *)
ModeSymmetry == Permutations(Modes)

InState(conn) == {p \in Accepted(role) : role.peers[p].conn = conn}

Life == INSTANCE RoomLifecycle WITH
    Peers     <- Ids,
    state     <- role.state,
    fresh     <- (role.nextOrder + 1)..MaxJoins,
    strangers <- Members(role) \ Accepted(role),
    connected <- InState("Connected"),
    asleep    <- InState("Sleeping"),
    closing   <- InState("Disconnecting"),
    drones    <- {p \in Accepted(role) : role.peers[p].drone},
    mode      <- role.gamemode # None,
    settings  <- role.settings,
    ready     <- {p \in Connected(role) : role.peers[p].ready},
    playing   <- {p \in Members(role) : role.peers[p].game}

(* Every step of the role, cascades of overflow removals and whole timer    *)
(* passes included, is one step the lifecycle promises.                     *)
Lifecycle == Life!Spec
=============================================================================
