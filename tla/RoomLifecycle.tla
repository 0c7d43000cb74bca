--------------------------- MODULE RoomLifecycle ---------------------------
(***************************************************************************)
(* What the server role promises about a room, without its packets,        *)
(* queues, slots and timers: which members are connected, draining or      *)
(* gone, and when the room is in its lobby, starting or in game.           *)
(* ServerRole implements it (MCServerRole, property Lifecycle).  A step    *)
(* may lose a whole set of members at once, because one input of the role  *)
(* may: several deadlines in one timer pass, or a cascade of reliable      *)
(* queue overflows.                                                        *)
(***************************************************************************)
CONSTANT Peers       \* every connection the room will ever admit

VARIABLES
    state,           \* ServerState
    fresh,           \* connections that have not been admitted yet
    strangers,       \* members that have not completed SYN
    connected,       \* protocol clients in good standing
    asleep,          \* clients that said DISCONNECT and linger for its ACK
    closing,         \* clients the room is disconnecting
    drones,          \* clients that only watch
    mode,            \* a game mode has been adopted
    settings,        \* game settings have been adopted
    ready,           \* connected clients that sent GAMESTART
    playing          \* clients holding in-game state

members == <<fresh, strangers, connected, asleep, closing, drones>>
game    == <<mode, settings, ready, playing>>
vars    == <<state, members, game>>

Accepted == connected \cup asleep \cup closing
Players  == connected \ drones

Init ==
    /\ state = "WaitingLaunch"
    /\ fresh = Peers
    /\ strangers = {} /\ connected = {} /\ asleep = {} /\ closing = {} /\ drones = {}
    /\ mode = FALSE /\ settings = FALSE /\ ready = {} /\ playing = {}

(* Mutant: only a starting room notices that its players are gone. *)
EndsGameOnAbortOnly(S, from) == from = "WaitingStart" /\ S \cap Players # {}
(* The removal of the accepted members in S, seen as one step: it ends the  *)
(* game when it takes a connected player from a starting room or leaves no  *)
(* connected player, and the end disconnects every connected survivor and   *)
(* drops the members that never completed SYN.                              *)
EndsGame(S, from) == (from = "WaitingStart" /\ S \cap Players # {}) \/ Players \subseteq S

Lose(S, from, agreed, willing) ==
    /\ drones' = drones \ S /\ asleep' = asleep \ S
    /\ fresh' = fresh
    /\ IF EndsGame(S, from)
       THEN /\ state' = "WaitingLaunch"
            /\ connected' = {} /\ closing' = (closing \cup connected) \ S
            /\ strangers' = {}
            /\ mode' = FALSE /\ settings' = FALSE /\ ready' = {} /\ playing' = {}
       ELSE /\ state' = from
            /\ connected' = connected \ S /\ closing' = closing \ S
            /\ strangers' = strangers
            /\ mode' = mode /\ settings' = agreed
            /\ ready' = willing \ S /\ playing' = playing \ S

(* A failed admission leaves no member behind. *)
Admit(p) ==
    /\ p \in fresh
    /\ fresh' = fresh \ {p}
    /\ strangers' \in {strangers, strangers \cup {p}}
    /\ UNCHANGED <<state, connected, asleep, closing, drones, game>>

Refuse(p) ==
    /\ p \in strangers
    /\ strangers' = strangers \ {p}
    /\ UNCHANGED <<state, fresh, connected, asleep, closing, drones, game>>

(* Mutant: the first client in adopts no mode. *)
EnrollAdoptsNothing(p, drone) ==
    /\ p \in strangers /\ state = "WaitingLaunch"
    /\ strangers' = strangers \ {p} /\ connected' = connected \cup {p}
    /\ drones' = IF drone THEN drones \cup {p} ELSE drones
    /\ UNCHANGED <<state, fresh, asleep, closing, mode, settings, ready, playing>>
Enroll(p, drone) ==
    /\ p \in strangers /\ state = "WaitingLaunch"
    /\ drone => mode
    /\ strangers' = strangers \ {p} /\ connected' = connected \cup {p}
    /\ drones' = IF drone THEN drones \cup {p} ELSE drones
    /\ mode' = TRUE
    /\ UNCHANGED <<state, fresh, asleep, closing, settings, ready, playing>>

(* Mutant: a client that said DISCONNECT still counts as ready. *)
SleepReady(p) ==
    /\ p \in connected
    /\ connected' = connected \ {p} /\ asleep' = asleep \cup {p}
    /\ UNCHANGED <<state, fresh, strangers, closing, drones, game>>
Sleep(p) ==
    /\ p \in connected
    /\ connected' = connected \ {p} /\ asleep' = asleep \cup {p}
    /\ ready' = ready \ {p}
    /\ UNCHANGED <<state, fresh, strangers, closing, drones, mode, settings, playing>>

Shed(S) == S # {} /\ Lose(S, state, settings, ready)

Launch(S) ==
    /\ state = "WaitingLaunch" /\ Players # {} /\ S \subseteq connected
    /\ Lose(S, "WaitingStart", settings, ready)

(* Mutants: a start without settings; readiness taken in the lobby. *)
StartsUnagreed(agreed, willing) == connected \subseteq willing
Starts(agreed, willing)         == agreed /\ connected \subseteq willing
TakesReadinessAnytime(p)        == p \in connected
TakesReadiness(p)               == p \in connected /\ state = "WaitingStart"

(* GAMESTART from p: it may bring the settings, it makes p ready, and when  *)
(* everybody is the game starts -- unless the broadcast itself loses S.     *)
GameStart(p, adopts, S) ==
    LET agreed  == settings \/ adopts
        willing == ready \cup {p}
        starts  == Starts(agreed, willing)
    IN  /\ TakesReadiness(p) /\ S \subseteq connected
        /\ adopts => p \in Players
        /\ IF starts /\ S # {} THEN Lose(S, "WaitingStart", agreed, willing)
           ELSE /\ S = {}
                /\ state' = IF starts THEN "InGame" ELSE state
                /\ playing' = IF starts THEN playing \cup connected ELSE playing
                /\ settings' = agreed /\ ready' = willing
                /\ UNCHANGED <<members, mode>>

Next ==
    \/ \E p \in fresh : Admit(p)
    \/ \E p \in strangers : Refuse(p) \/ \E drone \in BOOLEAN : Enroll(p, drone)
    \/ \E p \in connected : Sleep(p)
    \/ \E S \in SUBSET Accepted : Shed(S)
    \/ \E S \in SUBSET connected :
          \/ Launch(S)
          \/ \E p \in connected, adopts \in BOOLEAN : GameStart(p, adopts, S)

Spec == Init /\ [][Next]_vars

-----------------------------------------------------------------------------
(* Each connection is in one place of its life, and the sets that describe  *)
(* clients hold clients only.                                               *)
TypeOK ==
    /\ state \in {"WaitingLaunch", "WaitingStart", "InGame"}
    /\ mode \in BOOLEAN /\ settings \in BOOLEAN
    /\ fresh \cup strangers \cup Accepted \subseteq Peers
    /\ fresh \cap (strangers \cup Accepted) = {} /\ strangers \cap Accepted = {}
    /\ connected \cap (asleep \cup closing) = {} /\ asleep \cap closing = {}
    /\ drones \subseteq Accepted /\ ready \subseteq connected /\ playing \subseteq Accepted

(* Nothing of an ended or aborted game is left in the lobby. *)
LobbyIsClean == state = "WaitingLaunch" => (~settings /\ ready = {} /\ playing = {})

(* Whoever is connected is so under an adopted mode. *)
ConnectedHasMode == connected # {} => mode

(* A room past its lobby has a player, connected or within its disconnect   *)
(* sleep, however many members one step has lost.                           *)
StartedRoomHasAPlayer == state # "WaitingLaunch" => (connected \cup asleep) \ drones # {}

(* In game, everybody connected holds in-game state under adopted settings. *)
GameIsAgreed == state = "InGame" => (settings /\ connected \subseteq playing)
=============================================================================
