------------------------ MODULE RoomLifecycleProofs ------------------------
(***************************************************************************)
(* The promises of RoomLifecycle hold for every set of connections.  Inv   *)
(* is inductive: LobbyIsClean needs the types (ready and playing only name *)
(* clients), GameIsAgreed needs nobody to join a room past its lobby, and  *)
(* StartedRoomHasAPlayer needs the player who falls asleep to be counted.  *)
(***************************************************************************)
EXTENDS RoomLifecycle, TLAPS

Inv == /\ TypeOK /\ LobbyIsClean /\ ConnectedHasMode
       /\ StartedRoomHasAPlayer /\ GameIsAgreed

(* The room without clients is a good start. *)
LEMMA InitInv == Init => Inv
  BY DEF Init, Inv, TypeOK, LobbyIsClean, ConnectedHasMode, StartedRoomHasAPlayer,
         GameIsAgreed, Accepted, Players

(* Losing members keeps the invariant, from any state the room may have     *)
(* reached within the same input.                                           *)
LEMMA LoseInv ==
  ASSUME Inv,
         NEW S, NEW from \in {"WaitingLaunch", "WaitingStart", "InGame"},
         NEW agreed \in BOOLEAN, NEW willing,
         willing \subseteq connected,
         from = "WaitingLaunch" => ~agreed /\ willing = {} /\ playing = {},
         from = "InGame" => agreed /\ connected \subseteq playing,
         Lose(S, from, agreed, willing)
  PROVE  Inv'
  <1>1. CASE EndsGame(S, from)
    <2>1. /\ state' = "WaitingLaunch" /\ connected' = {} /\ strangers' = {}
          /\ closing' = (closing \cup connected) \ S /\ asleep' = asleep \ S
          /\ drones' = drones \ S /\ fresh' = fresh
          /\ mode' = FALSE /\ settings' = FALSE /\ ready' = {} /\ playing' = {}
      BY <1>1 DEF Lose
    <2> QED
      BY <2>1 DEF Inv, TypeOK, LobbyIsClean, ConnectedHasMode, StartedRoomHasAPlayer,
                  GameIsAgreed, Accepted, Players
  <1>2. CASE ~EndsGame(S, from)
    <2>1. /\ state' = from /\ connected' = connected \ S /\ strangers' = strangers
          /\ closing' = closing \ S /\ asleep' = asleep \ S
          /\ drones' = drones \ S /\ fresh' = fresh
          /\ mode' = mode /\ settings' = agreed
          /\ ready' = willing \ S /\ playing' = playing \ S
      BY <1>2 DEF Lose
    <2>2. PICK p \in Players : p \notin S
      BY <1>2 DEF EndsGame
    <2>3. TypeOK'
      BY <2>1 DEF Inv, TypeOK, Accepted
    <2>4. (LobbyIsClean /\ ConnectedHasMode /\ GameIsAgreed)'
      BY <2>1 DEF Inv, LobbyIsClean, ConnectedHasMode, GameIsAgreed
    <2>5. StartedRoomHasAPlayer'
      BY <2>1, <2>2 DEF StartedRoomHasAPlayer, Players
    <2> QED  BY <2>3, <2>4, <2>5 DEF Inv
  <1> QED  BY <1>1, <1>2

(* Every step keeps the invariant. *)
LEMMA StepInv == Inv /\ [Next]_vars => Inv'
  <1> SUFFICES ASSUME Inv, [Next]_vars PROVE Inv'
    OBVIOUS
  <1> USE DEF Inv
  <1>1. ASSUME NEW p \in fresh, Admit(p) PROVE Inv'
    BY <1>1 DEF Admit, game, TypeOK, LobbyIsClean, ConnectedHasMode,
                StartedRoomHasAPlayer, GameIsAgreed, Accepted, Players
  <1>2. ASSUME NEW p \in strangers, Refuse(p) PROVE Inv'
    BY <1>2 DEF Refuse, game, TypeOK, LobbyIsClean, ConnectedHasMode,
                StartedRoomHasAPlayer, GameIsAgreed, Accepted, Players
  <1>3. ASSUME NEW p \in strangers, NEW drone \in BOOLEAN, Enroll(p, drone) PROVE Inv'
    <2>1. TypeOK'
      BY <1>3 DEF Enroll, TypeOK, Accepted
    <2>2. (LobbyIsClean /\ ConnectedHasMode /\ StartedRoomHasAPlayer /\ GameIsAgreed)'
      BY <1>3 DEF Enroll, LobbyIsClean, ConnectedHasMode, StartedRoomHasAPlayer, GameIsAgreed
    <2> QED  BY <2>1, <2>2
  <1>4. ASSUME NEW p \in connected, Sleep(p) PROVE Inv'
    <2>1. TypeOK'
      BY <1>4 DEF Sleep, TypeOK, Accepted
    <2>2. (LobbyIsClean /\ ConnectedHasMode /\ GameIsAgreed)'
      BY <1>4 DEF Sleep, LobbyIsClean, ConnectedHasMode, GameIsAgreed
    <2>3. connected' \cup asleep' = connected \cup asleep
      BY <1>4 DEF Sleep
    <2>4. StartedRoomHasAPlayer'
      BY <1>4, <2>3 DEF Sleep, StartedRoomHasAPlayer
    <2> QED  BY <2>1, <2>2, <2>4
  <1>5. ASSUME NEW S \in SUBSET Accepted, Shed(S) PROVE Inv'
    <2>1. /\ state \in {"WaitingLaunch", "WaitingStart", "InGame"}
          /\ settings \in BOOLEAN /\ ready \subseteq connected
      BY DEF TypeOK
    <2>2. /\ state = "WaitingLaunch" => ~settings /\ ready = {} /\ playing = {}
          /\ state = "InGame" => settings /\ connected \subseteq playing
      BY DEF LobbyIsClean, GameIsAgreed
    <2>3. Lose(S, state, settings, ready)
      BY <1>5 DEF Shed
    <2> QED  BY <2>1, <2>2, <2>3, LoseInv
  <1>6. ASSUME NEW S \in SUBSET connected, Launch(S) PROVE Inv'
    <2>1. settings \in BOOLEAN /\ ready \subseteq connected
      BY DEF TypeOK
    <2>2. Lose(S, "WaitingStart", settings, ready)
      BY <1>6 DEF Launch
    <2> QED  BY <2>1, <2>2, LoseInv
  <1>7. ASSUME NEW S \in SUBSET connected, NEW p \in connected,
               NEW adopts \in BOOLEAN, GameStart(p, adopts, S)
        PROVE  Inv'
    <2> DEFINE agreed  == settings \/ adopts
               willing == ready \cup {p}
               starts  == agreed /\ connected \subseteq willing
    <2>1. agreed \in BOOLEAN /\ willing \subseteq connected
      BY DEF TypeOK
    <2>2. CASE starts /\ S # {}
      <3>1. Lose(S, "WaitingStart", agreed, willing)
        BY <1>7, <2>2 DEF GameStart, Starts, TakesReadiness
      <3> HIDE DEF agreed, willing
      <3> QED  BY <2>1, <3>1, LoseInv
    <2>3. CASE ~(starts /\ S # {})
      <3>1. /\ state' = IF starts THEN "InGame" ELSE state
            /\ playing' = IF starts THEN playing \cup connected ELSE playing
            /\ settings' = agreed /\ ready' = willing /\ state = "WaitingStart"
            /\ UNCHANGED <<members, mode>>
        BY <1>7, <2>3 DEF GameStart, Starts, TakesReadiness
      <3>2. TypeOK'
        BY <2>1, <3>1 DEF TypeOK, Accepted, members
      <3>3. (LobbyIsClean /\ ConnectedHasMode /\ StartedRoomHasAPlayer /\ GameIsAgreed)'
        BY <3>1 DEF LobbyIsClean, ConnectedHasMode, StartedRoomHasAPlayer, GameIsAgreed, members
      <3> QED  BY <3>2, <3>3
    <2> QED  BY <2>2, <2>3
  <1>8. CASE UNCHANGED vars
    BY <1>8 DEF vars, members, game, TypeOK, LobbyIsClean, ConnectedHasMode,
                StartedRoomHasAPlayer, GameIsAgreed, Accepted, Players
  <1> QED
    BY <1>1, <1>2, <1>3, <1>4, <1>5, <1>6, <1>7, <1>8 DEF Next

(* The inductive invariant holds of every behaviour. *)
THEOREM LifecycleInv == Spec => []Inv
  BY InitInv, StepInv, PTL DEF Spec

(* For any set of connections: each is in one place of its life, and the    *)
(* sets of clients hold clients only.                                       *)
THEOREM LifecycleTypes == Spec => []TypeOK
  BY LifecycleInv, PTL DEF Inv

(* For any set of connections: a game that ended or was aborted leaves      *)
(* nothing in the lobby.                                                    *)
THEOREM LobbyStaysClean == Spec => []LobbyIsClean
  BY LifecycleInv, PTL DEF Inv

(* For any set of connections, and whatever sets of them one input loses: a *)
(* room past its lobby has a player, so it is never stranded there.         *)
THEOREM StartedRoomKeepsAPlayer == Spec => []StartedRoomHasAPlayer
  BY LifecycleInv, PTL DEF Inv

(* For any set of connections: in game, everybody connected plays under     *)
(* adopted settings.                                                        *)
THEOREM GameStaysAgreed == Spec => []GameIsAgreed
  BY LifecycleInv, PTL DEF Inv
=============================================================================
