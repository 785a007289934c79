---------------------------- MODULE StateManager ----------------------------
(***************************************************************************)
(* The state machine of state_manager/: a current state with an execution  *)
(* callback and a transition map, driven by the commands of the queue.     *)
(* The module gives what the manager thread does between its accesses to   *)
(* the queue; CommandPath runs it as steps of that thread.                 *)
(***************************************************************************)
EXTENDS Integers

CONSTANTS
    MaxMissionCounter,   \* MAX_STATE_MISSION_COUNTER_VAL: 12
    ByteRange            \* the mission counter is an unsigned char: 256

ASSUME CounterAssumption ==
    /\ MaxMissionCounter \in Nat \ {0}
    /\ ByteRange \in Nat
    /\ MaxMissionCounter < ByteRange

VARIABLES
    current_state,     \* G_STATE_MANAGER_handler.current_state
    mission_counter,   \* G_state_mission_counter
    cancelled          \* a pthread_cancel(pthread_self()) is pending

managerVars == <<current_state, mission_counter, cancelled>>
-----------------------------------------------------------------------------
(* state_ids.h and the maps of the states *)

SURVIVAL == 1
MISSION == 2

\* The states the manager knows: G_STATE_MANAGER_state_map.
StateMap == {SURVIVAL, MISSION}

\* The transition maps have C_STATE_MAX_ALLOWED_TRANSITIONS entries, the ones
\* after the only transition being 0.
TransitionMap ==
    [state \in StateMap |->
        IF state = SURVIVAL THEN <<MISSION, 0, 0>> ELSE <<SURVIVAL, 0, 0>>]
-----------------------------------------------------------------------------
(* Error codes: state_types.h *)

NO_ERROR == 0
STATE_NOT_FOUND_IN_MAP == 1
STATE_CHANGE_NOT_ALLOWED == 5
ALREADY_IN_THIS_STATE == 6
FATAL_ERROR_DETECTOR == 11
UNATTENDED_TERMINATION_ERROR == 12

\* Both error paths of the thread's loop cancel it on a fatal error only.
CancelIfFatal(code) == cancelled' = (cancelled \/ code > FATAL_ERROR_DETECTOR)
-----------------------------------------------------------------------------
(* STATE_MANAGER__initialization *)
Initialization ==
    /\ current_state' = SURVIVAL
    /\ UNCHANGED <<mission_counter, cancelled>>

(* STATE_MANAGE__change_state *)

IsTransitionAllowed(target) ==
    \E i \in DOMAIN TransitionMap[current_state] :
        TransitionMap[current_state][i] = target

ChangeStateCode(target) ==
    CASE target = current_state -> ALREADY_IN_THIS_STATE
      [] target # current_state /\ ~IsTransitionAllowed(target)
           -> STATE_CHANGE_NOT_ALLOWED
      [] target # current_state /\ IsTransitionAllowed(target)
           /\ target \notin StateMap -> STATE_NOT_FOUND_IN_MAP
      [] OTHER -> NO_ERROR

ChangeState(target) ==
    /\ current_state' = IF ChangeStateCode(target) = NO_ERROR
                        THEN target ELSE current_state
    /\ CancelIfFatal(ChangeStateCode(target))
    /\ UNCHANGED mission_counter

(* STATE_MANAGER__update, once an item was received: the first byte is the *)
(* command code, the second the target of a change of state.               *)
COMMAND_CHANGE_STATE == 1

\* Mutant: the target is taken from the wrong argument.
DispatchSecondArgument(message) ==
    IF message[1] = COMMAND_CHANGE_STATE
    THEN ChangeState(message[3])
    ELSE UNCHANGED managerVars

Dispatch(message) ==
    IF message[1] = COMMAND_CHANGE_STATE
    THEN ChangeState(message[2])
    ELSE UNCHANGED managerVars

\* Mutants: the mission ends one cycle late, or its cycles are not counted.
ExecuteMissionLate ==
    /\ current_state = MISSION
    /\ mission_counter' = (mission_counter + 1) % ByteRange
    /\ CancelIfFatal(IF mission_counter' > MaxMissionCounter
                     THEN UNATTENDED_TERMINATION_ERROR ELSE NO_ERROR)
    /\ UNCHANGED current_state

ExecuteMissionUncounted ==
    /\ current_state = MISSION
    /\ UNCHANGED managerVars

(* STATE_MANAGER__execution_loop: the callback of the current state.  The  *)
(* mission counts its cycles and ends the thread when they are used up;    *)
(* survival counts too, but nothing depends on its counter.                *)
ExecuteMission ==
    /\ current_state = MISSION
    /\ mission_counter' = (mission_counter + 1) % ByteRange
    /\ CancelIfFatal(IF mission_counter' >= MaxMissionCounter
                     THEN UNATTENDED_TERMINATION_ERROR ELSE NO_ERROR)
    /\ UNCHANGED current_state

ExecuteSurvival ==
    /\ current_state = SURVIVAL
    /\ UNCHANGED managerVars
=============================================================================
