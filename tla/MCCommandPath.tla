---------------------------- MODULE MCCommandPath ----------------------------
(***************************************************************************)
(* One client that may send the three commands of the README and a request *)
(* for a state that does not exist.                                        *)
(***************************************************************************)
EXTENDS CommandPath

MCBlank == <<0, 0, 0>>

Nothing == <<0, 0, 0>>
GoSurvival == <<1, 1, 0>>
GoMission == <<1, 2, 0>>
GoNowhere == <<1, 0, 0>>

MCMessages == {Nothing, GoSurvival, GoMission, GoNowhere}

MCBytes == 0 .. 2
=============================================================================
