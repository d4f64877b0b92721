----------------------------- MODULE CheckLuaMC -----------------------------
(***************************************************************************)
(* The whole of check.lua: the script, in months that are numbered, and    *)
(* the calendar that names them.  The two share no state, so TLC explores  *)
(* one and then the other: the calendar turns while the script has not     *)
(* begun, and the script runs on the calendar's first day.                 *)
(***************************************************************************)
EXTENDS CheckScriptMC, CivilDates

Turn ==
  /\ Init
  /\ CalendarNext
  /\ UNCHANGED vars

\* After the last day the calendar begins again.
Rewind ==
  /\ day = LastDay
  /\ day' = 0 /\ date' = Date(1970, 1, 1)
  /\ UNCHANGED vars

Run ==
  /\ CalendarInit
  /\ Next
  /\ UNCHANGED calendar

LuaInit == Init /\ CalendarInit
LuaNext == Turn \/ Rewind \/ Run
LuaSpec == LuaInit /\ [][LuaNext]_<<vars, calendar>>
=============================================================================
