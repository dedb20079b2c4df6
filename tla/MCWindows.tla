----------------------------- MODULE MCWindows -----------------------------
(***************************************************************************)
(* The instance of Windows that TLC checks: the areas of menu.c, one that   *)
(* is refused, and tables so small that registering fails.                  *)
(***************************************************************************)
EXTENDS Windows

up_area == <<0, 0, GUI_MAX_WIDTH, GUI_MAX_HEIGHT \div 2>>
down_area == <<0, GUI_MAX_HEIGHT \div 2, GUI_MAX_WIDTH, GUI_MAX_HEIGHT \div 2>>
too_wide == <<0, 0, GUI_MAX_WIDTH + 1, 10>>
lf_short == <<1, 1>>
lf_500 == <<1, 500>>

SmallTables ==
  [k \in Kinds |-> IF k \in {"touches", "notifies", "keys"} THEN 2 ELSE 1]

MenuRegisters ==
  <<<<"touches", up_area>>, <<"touches", down_area>>,
    <<"keys", lf_short>>, <<"keys", lf_500>>, <<"timers", <<1>>>>>>

AppRegisters ==
  {<<"touches", too_wide>>, <<"touches", up_area>>, <<"keys", lf_500>>, <<"timers", <<2>>>>,
   <<"notifies", <<1>>>>, <<"notifies", <<21>>>>, <<"requests", <<769>>>>}
=============================================================================
