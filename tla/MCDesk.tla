------------------------------- MODULE MCDesk -------------------------------
(***************************************************************************)
(* A finite instance for checking DeskPages: one tenant with two people,   *)
(* two shipped skills, two routines and one rule of its own.               *)
(***************************************************************************)
EXTENDS DeskPages

CONSTANTS t1, anna, ravi, meera, clear, refund, pan, brief, wins, evening,
          below, hindi, store, tally, stock, call, policy, prices, mine, main,
          nobody

OneTenant   == {t1}
WhatIsTyped == [people |-> {anna, ravi, meera}, skills |-> {clear, refund, pan},
                routines |-> {brief, wins, evening}, rules |-> {below, hindi}]
WhatShips   == [people |-> <<Row(1, anna, TRUE), Row(2, ravi, FALSE)>>,
                skills |-> <<Row(1, clear, TRUE), Row(2, refund, FALSE)>>,
                routines |-> <<Row(1, brief, TRUE), Row(2, wins, FALSE)>>,
                rules |-> <<Row(1, below, TRUE)>>]
TwoConns    == {store, tally}
StartsOn    == {store}
OneProp     == {stock}
OneTool     == {call}
TwoFiles    == {policy, prices}
OnTheShelf  == <<policy>>
OneFolder   == {mine}
=============================================================================
