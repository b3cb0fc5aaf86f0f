---------------------------- MODULE ValidLedger ----------------------------
(***************************************************************************)
(* What the trade routes promise, without sessions, locks or awaits: the   *)
(* user's trades change one at a time, and never into a history that is    *)
(* not valid.                                                              *)
(***************************************************************************)
CONSTANT Valid(_)   (* sells no more of any symbol than was owned          *)

VARIABLE trades

Init == Valid(trades)

Log == \E t \in trades' : /\ \A u \in trades : u.id # t.id
                          /\ trades' = trades \cup {t}

Amend == \E t \in trades, u \in trades' : /\ t.id = u.id
                                         /\ trades' = (trades \ {t}) \cup {u}

Discard == \E t \in trades : trades' = trades \ {t}

Next == (Log \/ Amend \/ Discard) /\ Valid(trades')

Spec == Init /\ [][Next]_trades

=============================================================================
