------------------------------ MODULE MCTurns ------------------------------
(* Two turns over one checkout, where the one edit there is to make is a   *)
(* migration and the shell commits it or takes it back; and turns that     *)
(* only edit and ship.                                                     *)
EXTENDS Turns

CONSTANTS t1, t2, code, sql, old

MCBatches ==
  {<<"code_edit", "code_ship">>, <<"code_read">>, <<"sys_shell", "post">>}

EditAndShip == {<<"code_edit", "code_ship">>}

MCCheckouts ==
  {[tree |-> t, index |-> t, head |-> <<{sql}>>] : t \in {{}, {sql}}}

MCCallers == {t1, t2} \X {1, 2}
=============================================================================
