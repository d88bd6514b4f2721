------------------------------ MODULE MCSession ------------------------------
(***************************************************************************)
(* The small cipher, messages of up to three bytes, and enough of them for *)
(* the counter to wrap (after six rounds) while both sides are running.    *)
(***************************************************************************)
EXTENDS Session, SmallCipher

LOCAL INSTANCE Bitwise

MCXorB == [p \in SmallBytes \X SmallBytes |-> p[1] ^^ p[2]]

MCKeys == [w : {0, 3, 6, 13}, schedule : SmallSchedules]

MCMessages == {<<>>, <<1>>, <<2>>, <<3, 0>>, <<1, 1>>, <<0, 2, 3>>}
=============================================================================
