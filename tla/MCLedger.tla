------------------------------ MODULE MCLedger ------------------------------
(***************************************************************************)
(* Two accounts, transfers between them that go through, that lack funds,  *)
(* that overflow and that break a rule each; blocks a second, a target     *)
(* time and a stall apart.                                                 *)
(***************************************************************************)
EXTENDS Ledger

CONSTANTS al, bo, nobody

Transfer(n, from, to, amount, fee) ==
    [nonce |-> n, sender |-> from, kind |-> "transfer", decodes |-> TRUE, to |-> to,
     amount |-> amount, tip |-> fee, fee_limit |-> 4, sig |-> "good", size |-> 1]

t1 == Transfer(0, al, bo, 2, 1)
t2 == Transfer(1, al, bo, 1, 0)
t3 == Transfer(0, bo, al, 1, 2)
late == Transfer(0, bo, al, 2, 4)
huge == Transfer(0, al, bo, 15, 0)
bad == [t1 EXCEPT !.sig = "bad"]
odd == [t1 EXCEPT !.sender = nobody]
MCTx == {t1, t2, t3, late, huge, bad, odd}

MCSelection == {<<>>, <<t1>>, <<t1, t2>>, <<t2, t1>>, <<t1, t3>>, <<late>>, <<t3, bad>>,
                <<odd>>, <<huge>>}
=============================================================================
