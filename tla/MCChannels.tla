----------------------------- MODULE MCChannels -----------------------------
(***************************************************************************)
(* Channels on three daemons in a row: a payer, a hub and a payee.         *)
(***************************************************************************)
EXTENDS Channels

MCNode == {"P", "H", "E"}
MCChan == {<<"P", "H">>, <<"H", "E">>}
Up == {<<"P", "H">>}

\* Payments through the hub, over open channels with a crash, and with the
\* last channel still to be opened; far from the channels' expiry.
Routing == [chan |-> MCChan, open |-> MCChan, payee |-> {"E"}, expiry |-> 9,
            last |-> 0, orders |-> 2, tries |-> 0, crashes |-> 1]
JustInTime == [Routing EXCEPT !.open = Up, !.last = 1, !.orders = 1,
                              !.tries = 1, !.crashes = 0]

\* One channel from its opening to its end.
Settling == [chan |-> Up, open |-> Up, payee |-> {}, expiry |-> 6,
             last |-> 10, orders |-> 2, tries |-> 1, crashes |-> 1]
Opening == [Settling EXCEPT !.open = {}]

\* The hub spends its signatures on forwarding and then has to close.
Exhausted == [Routing EXCEPT !.expiry = 6, !.last = 10, !.crashes = 0]
MCExhausted == {Exhausted}

MCScenes == {Routing, JustInTime, Settling, Opening}

=============================================================================
