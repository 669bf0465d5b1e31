------------------------------- MODULE MCSwaps ------------------------------
(***************************************************************************)
(* Swaps with a maker and two takers, and with a buyer.                    *)
(***************************************************************************)
EXTENDS Swaps

MCDaemon == {"M", "T", "U"}
MCMaker == [x \in Unit \cup Bid |-> "M"]

Still == [sells |-> {}, buys |-> {}, takers |-> {}, claimable |-> {},
          life |-> 10, last |-> 14, offers |-> {}, resting |-> [d \in MCDaemon |-> {}],
          crashes |-> 0, cuts |-> 0, outages |-> 0, refusals |-> 0, away |-> 0,
          cancels |-> 0, strangers |-> 0, fills |-> 0, slow |-> 0]

\* One unit and one taker, with a crash in a watcher and delays; and with a
\* refused call.
Selling == [Still EXCEPT !.sells = Unit, !.takers = {"T"}, !.crashes = 1, !.away = 3, !.slow = 1]
Refusing == [Still EXCEPT !.sells = Unit, !.takers = {"T"}, !.refusals = 1, !.strangers = 1]

\* Two takers after the same unit.
Racing == [Still EXCEPT !.sells = Unit, !.takers = {"T", "U"}, !.slow = 1]

\* A buyer that also has a sell order, so its watcher runs.
Buying == [Still EXCEPT !.buys = Bid, !.claimable = Bid, !.offers = {2, 5}, !.fills = 1,
                        !.resting = [d \in MCDaemon |-> IF d = "M" THEN Unit ELSE {}],
                        !.cancels = 1, !.crashes = 1, !.cuts = 1, !.slow = 1, !.last = 7]

\* A maker whose event query fails.
Missing == [Still EXCEPT !.sells = Unit, !.strangers = 1, !.outages = 1, !.last = 4]

MCScenes == {Selling, Refusing, Racing, Buying, Missing}

\* The daemon dies inside take_ask.
MCCut == {[Still EXCEPT !.sells = Unit, !.takers = {"T"}, !.cuts = 1]}
\* One event query fails.
MCOutage == {[Still EXCEPT !.sells = Unit, !.takers = {"T"}, !.outages = 1]}
\* A buyer without a sell order.
MCBuyer == {[Buying EXCEPT !.resting = [d \in MCDaemon |-> {}], !.cancels = 0, !.crashes = 0, !.cuts = 0]}

=============================================================================
