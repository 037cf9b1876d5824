--------------------------- MODULE MCSupplierSync ---------------------------
(* Scenes of the suppliers' products for model checking. *)
EXTENDS SupplierSync

MCUser == {1}
MCPrice == {1, 2, 3}
MCQuote == [lehai |-> 1, canboso |-> 2, haji |-> 3]
None == [drafts |-> 0, presses |-> 0, refreshes |-> 0, moves |-> 0, imports |-> 0, sales |-> 0,
         manuals |-> 0, edits |-> 0, toggles |-> 0, flashes |-> 0, ends |-> 0, starts |-> 0,
         faults |-> 0, refusals |-> 0, outages |-> 1, batch |-> 1,
         errors |-> 0, buys |-> 0, switches |-> 0, topups |-> 0, restocks |-> 0, gpt |-> 0]
Seller(wallet, goods) == [wallet |-> wallet, goods |-> goods, owes |-> 0]
Nothing == Seller(0, 0)
\* a product whose suppliers have just been asked
Begin(chance, who, cost, supply, lehai, canboso, haji) ==
    [left |-> chance, started |-> {}, clients |-> who, off |-> Supplier \ who,
     seller |-> [lehai |-> lehai, canboso |-> canboso, haji |-> haji],
     product |-> [cost |-> cost, markup |-> 1, price |-> cost + 1, locked |-> FALSE,
                  supply |-> supply, known |-> TRUE, gone |-> 0, local |-> 0, active |-> TRUE,
                  forced |-> FALSE, mode |-> "balance", saleOn |-> FALSE]]

\* Le Hai alone: orders that are lost and paid back, top-ups
Repaying ==
    Begin([None EXCEPT !.errors = 1, !.buys = 2, !.topups = 1],
          {"lehai"}, 1, 1, Seller(1, 2), Nothing, Nothing)
\* Le Hai fails, the purchase comes back, the process restarts
Breaking ==
    Begin([None EXCEPT !.errors = 2, !.buys = 3, !.faults = 1],
          {"lehai", "canboso"}, 2, 2, Seller(1, 1), Seller(1, 1), Nothing)
\* Le Hai and Canboso, whose money and accounts come one after the other
Routing ==
    Begin([None EXCEPT !.buys = 1, !.topups = 2, !.restocks = 1, !.gpt = 1],
          {"lehai", "canboso"}, 2, 1, Seller(1, 1), Seller(0, 1), Nothing)
\* suppliers are switched off and on, and the price follows them
Switching ==
    Begin([None EXCEPT !.errors = 1, !.topups = 1, !.switches = 2],
          Supplier, 3, 2, Seller(1, 1), Seller(0, 1), Seller(1, 1))
\* a price that falls by a switch is told
Cheapening ==
    [Begin([None EXCEPT !.errors = 1, !.switches = 2],
           {"lehai", "canboso"}, 2, 1, Seller(1, 1), Seller(1, 1), Nothing)
     EXCEPT !.product.saleOn = TRUE, !.off = {"lehai", "haji"}]
MCScene == {Repaying, Breaking, Routing, Switching, Cheapening}
============================================================================
