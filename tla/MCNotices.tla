----------------------------- MODULE MCNotices -----------------------------
(* Scenes of the notices for model checking. *)
EXTENDS Notices

MCUser == {1, 2}
MCPrice == {1, 2}
MCProduct ==
    [cost |-> 2, markup |-> 1, price |-> 3, locked |-> FALSE, supply |-> 1, known |-> TRUE,
     gone |-> 0, local |-> 0,
     active |-> TRUE, forced |-> FALSE, mode |-> "always", saleOn |-> TRUE]

None == [drafts |-> 0, presses |-> 0, refreshes |-> 0, moves |-> 0, imports |-> 0, sales |-> 0,
         manuals |-> 0, edits |-> 0, toggles |-> 0, flashes |-> 0, ends |-> 0, starts |-> 0,
         faults |-> 0, refusals |-> 0, outages |-> 1, batch |-> 2]

\* the administrator's broadcast, with failures
Broadcasting ==
    [left |-> [None EXCEPT !.drafts = 1, !.presses = 2, !.starts = 1, !.faults = 2,
                 !.refusals = 2, !.batch = 1],
     started |-> {1, 2}, product |-> [MCProduct EXCEPT !.mode = "off"]]
\* the supplier's stock moves, within the time in which no second alert is sent
Restocking ==
    [left |-> [None EXCEPT !.refreshes = 3, !.toggles = 2, !.faults = 1],
     started |-> {1}, product |-> [MCProduct EXCEPT !.mode = "always"]]
\* the supplier's price moves, and the administrator's
Repricing ==
    [left |-> [None EXCEPT !.refreshes = 2, !.moves = 2, !.edits = 1, !.faults = 1],
     started |-> {1}, product |-> [MCProduct EXCEPT !.mode = "balance"]]
\* a campaign runs while its product changes
Campaigning ==
    [left |-> [None EXCEPT !.flashes = 1, !.ends = 1, !.refreshes = 1, !.moves = 1, !.edits = 1,
                 !.faults = 1],
     started |-> {1}, product |-> [MCProduct EXCEPT !.mode = "disabled"]]
\* accounts are imported and sold, also to preorders
Importing ==
    [left |-> [None EXCEPT !.imports = 1, !.sales = 1, !.manuals = 1, !.refreshes = 1,
                 !.faults = 1],
     started |-> {1}, product |-> [MCProduct EXCEPT !.mode = "balance"]]
MCScene == {Broadcasting, Restocking, Repricing, Campaigning, Importing}
============================================================================
