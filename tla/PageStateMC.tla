------------------------------ MODULE PageStateMC ------------------------------
(* Scenarios for model checking PageState: tabs and popups around a relaunch,  *)
(* references on a page that moves, and the snapshot history.                  *)
EXTENDS PageState

Shown(test, role, name, text) == [test |-> test, role |-> role, name |-> name, text |-> text]
Ok == Shown(None, "button", "ok", 1)
OkToo == Shown(None, "button", "ok", 2)
Field == Shown("f", "textbox", "", 1)
FieldNamed == Shown("f", "textbox", "mail", 1)

Nothing == [navs |-> 0, changes |-> 0, popups |-> 0, crashes |-> 0, ticks |-> 0, switches |-> 0,
            closes |-> 0, snaps |-> 0, resolves |-> 0, expiries |-> 0, relaunches |-> 0, stops |-> 0,
            show |-> {<<>>}]

Relaunch == [Nothing EXCEPT !.popups = 3, !.relaunches = 1, !.switches = 1]
Closing == [Nothing EXCEPT !.popups = 2, !.closes = 2, !.switches = 1, !.navs = 1]
Ends == [Nothing EXCEPT !.popups = 3, !.stops = 1, !.crashes = 1]
References == [Nothing EXCEPT !.snaps = 2, !.resolves = 1, !.navs = 1, !.changes = 1,
                              !.expiries = 1,
                              !.show = {<<Ok>>, <<OkToo, Ok>>, <<FieldNamed>>, <<Field, Ok>>}]
TwoTabs == [Nothing EXCEPT !.snaps = 2, !.resolves = 1, !.navs = 1, !.popups = 1, !.switches = 2,
                           !.show = {<<Ok>>}]
History == [Nothing EXCEPT !.snaps = 4, !.ticks = 2, !.changes = 2,
                           !.show = {<<>>, <<Ok, OkToo>>, <<OkToo, Ok>>, <<Field, Ok>>,
                                     <<FieldNamed, Ok, OkToo>>}]

MCScenarios == {Relaunch, Closing, Ends, References, TwoTabs, History}

=============================================================================
