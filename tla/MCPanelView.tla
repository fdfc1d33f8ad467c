---------------------------- MODULE MCPanelView ----------------------------
(* Instances of PanelView, and of RigRoutes below it, for TLC. *)
EXTENDS PanelView

M == INSTANCE Meters

\* The meters the panel draws, evaluated once.
ASSUME MetersFollowTheirTables == M!ScalesFollowTheirTables
ASSUME MetersReachFullScale == M!FullScale
ASSUME ReportsFollowTheSignal == M!ReportFollowsSignal

CW28 == 28400000

\* Five menus, of which a behaviour has one: routes on registers of their own do
\* not meet, so they need not be mixed.
Receiver ==
    [routes |-> {Mute("on"), Mute("off"), Mute("toggle"), Level("AG", 300, 0, 255),
                 Nudge("AG", 5, 0, 255)},
     knobs |-> {Write("AG", 60)}, panel |-> {}, outages |-> FALSE, max |-> 5]
Dials ==
    [routes |-> {Step(100000), Step(-6000000), Band(CW28), FreqSet(3700000), SetFreq(1000000),
                 VfoCopy("FA", "FB"), VfoCopy("FB", "FA"), VfoSwap, Get("FA")},
     knobs |-> {Write("FA", 10120000)}, panel |-> {}, outages |-> FALSE, max |-> 4]
Switches ==
    [routes |-> {Cycle("PA", 3), Toggle("ST", 0, 1), Toggle("PR", 1, 2), QuickSplit,
                 Rit(100), Rit(-100), Switch("RT", 0), Mode(CW),
                 ProxyHandle(Write("ST", 0), TRUE), ProxyHandle(Write("ST", 0), FALSE)},
     knobs |-> {Write("PA", 2)}, panel |-> {}, outages |-> FALSE, max |-> 3]
Keying ==
    [routes |-> {}, knobs |-> {Write("TX", 0)}, panel |-> {"poll", "button", "key"},
     outages |-> TRUE, max |-> 3]
Tuning ==
    [routes |-> {}, knobs |-> {}, panel |-> {"poll", "tune"}, outages |-> TRUE, max |-> 2]
MCMenus ==
    [receiver |-> Receiver, dials |-> Dials, switches |-> Switches, keying |-> Keying,
     tuning |-> Tuning]
\* One step down, ten up.
MCMultiples == {-1, 10}
=============================================================================
