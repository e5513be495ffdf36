----------------------------- MODULE MCAlgorithms -----------------------------
EXTENDS Algorithms

\* Two places of the window on the screen
MCPlaces == {[x |-> [lo |-> 1, hi |-> 5], y |-> [lo |-> 0, hi |-> 4]],
             [x |-> [lo |-> 2, hi |-> 7], y |-> [lo |-> 1, hi |-> 4]]}

\* A window with every reason against it, and one below it; or one elsewhere
MCFlaws == {{}, {"cloaked", "toolwindow"}} \cup {{f} : f \in Flaw}
MCIdentities == {<<"App.exe", "AppClass">>, <<"App.exe", "Tray">>,
                 <<"Start.exe", "Core">>, <<"unknown", "Core">>}
MCAreas == {<<FALSE, FALSE>>, <<TRUE, FALSE>>, <<TRUE, TRUE>>}

MCTop == {[flaws |-> f, process |-> id[1], class |-> id[2], hit |-> a[1], visual |-> a[2]] :
            f \in MCFlaws, id \in MCIdentities, a \in MCAreas}
MCBelow == {[flaws |-> f, process |-> "App.exe", class |-> "AppClass", hit |-> TRUE, visual |-> v] :
              f \in {{}, {"cloaked"}, {"minimized"}}, v \in BOOLEAN}
MCDesktops == {<<top, below>> : top \in MCTop, below \in MCBelow} \cup {<<w>> : w \in MCBelow}

MCRules == {[action |-> "include", process |-> Unset, class |-> "Tray"],
            [action |-> "exclude", process |-> "App.exe", class |-> Unset],
            [action |-> "include", process |-> "App.exe", class |-> "AppClass"]}
===============================================================================
