---- MODULE MCDesktopStream ----
(***************************************************************************)
(* Instances of DesktopStream for TLC.                                     *)
(***************************************************************************)
EXTENDS DesktopStream

CONSTANTS m1, w1

\* A monitor a little over 1080p; a window with odd sides, once one pixel wide.
MCSizes == [s \in Sources |-> IF s \in Monitors THEN {<<1921, 1081>>}
                              ELSE {<<801, 601>>, <<1, 601>>}]
MCOrigin == [x |-> -1921, y |-> 0, w |-> 1921, h |-> 1081]
MCPositions == {-3, 5, NaN}
MCFullProfile == DEFAULT_1080P30
MCEstimates == {4000, 30000}

====
