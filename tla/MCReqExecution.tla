--------------------------- MODULE MCReqExecution ---------------------------
(***************************************************************************)
(* Scenes of ReqExecution for TLC.  Each varies what it is about and leaves *)
(* the rest of the plainest scene alone.                                    *)
(***************************************************************************)
EXTENDS ReqExecution, TLC

Quiet == [level |-> {}, th |-> {}, temp |-> "COOL", off |-> FALSE,
          icy |-> {}, thawed |-> {}, enabled |-> FALSE]
Air == [air |-> TRUE, ice |-> FALSE, ln |-> "NIGHT", float |-> TRUE]

Plain == [inputs |-> {Quiet}, settings |-> {Air},
          screen |-> FALSE, max |-> 2, hold |-> 2, rest |-> 2]

\* Temperature, humidity and frost.
Weather == [Plain EXCEPT
  !.inputs = {[Quiet EXCEPT !.th = t, !.icy = f, !.thawed = {1, 2} \ f] :
                t \in {{}, {"start"}, {"stop"}}, f \in {{}, {1}}}
             \cup {[Quiet EXCEPT !.th = {"start"}, !.icy = {2}]}]

\* The floats, by day and by night, and the reasons from outside.
Tank == [Plain EXCEPT
  !.inputs = {[Quiet EXCEPT !.level = l] :
                l \in {{}, {"D_L", "D_ML"}, {"D_L", "D_ML", "D_M"}, {"S_U"}}}
             \cup {[Quiet EXCEPT !.off = TRUE]},
  !.settings = {[Air EXCEPT !.ln = n] : n \in {"QUIET", "DAY", "NIGHT"}}
               \cup {[Air EXCEPT !.air = FALSE]}]

\* Ice water, with its mode and its float taken away and given back.
Ice == [Plain EXCEPT
  !.inputs = {[Quiet EXCEPT !.level = {"D_L", "D_ML"}, !.temp = t] :
                t \in {"WARM", "MILD", "COOL", "ABNORMAL"}}
             \cup {[Quiet EXCEPT !.level = {"D_L", "D_ML", "D_M"}, !.temp = t] :
                     t \in {"WARM", "COOL"}}
             \cup {[Quiet EXCEPT !.level = {"D_L"}, !.temp = "WARM"]},
  !.settings = {[Air EXCEPT !.ice = TRUE, !.ln = "DAY"], [Air EXCEPT !.ln = "DAY"],
                [Air EXCEPT !.ice = TRUE, !.ln = "DAY", !.float = FALSE]}]

\* The display; the second has no time of silence and no rest.
Screens == [Plain EXCEPT
  !.screen = TRUE, !.inputs = {[Quiet EXCEPT !.enabled = e] : e \in BOOLEAN}]
Hasty == [Screens EXCEPT !.hold = 0, !.rest = 0]

All == ("weather" :> Weather) @@ ("tank" :> Tank) @@ ("ice" :> Ice) @@
       ("screens" :> Screens) @@ ("hasty" :> Hasty)

\* A limit that the count of restarts cannot reach.
Countless == "countless" :> [Hasty EXCEPT !.max = U8]
=============================================================================
