--------------------------- MODULE MCConversations ---------------------------
(* Native chat and Pi session ownership share no state: every behaviour is *)
(* about one turn of native chat, or about one Pi session.                 *)
EXTENDS MagiChat, PiOwnership

CONSTANTS m1, m2, m3, r1, g1, g2, t1, t2

VARIABLE part    \* what a behaviour is about

Plain(k) == Entry(k, FALSE)
TwoTurns ==
  <<Plain("prepare"), Plain("user"), Plain("bind"), Plain("assistant"), Plain("finalize"),
    Plain("prepare"), Plain("user"), Plain("bind"), Plain("assistant"), Plain("finalize")>>
Interrupted ==
  <<Plain("prepare"), Plain("user"), Plain("bind"), Plain("prepare"), Plain("assistant"), Plain("user"),
    Plain("bind"), Plain("tool"), Plain("assistant"), Plain("assistant"), Plain("finalize")>>
Overlap ==
  <<Plain("prepare"), Plain("prepare"), Plain("user"), Plain("bind"), Plain("bind"), Plain("assistant"),
    Plain("finalize"), Plain("finalize")>>
Foreign ==
  <<Plain("prepare"), Plain("other-user"), Plain("bind"), Plain("assistant"), Plain("user"), Entry("bind", TRUE),
    Plain("assistant"), Plain("finalize")>>
MCSessions == {TwoTurns, Interrupted, Overlap, Foreign}

MCInit ==
  /\ MagiInit /\ PiInit
  /\ part \in Keys \cup {"pi"}
  /\ part # "pi" => piLog = TwoTurns

(* The instances crash only while the turn is m1's or the report's; the    *)
(* other two differ from m1's in the calls they make alone.                *)
OneTurn ==
  /\ \A k \in Keys \ {part} : chatRow'[k] = NoTurn /\ (k \in Reports => report'[k] = NoReport)
  /\ part \in {m2, m3} => chatCrashes' = 0

MCNext ==
  \/ part # "pi" /\ MagiNext /\ OneTurn /\ UNCHANGED <<piVars, part>>
  \/ part = "pi" /\ PiNext /\ UNCHANGED <<magiVars, part>>

MCSpec == MCInit /\ [][MCNext]_<<magiVars, piVars, part>> /\ MagiFairness
=============================================================================
