-------------------------- MODULE MCSourceAdapters --------------------------
(***************************************************************************)
(* The instance of SourceAdapters that TLC checks: a node and its two pods *)
(* of one runtime.                                                         *)
(***************************************************************************)
EXTENDS SourceAdapters

MCNodeOf == [p \in Pods |-> "n1"]
MCChanges ==
    {[object |-> "n1", ready |-> FALSE, deleted |-> FALSE],
     [object |-> "n1", ready |-> FALSE, deleted |-> TRUE],
     [object |-> "p1", ready |-> TRUE, deleted |-> FALSE],
     [object |-> "p1", ready |-> FALSE, deleted |-> FALSE],
     [object |-> "p1", ready |-> FALSE, deleted |-> TRUE],
     [object |-> "p2", ready |-> FALSE, deleted |-> FALSE]}
MCFound ==
    <<[object |-> "n1", ready |-> TRUE, deleted |-> FALSE],
      [object |-> "p1", ready |-> TRUE, deleted |-> FALSE],
      [object |-> "p2", ready |-> TRUE, deleted |-> FALSE]>>
MCRuntimeOf == [p \in Pods |-> "r1"]
=============================================================================
