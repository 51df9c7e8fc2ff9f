---------------------------- MODULE MCFlowControl ----------------------------
(***************************************************************************)
(* Two connections of one driver and a file source feed one writer; the    *)
(* messages of a second statement without flow control go to another.      *)
(***************************************************************************)
EXTENDS FlowControl

CONSTANTS m1, m2, m3, m4, m5, tcp1, tcp2, file, tcp, kmsg, net, disk,
          RoomFor  \* log_fifo_size() of the flow-controlled writer

MCDriverOf == (tcp1 :> tcp) @@ (tcp2 :> tcp) @@ (file :> kmsg)
MCInitWindow == (tcp :> 1) @@ (kmsg :> 1)
MCFetchLimit == (tcp1 :> 2) @@ (tcp2 :> 1) @@ (file :> 2)
MCFifo == (net :> RoomFor) @@ (disk :> 1)
MCMembers == [g \in {"central", "local"} |->
                IF g = "central" THEN <<net>> ELSE <<disk>>]

MCRoute == {<<[group |-> "central", flow |-> TRUE]>>,
            <<[group |-> "local", flow |-> FALSE],
              [group |-> "central", flow |-> TRUE]>>}
=============================================================================
