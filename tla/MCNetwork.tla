------------------------------- MODULE MCNetwork -------------------------------
(***************************************************************************)
(* The network devices and backends for TLC.  `which' says what a behaviour  *)
(* is about; the variables of the others keep their initial values:          *)
(*   "few"   the VirtIO device, two chains in either direction;              *)
(*   "wrap"  the VirtIO device, enough transmit chains to take the u16 index *)
(*           once round its (reduced) range;                                 *)
(*   "emac"  the D1 EMAC and its polling;                                    *)
(*   "relay" the WebTransport backend.                                       *)
(***************************************************************************)
EXTENDS VirtioNet, Emac, WebTransport

VARIABLE which

MCPostsFew == [q \in Queues |-> 2]
Wrap == INSTANCE VirtioNet WITH
    TxKinds <- {"packet", "short"}, RxKinds <- {"buffer"}, MaxPackets <- 0,
    MaxResets <- 0, MaxPosts <- [q \in Queues |-> IF q = "tx" THEN 5 ELSE 1]

NetInit ==
    /\ which \in {"few", "wrap", "emac", "relay"}
    /\ Init
    /\ EmacInit /\ (which = "emac" \/ vm = CHOOSE k \in Kinds : TRUE)
    /\ WtInit /\ (which = "relay" \/ build = "native")

NetNext ==
    /\ UNCHANGED which
    /\ \/ which = "few" /\ Next /\ UNCHANGED <<emacVars, wtVars>>
       \/ which = "wrap" /\ Wrap!Next /\ UNCHANGED <<emacVars, wtVars>>
       \/ which = "emac" /\ EmacNext /\ UNCHANGED <<vars, wtVars>>
       \/ which = "relay" /\ WtNext /\ UNCHANGED <<vars, emacVars>>

netVars == <<which, vars, emacVars, wtVars>>

(* The fairness of VirtioNet, Emac and WebTransport.                           *)
NetSpec ==
    /\ NetInit /\ [][NetNext]_netVars
    /\ WF_netVars(which \in {"few", "wrap"} /\ InCall /\ UNCHANGED <<which, emacVars, wtVars>>)
    /\ SF_netVars(which \in {"few", "wrap"} /\ Poll /\ UNCHANGED <<which, emacVars, wtVars>>)
    /\ SF_netVars(which \in {"few", "wrap"} /\ RxPacket /\ UNCHANGED <<which, emacVars, wtVars>>)
    /\ WF_netVars(which = "emac" /\ (WasmPoll \/ PollNetwork) /\ UNCHANGED <<which, vars, wtVars>>)
    /\ WF_netVars(which = "relay" /\ Lifecycle /\ UNCHANGED <<which, vars, emacVars>>)
    /\ WF_netVars(/\ which = "relay" /\ Assigned \in air /\ Receive(Assigned, FALSE)
                  /\ UNCHANGED <<which, vars, emacVars>>)
================================================================================
