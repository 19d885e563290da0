------------------------------ MODULE MCClient ------------------------------
(***************************************************************************)
(* The client as the constructor of Torrent puts it together: the metafile *)
(* is read, the tracker asked, a peer dialled and messages are exchanged.  *)
(*                                                                         *)
(* The components share no variable, and what one hands to the next does   *)
(* not change how that one behaves.  So that the states of the components  *)
(* add up and do not multiply, each begins only when the one before it is  *)
(* in one chosen final state, and the codec is run by itself or not at all.*)
(***************************************************************************)
EXTENDS MCMetafile, MCTracker, MCMsgCodec, MCPeerIO

ChosenFile == Base(<<"announce", "comment", "info">>, <<"pieces">>, 20, 0)
ChosenBody == [len |-> 2, nul |-> 0, kind |-> "list",
               entries |-> <<FullEntry(1), FullEntry(2)>>]

FileRead    == pc = "done" /\ file = ChosenFile
PeersKnown  ==
    /\ phase = "done" /\ result = 0 /\ curl
    /\ body = ChosenBody /\ received = body.len /\ chunks = 1 /\ requests = 1
NotDialled  == p = NewPeer /\ up /\ rd.pc \in {"poll", "object"}
CodecUnused == codec = "idle"

clientVars == <<metafileVars, trackerVars, codecVars, vars>>

CreateMetafile ==
    /\ phase = "new"
    /\ MetafileNext
    /\ UNCHANGED <<trackerVars, codecVars, vars>>

AskTracker ==
    /\ FileRead
    /\ NotDialled /\ CodecUnused
    /\ TrackerNext
    /\ UNCHANGED <<metafileVars, codecVars, vars>>

UseCodec ==
    /\ FileRead /\ PeersKnown
    /\ NotDialled /\ rd.pc = "poll"
    /\ CodecNext
    /\ UNCHANGED <<metafileVars, trackerVars, vars>>

Connect ==
    /\ FileRead /\ PeersKnown
    /\ CodecUnused
    /\ Next
    /\ UNCHANGED <<metafileVars, trackerVars, codecVars>>

(* The turns of the event loop.                                            *)
TakeMessages ==
    /\ FileRead /\ PeersKnown
    /\ CodecUnused
    /\ Loop
    /\ UNCHANGED <<metafileVars, trackerVars, codecVars>>

ClientInit ==
    /\ MetafileInit
    /\ TrackerInit /\ body = ChosenBody
    /\ CodecInit
    /\ Init

ClientNext == CreateMetafile \/ AskTracker \/ UseCodec \/ Connect

ClientSpec == ClientInit /\ [][ClientNext]_clientVars /\ WF_clientVars(TakeMessages)
=============================================================================
