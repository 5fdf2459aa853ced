---------------------------- MODULE MCSyncChannel ----------------------------
(***************************************************************************)
(* Instances of SyncChannel: two threads with two channels between them,   *)
(* a1-b1 and a2-b2.                                                        *)
(***************************************************************************)
EXTENDS SyncChannel, TLC

CONSTANTS t1, t2, a1, a2, b1, b2

TwoChannelsEnds == t1 :> <<a2, a1>> @@ t2 :> <<b1, b2>>
TwoChannelsPeer == a1 :> b1 @@ b1 :> a1 @@ a2 :> b2 @@ b2 :> a2

\* One end that may Send while it Sends, or one Send of each of three ends.
NestedOrRestricted ==
    {a1 :> 2 @@ a2 :> 0 @@ b1 :> 0 @@ b2 :> 1, a1 :> 0 @@ a2 :> 1 @@ b1 :> 1 @@ b2 :> 1}
=============================================================================
