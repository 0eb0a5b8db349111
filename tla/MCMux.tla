------------------------------- MODULE MCMux -------------------------------
(* Instances of Mux for TLC.                                                 *)
EXTENDS Mux, FiniteSetsExt

Both(n) == [e \in End |-> n]
Two == Both(2)
Four == Both(4)

\* Units per stream: one policy message each way on stream 1, then what the
\* client and the server write on every user stream.
Units(client, server) == [e \in End |-> [s \in Id |->
    IF s = 1 THEN 1 ELSE IF e = "client" THEN client ELSE server]]
Upload1 == Units(1, 0)
Upload2 == Units(2, 0)
Upload3 == Units(3, 0)
Duplex == Units(1, 1)

\* Calls of the owners of the policy stream and of the user streams.
Owners(policy, client, server) == [e \in End |-> [s \in Id |->
    IF s = 1 THEN policy ELSE IF e = "client" THEN client ELSE server]]
Uploading == Owners({}, {"write", "close", "drop"}, {"read"})
Churning == Owners({}, {"write", "drop"}, {"read"})
Streaming == Owners({}, {"write"}, {"read"})
Everything == Owners({}, {"write", "flush", "close", "read"},
                         {"write", "flush", "close", "read", "drop"})
Handshake == Owners({"write", "read"}, {}, {})
HandshakeAndUpload == Owners({"write", "read"}, {"write", "close", "drop"}, {"read"})

\* received_bytes is the number of units in the input queues: what poll_drive
\* charged and poll_read has not credited back, streams dropped by their
\* owners included.
Buffered(st) == LET input == st.input IN
    MapThenSumSet(LAMBDA i : Len(input[i]), DOMAIN input)
ReceivedIsBuffered ==
    \A e \in End :
        conn[e].received_bytes =
            MapThenSumSet(LAMBDA s : Buffered(conn[e].streams[s]), Id)
=============================================================================
