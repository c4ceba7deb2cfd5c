----------------------------- MODULE TunnelPipe ------------------------------
(***************************************************************************)
(* One TCP connection through the tunnel, from the user in the cluster to  *)
(* the backend: handleTCP of the server (internal/tunnel/server.go), which *)
(* names the target in the first line of a stream, and handleStream of the *)
(* client (internal/tunnel/client.go), which dials it.  Each then copies   *)
(* both directions and closes everything at the first end of a copy.       *)
(*                                                                         *)
(* A byte makes three hops: 1, 2, 3 from the user to the backend, 4, 5, 6  *)
(* back.  Hops 2 and 5 are the stream, the others TCP; hops h and 7 - h    *)
(* are the two directions of one connection.                               *)
(*                                                                         *)
(*     user  -1->  server  -2->  client  -3->  backend                     *)
(*     user  <-6-  server  <-5-  client  <-4-  backend                     *)
(*                                                                         *)
(* The copy that reads hop h writes hop h + 1.  Which session a connection *)
(* gets is the subject of TunnelSessions.                                  *)
(***************************************************************************)
EXTENDS Integers, Sequences

CONSTANTS Addresses,  \* how long the target's address may be
          MaxHeader,  \* the longest address that the client reads: 256
          MaxBytes,   \* bound: bytes that either peer sends
          BufSize,    \* what a copy reads at once
          TcpWindow,  \* with so many bytes unread a TCP connection takes no more
          Window      \* with so many bytes unread a stream takes no more

ASSUME SizesAssumption ==
    /\ Addresses \subseteq Nat \ {0} /\ MaxHeader \in Nat /\ MaxBytes \in Nat
    /\ BufSize \in Nat \ {0}
    /\ TcpWindow \in Nat \ {0} /\ Window \in Nat \ {0}

VARIABLES
    address,  \* the length of the target's address
    hop,      \* what is under way, and whether either end has been closed
    server,   \* where handleTCP is
    client,   \* where handleStream is
    header,   \* the length of targetAddr, as far as it was read
    copy,     \* the four goroutines: io.Copy from one hop to the next
    sent,     \* how many bytes each peer has sent
    got,      \* the bytes each peer has received
    session   \* whether the session of the stream is alive

vars == <<address, hop, server, client, header, copy, sent, got, session>>

Hops == 1..6
Copies == {1, 5, 2, 4}        \* the server's two, the client's two
Peers == {"user", "backend"}
Other(p) == IF p = "user" THEN "backend" ELSE "user"
Out(p) == IF p = "user" THEN 1 ELSE 4
In(p) == 7 - Out(p)

Newline == 0
Char == -1                    \* any other byte of the first line
Byte == Int                   \* a peer's bytes are 1, 2, 3, ...

\* What a hop holds; its writer may have closed it, or the connection was reset;
\* its reader may be gone.
Hop == [data : Seq(Byte), end : {"open", "fin", "reset"}, reader : {"there", "gone"}]
Copy == [state : {"off", "on", "done"}, buf : Seq(Byte)]

TypeOK ==
    /\ address \in Addresses /\ hop \in [Hops -> Hop]
    /\ server \in {"header", "piping", "returned"}
    /\ client \in {"header", "dial", "piping", "returned"}
    /\ header \in 0..(MaxHeader + 1) /\ copy \in [Copies -> Copy]
    /\ sent \in [Peers -> 0..MaxBytes] /\ got \in [Peers -> Seq(Byte)]
    /\ session \in {"alive", "lost"}

Init ==
    /\ address \in Addresses
    /\ hop = [h \in Hops |-> [data |-> <<>>, end |-> "open", reader |-> "there"]]
    /\ server = "header" /\ client = "header" /\ header = 0
    /\ copy = [c \in Copies |-> [state |-> "off", buf |-> <<>>]]
    /\ sent = [p \in Peers |-> 0] /\ got = [p \in Peers |-> <<>>]
    /\ session = "alive"

-----------------------------------------------------------------------------
(* Connections. *)

\* What a Read of n bytes takes and what it leaves for the next one.  The stream
\* is carried by messages of a WebSocket, which WebSocketConn reads one after the
\* other, each to its end: their boundaries do not show.
Taken(d, n) == SubSeq(d, 1, IF n < Len(d) THEN n ELSE Len(d))
Rest(d, n) == SubSeq(d, n + 1, Len(d))

\* A reset may overtake what is under way.
Reset(h) == {[h EXCEPT !.data = SubSeq(h.data, 1, n), !.end = "reset"] : n \in 0..Len(h.data)}

\* Whether a Write to a hop comes to its end, and what becomes of the hops.  If the
\* reader of a TCP connection is gone, the answer is a reset.
Writable(h) ==
    \/ hop[h].reader = "gone"
    \/ Len(hop[h].data) < IF h \in {2, 5} THEN Window ELSE TcpWindow
Written(h, b) ==
    IF hop[h].reader = "gone"
    THEN {[hop EXCEPT ![7 - h] = x] : x \in Reset(hop[7 - h])}
    ELSE {[hop EXCEPT ![h].data = @ \o b]}

\* Close of the end of a TCP connection that writes hop h, in hops f.  With
\* bytes unread, the connection is reset.
Closed(f, h) ==
    LET r == [f[7 - h] EXCEPT !.data = <<>>, !.reader = "gone"]
        ws == IF f[h].end # "open" THEN {f[h]}
              ELSE IF f[7 - h].data = <<>> THEN {[f[h] EXCEPT !.end = "fin"]}
              ELSE Reset(f[h])
    IN {[f EXCEPT ![h] = w, ![7 - h] = r] : w \in ws}

\* Close of a stream lets its other direction be read on.
StreamClosed(f, h) == IF f[h].end = "open" THEN [f EXCEPT ![h].end = "fin"] ELSE f

-----------------------------------------------------------------------------
(* The server and the client. *)

\* The deferred Closes.  Goroutines that still copy go on until they notice.
ServerReturns ==
    /\ server' = "returned" /\ hop' \in Closed(StreamClosed(hop, 2), 6)

ClientReturns(dialled) ==
    /\ client' = "returned"
    /\ hop' \in IF dialled THEN Closed(StreamClosed(hop, 5), 3) ELSE {StreamClosed(hop, 5)}

Started(cs) == [c \in Copies |-> IF c \in cs THEN [copy[c] EXCEPT !.state = "on"] ELSE copy[c]]

Header == Append([i \in 1..address |-> Char], Newline)

\* handleTCP writes the header and starts its copies.
WriteHeader ==
    /\ server = "header"
    /\ \/ /\ hop[2].end = "open" /\ hop' \in Written(2, Header)
          /\ server' = "piping" /\ copy' = Started({1, 5})
       \/ hop[2].end # "open" /\ ServerReturns /\ UNCHANGED copy
    /\ UNCHANGED <<address, client, header, sent, got, session>>

\* Mutant: the header is read through a buffer, which is then dropped.
Buffered == BufSize + MaxHeader

\* The header is read byte by byte.
HeaderRead == 1

\* Mutant: the length is not limited.
NeverTooLong == FALSE

\* The check of the length, made for every byte but the newline.
TooLong == header + 1 > MaxHeader

\* handleStream reads the header until the newline.
ReadHeader ==
    /\ client = "header"
    /\ LET d == hop[2].data
           b == Taken(d, HeaderRead)
           newline == \E i \in DOMAIN b : b[i] = Newline
       IN
       \/ /\ d # <<>> /\ newline
          /\ hop' = [hop EXCEPT ![2].data = Rest(d, HeaderRead)]
          /\ client' = "dial" /\ UNCHANGED header
       \/ /\ d # <<>> /\ ~newline /\ ~TooLong
          /\ hop' = [hop EXCEPT ![2].data = Rest(d, HeaderRead)]
          /\ header' = header + 1 /\ UNCHANGED client
       \/ /\ d # <<>> /\ ~newline /\ TooLong
          /\ header' = header + 1 /\ ClientReturns(FALSE)
       \/ /\ d = <<>> /\ hop[2].end # "open"
          /\ ClientReturns(FALSE) /\ UNCHANGED header
    /\ UNCHANGED <<address, server, copy, sent, got, session>>

\* net.Dial, which may fail.
Dial ==
    /\ client = "dial"
    /\ \/ client' = "piping" /\ copy' = Started({2, 4}) /\ UNCHANGED hop
       \/ ClientReturns(FALSE) /\ UNCHANGED copy
    /\ UNCHANGED <<address, server, header, sent, got, session>>

Ended(c) == copy' = [copy EXCEPT ![c] = [state |-> "done", buf |-> <<>>]]

\* io.Copy reads.  After the last byte, or on a connection closed on this side, it ends.
CopyReads(c) ==
    /\ copy[c].state = "on" /\ copy[c].buf = <<>>
    /\ LET d == hop[c].data IN
       \/ /\ d # <<>> /\ hop[c].reader = "there"
          /\ copy' = [copy EXCEPT ![c].buf = Taken(d, BufSize)]
          /\ hop' = [hop EXCEPT ![c].data = Rest(d, BufSize)]
       \/ /\ d = <<>> /\ (hop[c].end # "open" \/ hop[c].reader = "gone")
          /\ Ended(c) /\ UNCHANGED hop
    /\ UNCHANGED <<address, server, client, header, sent, got, session>>

\* io.Copy writes what it has read; a Write on a connection that is closed on
\* this side fails, and one that is closed on the other may.
CopyWrites(c) ==
    /\ copy[c].state = "on" /\ copy[c].buf # <<>>
    /\ LET h == c + 1 IN
       \/ hop[h].end # "open" /\ Ended(c) /\ UNCHANGED hop
       \/ /\ hop[h].end = "open" /\ Writable(h) /\ hop' \in Written(h, copy[c].buf)
          /\ \/ copy' = [copy EXCEPT ![c].buf = <<>>]
             \/ hop[h].reader = "gone" /\ Ended(c)
    /\ UNCHANGED <<address, server, client, header, sent, got, session>>

\* Mutants: both copies must have ended; an idle moment is taken for an end.
BothCopies(cs) == \A c \in cs : copy[c].state = "done"
IdleIsEnd(cs) == \A c \in cs : copy[c].buf = <<>>

\* The first value of errChan.
FirstEnd(cs) == \E c \in cs : copy[c].state = "done"

ServerDone ==
    /\ server = "piping" /\ FirstEnd({1, 5}) /\ ServerReturns
    /\ UNCHANGED <<address, client, header, copy, sent, got, session>>

ClientDone ==
    /\ client = "piping" /\ FirstEnd({2, 4}) /\ ClientReturns(TRUE)
    /\ UNCHANGED <<address, server, header, copy, sent, got, session>>

-----------------------------------------------------------------------------
(* The peers and the session. *)

Connected(p) == p = "user" \/ copy[2].state # "off"

Send(p, n) ==
    /\ Connected(p) /\ sent[p] + n <= MaxBytes
    /\ hop[Out(p)].end = "open" /\ Writable(Out(p))
    /\ hop' \in Written(Out(p), [i \in 1..n |-> sent[p] + i])
    /\ sent' = [sent EXCEPT ![p] = @ + n]
    /\ UNCHANGED <<address, server, client, header, copy, got, session>>

Receive(p) ==
    /\ hop[In(p)].data # <<>>
    /\ got' = [got EXCEPT ![p] = Append(@, Head(hop[In(p)].data))]
    /\ hop' = [hop EXCEPT ![In(p)].data = Tail(@)]
    /\ UNCHANGED <<address, server, client, header, copy, sent, session>>

\* A peer says that it has sent everything, and reads on.
Shutdown(p) ==
    /\ Connected(p) /\ hop[Out(p)].end = "open"
    /\ hop' = [hop EXCEPT ![Out(p)].end = "fin"]
    /\ UNCHANGED <<address, server, client, header, copy, sent, got, session>>

Close(p) ==
    /\ Connected(p) /\ hop[In(p)].reader = "there" /\ hop' \in Closed(hop, Out(p))
    /\ UNCHANGED <<address, server, client, header, copy, sent, got, session>>

\* The session is closed, and its streams with it.
LoseSession ==
    /\ session = "alive" /\ session' = "lost"
    /\ \E x \in Reset(hop[2]), y \in Reset(hop[5]) : hop' = [hop EXCEPT ![2] = x, ![5] = y]
    /\ UNCHANGED <<address, server, client, header, copy, sent, got>>

Next ==
    \/ WriteHeader \/ ReadHeader \/ Dial \/ ServerDone \/ ClientDone \/ LoseSession
    \/ \E c \in Copies : CopyReads(c) \/ CopyWrites(c)
    \/ \E p \in Peers :
          Receive(p) \/ Shutdown(p) \/ Close(p) \/ \E n \in 1..MaxBytes : Send(p, n)

Spec == Init /\ [][Next]_vars

\* Goroutines go on, the kernel gives up a connection it cannot make, and a peer
\* that is there receives.
FairSpec ==
    /\ Spec /\ WF_vars(WriteHeader) /\ WF_vars(ReadHeader) /\ WF_vars(Dial)
    /\ WF_vars(ServerDone) /\ WF_vars(ClientDone)
    /\ \A c \in Copies : WF_vars(CopyReads(c)) /\ WF_vars(CopyWrites(c))
    /\ \A p \in Peers : WF_vars(Receive(p))

-----------------------------------------------------------------------------
(* Properties. *)

\* What a peer receives are the first bytes that the other one has sent, in order:
\* the header is taken off exactly, and neither the boundaries of messages nor the
\* closing of connections lose, double or reorder a byte before others that
\* arrive (client.go:85-99, conn.go:45-61).
Ordered == \A p \in Peers :
    /\ Len(got[p]) <= sent[Other(p)]
    /\ \A i \in DOMAIN got[p] : got[p][i] = i

\* A peer that reads an end of file has everything the other one sent, if it has not
\* closed its own direction, if its own bytes have all arrived and if the session
\* lasted.  Without these a peer may take part of an answer for the whole: the first
\* copy that ends closes both directions (server.go:156, client.go:122), also when
\* it is the request that was shut down or could not be delivered.
NoTruncation ==
    \A p \in Peers :
        (/\ hop[In(p)].data = <<>> /\ hop[In(p)].end = "fin"
         /\ hop[Out(p)].end = "open" /\ Len(got[Other(p)]) = sent[p] /\ session = "alive")
            => Len(got[p]) = sent[Other(p)]

\* Once a peer has closed or shut down its connection, or the session is lost, or the
\* target cannot be dialled, both handlers return and none of their goroutines is
\* left (server.go:119-157, client.go:77-123).
Over ==
    /\ server = "returned" /\ client = "returned"
    /\ \A c \in Copies : copy[c].state # "on"
Ends ==
    (\/ \E p \in Peers : hop[Out(p)].end # "open"
     \/ session = "lost" \/ client = "returned") ~> Over
=============================================================================
