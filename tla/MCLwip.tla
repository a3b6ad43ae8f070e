-------------------------------- MODULE MCLwip ------------------------------
(***************************************************************************)
(* The protocols of lwIP and the API above them.  TCP: a receiver under    *)
(* segments repeated, reordered and cut anew, a sender under loss and      *)
(* changing windows, connections opened and closed, one after another,     *)
(* between two ends, and checksums.  Pbufs.  Netconn and tcpip_thread, IP  *)
(* and ICMP, UDP, DHCP, reassembly and timeouts.                           *)
(***************************************************************************)
EXTENDS Units

\* A receiver of ten bytes with a window of six
Receive == INSTANCE TcpReceive WITH
  M <- 64, ISS <- 20, N <- 10, TCP_WND <- 6, Mss <- 3, UpdateAt <- 2,
  r <- v1, got <- v2, unread <- v3

\* A sender of four bytes
Send == INSTANCE TcpSend WITH
  N <- 4, MaxWrite <- 2, Mss <- 1, SndBuf <- 3, QueueLen <- 6, Windows <- {0, 2, 4}, MaxRtx <- 1,
  CwndMax <- 6, MaxAcks <- 1, NoDelay <- FALSE,
  p <- v1, net <- v2, acks <- v3, peer <- v4

\* One connection with data both ways
Close == INSTANCE TcpConnection WITH
  DataC <- 1, DataS <- 1, Wnd <- 3, MaxRtx <- 1, Gens <- 1, Ticks <- 5, KeepMax <- 0,
  Aborts <- FALSE, Dups <- TRUE, MaxNet <- 2,
  pcb <- v1, iss <- v2, net <- v3, wrote <- v4

\* Two connections between the same ports
Reopen == INSTANCE TcpConnection WITH
  DataC <- 0, DataS <- 0, Wnd <- 3, MaxRtx <- 1, Gens <- 2, Ticks <- 5, KeepMax <- 0,
  Aborts <- TRUE, Dups <- TRUE, MaxNet <- 2,
  pcb <- v1, iss <- v2, net <- v3, wrote <- v4

\* Odd pieces copied into the place left in a segment
Sums == INSTANCE TcpChecksum WITH
  Bytes <- {1, 255}, Lens <- {1, 3}, N <- 6, Mss <- 3, TcpHdr <- 40000, Pseudo <- 30000,
  Copies <- {TRUE}, More <- TRUE, Resends <- FALSE,
  unsent <- v1, unacked <- v2, oversize <- v3, written <- v4, sent <- v5

\* Even pieces, concatenated and sent again
EvenSums == INSTANCE TcpChecksum WITH
  Bytes <- {1, 255}, Lens <- {2, 4}, N <- 8, Mss <- 4, TcpHdr <- 40000, Pseudo <- 30000,
  Copies <- BOOLEAN, More <- FALSE, Resends <- TRUE,
  unsent <- v1, unacked <- v2, oversize <- v3, written <- v4, sent <- v5

\* Chains of odd pieces
Pieces == INSTANCE TcpChecksum WITH
  Bytes <- {1, 255}, Lens <- {1, 2}, N <- 5, Mss <- 4, TcpHdr <- 40000, Pseudo <- 30000,
  Copies <- BOOLEAN, More <- FALSE, Resends <- TRUE,
  unsent <- v1, unacked <- v2, oversize <- v3, written <- v4, sent <- v5

\* Chains of pool pbufs
Pbuf == INSTANCE Pbuf WITH
  N <- 3, BufSize <- 2, Hdr <- 1, MaxLen <- 2, MaxRef <- 1, Writes <- 1, Types <- {"POOL"},
  Ooseq <- FALSE, Bytes <- {0},
  cell <- v1, held <- v2, want <- v3, oos <- v4

\* All types of pbufs and the reserve of out-of-sequence data
PbufTypes == INSTANCE Pbuf WITH
  N <- 2, BufSize <- 2, Hdr <- 1, MaxLen <- 2, MaxRef <- 2, Writes <- 1,
  Types <- {"POOL", "RAM", "REF"}, Ooseq <- TRUE, Bytes <- {0, 1},
  cell <- v1, held <- v2, want <- v3, oos <- v4

\* Two connections with short mailboxes
Netconn == INSTANCE Netconn WITH
  Conn <- {1, 2}, Pcb <- {1, 2}, MboxSize <- 1, RecvSize <- 1, AcceptSize <- 1, SndBuf <- 2,
  Reply <- 1, Frames <- 1, Syns <- 2,
  mbox <- v1, app <- v2, conn <- v3, pcb <- v4, abox <- v5, pbufs <- v6, syns <- v7

\* One session with replies longer than the send buffer allows
Session == INSTANCE Netconn WITH
  Conn <- {1}, Pcb <- {1}, MboxSize <- 2, RecvSize <- 2, AcceptSize <- 1, SndBuf <- 3, Reply <- 2,
  Frames <- 4, Syns <- 1,
  mbox <- v1, app <- v2, conn <- v3, pcb <- v4, abox <- v5, pbufs <- v6, syns <- v7

\* A client whose link and memory fail
Dhcp == INSTANCE Dhcp WITH
  Addrs <- {1}, Leases <- {5}, Infinite <- 100, TW <- 2, XW <- 2, Tries <- 1, ServerId <- {TRUE},
  Net <- 1, Occupied <- {1}, Env <- {"ticks", "stop", "link", "memory"},
  d <- v1, nif <- v2, sent <- v3, recv <- v4, good <- v5

\* Two addresses, one of them taken
Lease == INSTANCE Dhcp WITH
  Addrs <- {1, 2}, Leases <- {2}, Infinite <- 100, TW <- 3, XW <- 3, Tries <- 1,
  ServerId <- {TRUE}, Net <- 2, Occupied <- {2}, Env <- {"ticks", "nak", "release"},
  d <- v1, nif <- v2, sent <- v3, recv <- v4, good <- v5

\* Two datagrams of three blocks
Frag == INSTANCE IpFrag WITH
  Ids <- {"d1", "d2"}, Size <- 3, Mtus <- {1, 2}, MaxPbufs <- 3, Slots <- 2, MaxAge <- 2,
  list <- v1, count <- v2, broken <- v3, out <- v4

\* The timers of the stack and one of an application
Timeouts == INSTANCE SysTimeouts WITH
  TCP <- 1, REASS <- 3, ARP <- 4, Msecs <- {0, 2, 5}, Late <- 0, Memory <- FALSE,
  list <- v1, active <- v2, pcbs <- v3, left <- v4, fired <- v5

\* Three blocks and two ports
Udp == INSTANCE Udp WITH
  Pcbs <- {"c1", "c2", "c3"}, Addrs <- {1}, Peers <- {11}, PortMin <- 5, PortMax <- 6,
  Ports <- {5}, Reuse <- FALSE,
  pcb <- v1, list <- v2, port <- v3, me <- v4, ev <- v5

\* An interface that changes its address
UdpSend == INSTANCE Udp WITH
  Pcbs <- {"c1", "c2"}, Addrs <- {1, 2}, Peers <- {11}, PortMin <- 5, PortMax <- 6, Ports <- {5},
  Reuse <- FALSE,
  pcb <- v1, list <- v2, port <- v3, me <- v4, ev <- v5

\* Blocks that share a port
UdpReuse == INSTANCE Udp WITH
  Pcbs <- {"c1", "c2"}, Addrs <- {1}, Peers <- {11, 12}, PortMin <- 5, PortMax <- 5, Ports <- {5},
  Reuse <- TRUE,
  pcb <- v1, list <- v2, port <- v3, me <- v4, ev <- v5

\* Datagrams of every kind
Ip == INSTANCE IpInput WITH
  Own <- 5, Addrs <- {0, 5, 6, 7, 9, 14, 15}, Dests <- {5, 6, 7, 9, 14, 15}, Options <- BOOLEAN,
  Chks <- {0, 65527, 65535}, Words <- {0, 65535, 65536, 131070, 131071, 524280, 589815},
  IdRange <- 3,
  up <- v1, ip_id <- v2, job <- v3

\* Echo requests to our own address
Ping == INSTANCE IpInput WITH
  Own <- 5, Addrs <- {6, 9}, Dests <- {5, 6}, Options <- {FALSE},
  Chks <- {0, 65526, 65527, 65528, 65534, 65535},
  Words <- {0, 65535, 65536, 131070, 131071, 524280, 589815}, IdRange <- 3,
  up <- v1, ip_id <- v2, job <- v3

ASSUME MCLwipAssumption ==
  /\ Receive!TcpReceiveAssumption
  /\ Send!TcpSendAssumption
  /\ Close!TcpConnectionAssumption
  /\ Reopen!TcpConnectionAssumption
  /\ Sums!ChecksumAssumption
  /\ EvenSums!ChecksumAssumption
  /\ Pieces!ChecksumAssumption
  /\ Pbuf!PbufAssumption
  /\ PbufTypes!PbufAssumption
  /\ Netconn!NetconnAssumption
  /\ Session!NetconnAssumption
  /\ Dhcp!DhcpAssumption
  /\ Lease!DhcpAssumption
  /\ Frag!IpFragAssumption
  /\ Timeouts!TimeoutsAssumption
  /\ Udp!UdpAssumption
  /\ UdpSend!UdpAssumption
  /\ UdpReuse!UdpAssumption
  /\ Ip!IpAssumption
  /\ Ping!IpAssumption

Init ==
  \/ On("receive") /\ Receive!Init /\ Off3
  \/ On("send") /\ Send!Init /\ Off4
  \/ On("close") /\ Close!Init /\ Off4
  \/ On("reopen") /\ Reopen!Init /\ Off4
  \/ On("sums") /\ Sums!Init /\ Off5
  \/ On("evenSums") /\ EvenSums!Init /\ Off5
  \/ On("pieces") /\ Pieces!Init /\ Off5
  \/ On("pbuf") /\ Pbuf!Init /\ Off4
  \/ On("pbufTypes") /\ PbufTypes!Init /\ Off4
  \/ On("netconn") /\ Netconn!Init /\ Off7
  \/ On("session") /\ Session!Init /\ Off7
  \/ On("dhcp") /\ Dhcp!Init /\ Off5
  \/ On("lease") /\ Lease!Init /\ Off5
  \/ On("frag") /\ Frag!Init /\ Off4
  \/ On("timeouts") /\ Timeouts!Init /\ Off5
  \/ On("udp") /\ Udp!Init /\ Off5
  \/ On("udpSend") /\ UdpSend!Init /\ Off5
  \/ On("udpReuse") /\ UdpReuse!Init /\ Off5
  \/ On("ip") /\ Ip!Init /\ Off3
  \/ On("ping") /\ Ping!Init /\ Off3

Next ==
  \/ On("receive") /\ Receive!Next /\ Same3
  \/ On("send") /\ Send!Next /\ Same4
  \/ On("close") /\ Close!Next /\ Same4
  \/ On("reopen") /\ Reopen!Next /\ Same4
  \/ On("sums") /\ Sums!Next /\ Same5
  \/ On("evenSums") /\ EvenSums!Next /\ Same5
  \/ On("pieces") /\ Pieces!Next /\ Same5
  \/ On("pbuf") /\ Pbuf!Next /\ Same4
  \/ On("pbufTypes") /\ PbufTypes!Next /\ Same4
  \/ On("netconn") /\ Netconn!Next /\ Same7
  \/ On("session") /\ Session!Next /\ Same7
  \/ On("dhcp") /\ Dhcp!Next /\ Same5
  \/ On("lease") /\ Lease!Next /\ Same5
  \/ On("frag") /\ Frag!Next /\ Same4
  \/ On("timeouts") /\ Timeouts!Next /\ Same5
  \/ On("udp") /\ Udp!Next /\ Same5
  \/ On("udpSend") /\ UdpSend!Next /\ Same5
  \/ On("udpReuse") /\ UdpReuse!Next /\ Same5
  \/ On("ip") /\ Ip!Next /\ Same3
  \/ On("ping") /\ Ping!Next /\ Same3

Spec == Init /\ [][Next]_<<unit, pool>>

\* The receiving half of TCP and its window, with segments lost, repeated,
\* reordered and cut anew.
\*  - tcp_receive: what the application gets is the stream that was sent,
\*    without a gap, a repetition or a change (sequence numbers that do not
\*    wrap: where the right edge of the window wraps the code breaks it, see
\*    README).
\*  - tcp_receive acknowledges only what it has passed on.
\*  - The queue of out-of-sequence segments is sorted and free of overlaps,
\*    however segments were cut.
\*  - tcp_recved: the window and the bytes that the application still holds
\*    add up to TCP_WND.
\*  - tcp_update_rcv_ann_wnd: a peer that filled the window is told when
\*    there is room again.
\*  - The right edge of the announced window never moves back.
ReceiverSound ==
  /\ [](On("receive") => /\ Receive!TypeOK
                         /\ Receive!StreamIntact
                         /\ Receive!AckedIsDelivered
                         /\ Receive!QueueSorted
                         /\ Receive!WindowAccounted
                         /\ Receive!WindowReopened)
  /\ [][On("receive") => Receive!EdgeAdvances]_<<unit, pool>>

\* tcp_out.c, with segments and acknowledgements lost and windows that
\* close.
\*  - tcp_output, tcp_rexmit: every byte that is not acknowledged is in
\*    unsent or unacked, through retransmissions and acknowledgements that
\*    overtake them.
\*  - unacked and unsent are in the order of their sequence numbers and
\*    everything in the first precedes the second.
\*  - snd_buf and snd_queuelen are what the queues leave free.
\*  - Nothing is sent beyond the window that the peer announced, a probe of
\*    one byte excepted.
\*  - While something is unacknowledged or the window is closed on waiting
\*    data, the retransmission or the persist timer runs.
\*  - tcp_write, tcp_output_segment: a segment is sent with the checksum of
\*    its header and its bytes, first and again; odd pieces only in the
\*    place left in its last pbuf (odd pieces in pbufs of their own break
\*    it, see the run checksum).
\*  - inet_chksum_pbuf, inet_chksum_pseudo: the sum over a chain does not
\*    depend on where the bytes are cut.
\*  - tcp_write: the place left in the last pbuf is part of the place left
\*    in the last unsent segment.
SenderKeepsAll ==
  /\ On("send") => /\ Send!TypeOK
                   /\ Send!NothingForgotten
                   /\ Send!QueuesOrdered
                   /\ Send!BufferAccounted
                   /\ Send!WithinWindow
                   /\ Send!TimerRuns
  /\ On("sums") => Sums!ChecksumRight
  /\ On("evenSums") => EvenSums!ChecksumRight
  /\ On("pieces") => /\ Pieces!ChainsSummed
                     /\ Pieces!OversizeFits

\* Two ends of a connection, over a network that loses and repeats segments.
\*  - tcp_process: two ends that are both connected agree on the connection
\*    and its numbers, although segments of an earlier one are late or
\*    repeated.
\*  - An application that sees the end of the stream has got all of it
\*    (tcp_process, FIN).
\*  - tcp_close_shutdown: a close with data that was not read is a reset to
\*    the peer, never an orderly end.
EndsAgree ==
  /\ On("reopen") => Reopen!Agreement
  /\ On("close") => /\ Close!TypeOK
                    /\ Close!EofComplete
                    /\ Close!UnreadNotHidden

\* pbuf.c, after any order of operations on shared chains.
\*  - pbuf_ref, pbuf_free: every reference is counted, so a cell is freed
\*    once, with its last reference.
\*  - tot_len of a cell is the sum of the lengths from it to the end of its
\*    packet.
\*  - What was written to a packet is what is read, across cells, headers
\*    added and taken away, and trimming.
\*  - pbuf_cat, pbuf_chain and pbuf_dechain keep the packets that they join
\*    and part.
\*  - pbuf_pool_is_empty: a request to free out-of-sequence data is pending
\*    exactly while its message is in the mailbox.
PbufsSound ==
  /\ On("pbuf") => /\ Pbuf!RefsCounted
                   /\ Pbuf!TotalsRight
                   /\ Pbuf!Contents
                   /\ Pbuf!PartsRight
  /\ On("pbufTypes") => /\ PbufTypes!TypeOK
                        /\ PbufTypes!RefsCounted
                        /\ PbufTypes!TotalsRight
                        /\ PbufTypes!Contents
                        /\ PbufTypes!PartsRight
                        /\ PbufTypes!PendingIsQueued

\* Netconns, control blocks and pbufs between tcp_thread and tcpip_thread:
\* each has one owner to the end.
\*  - api_msg.c: a callback of a control block never reaches a netconn that
\*    has been freed.
\*  - Received data is in a mailbox, refused, with the application or freed:
\*    none is lost when sessions end in any of their ways.
\*  - A call that waits in tcpip_thread has somebody who will end it: the
\*    callbacks of its control block or a message.
NetconnOwnership ==
  /\ On("netconn") => /\ Netconn!CallbackValid
                      /\ Netconn!PbufsAccounted
  /\ On("session") => /\ Session!TypeOK
                      /\ Session!NotOrphaned

\* timers.c: the list of relative times under insertions, removals and the
\* handlers' own timeouts.
\*  - sys_timeout, sys_untimeout: what the list makes an entry wait is the
\*    time it has left.
\*  - tcp_timer_needed: each handler is in the list at most once and the
\*    cyclic ones always.
\*  - The TCP timer runs while there are connections (memory for its
\*    timeout; see README).
TimeoutsSound ==
  On("timeouts") => /\ Timeouts!TypeOK
                    /\ Timeouts!NotLate
                    /\ Timeouts!OneEach
                    /\ Timeouts!TimerRuns

\* What tcpip_thread has for tcp_thread reaches it.
\*  - op_completed is signalled once for every call of the API and only for
\*    a call that waits.
\*  - err_tcp: a reset reaches the application that waits in netconn_recv.
\*  - netconn_recv gives back the window for all that it took, or the
\*    connection is over.
\*  - The application gets the frames of a session in order and each once.
NetconnDelivers ==
  /\ [](On("session") => /\ Session!NoStraySignal
                         /\ Session!ErrorWakes
                         /\ Session!WindowReturned)
  /\ [][On("session") => Session!FramesInOrder]_<<unit, pool>>

\* ip_frag.c at its limits.
\*  - ip_reass_pbufcount is the number of fragments held.
\*  - ip_reass: a datagram that is passed on has all of its bytes, fragments
\*    in any order and repeated (datagrams of three blocks; from four on the
\*    code breaks it, see README).
\*  - ip_reass_remove_oldest_datagram makes room without touching the
\*    datagram that the fragment belongs to.
FragSound ==
  /\ [](On("frag") => /\ Frag!TypeOK
                      /\ Frag!CountRight
                      /\ Frag!DeliveredWhole)
  /\ [][On("frag") => Frag!OwnKept]_<<unit, pool>>

\* IP, ICMP, UDP and the DHCP client above it.
\*  - ip_input, icmp_input: on every path the pbuf that came in is freed
\*    once or taken over by one layer, and pbufs allocated for an answer are
\*    freed.
\*  - icmp_send_response: an error message answers only what came from one
\*    host to one host.
\*  - icmp_input: the reply to a request for our own address, without
\*    options, passes the checks of a receiver: source, header checksum,
\*    ICMP checksum.
\*  - ip_output_if: the checksum built up with the header is the one of its
\*    words.
\*  - udp_pcbs holds the blocks that are bound, each once, although
\*    reception moves them.
\*  - udp_bind: without SO_REUSE no two blocks have the same address and
\*    port.
\*  - udp_sendto sends with the block's own port and the address that the
\*    interface has now.
\*  - udp_input: a datagram reaches a connected block of its sender before
\*    any other, whatever the order of the list.
\*  - dhcp.c: a client that waits for an answer has a timer running, also
\*    when its request could not be sent (offers that name their server; see
\*    README).
\*  - An address is used only when a server has granted it in the current
\*    transaction and nobody else has it (a link that stays; see README).
DatagramsSound ==
  /\ [](/\ On("ip") => /\ Ip!Released
                       /\ Ip!ErrorsToHosts
                       /\ Ip!HeaderSummed
        /\ On("ping") => Ping!ReplyAcceptable
        /\ On("udp") => /\ Udp!TypeOK
                        /\ Udp!ListIntact
                        /\ Udp!NoOverlap
        /\ On("dhcp") => /\ Dhcp!TypeOK
                         /\ Dhcp!NeverStuck
        /\ On("lease") => Lease!OnlyGranted)
  /\ [][/\ On("udpSend") => UdpSend!SentAsBound
        /\ On("udpReuse") => UdpReuse!ToItsBlock]_<<unit, pool>>
=============================================================================
