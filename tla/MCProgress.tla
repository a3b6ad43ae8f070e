----------------------------- MODULE MCProgress -----------------------------
(***************************************************************************)
(* What must happen in the end, in the kernel, the stack and the driver.   *)
(* The fairness is that of each component's module; as a behaviour is about *)
(* one unit only, the conditions of all units share a few formulas.        *)
(***************************************************************************)
EXTENDS Units

\* The middle task computes and takes nothing
Hog == INSTANCE KernelMutex WITH
  Task <- {"low", "mid", "high"}, BasePriority <- [low |-> 1, mid |-> 2, high |-> 3],
  Mutexes <- {"m"}, Recursive <- {}, Semaphores <- {}, uxMaxCount <- 1,
  Waits <- {"timed", "forever"}, Uses <- [low |-> {"m"}, mid |-> {}, high |-> {"m"}],
  HoldAndWait <- {}, MaxDepth <- 1,
  uxPriority <- v1, uxMutexesHeld <- v2, count <- v3, pxMutexHolder <- v4, depth <- v5,
  cTxLock <- v6, xTasksWaitingToReceive <- v7, sched <- v8, at <- v9, want <- v10, wait <- v11,
  expired <- v12, inherited <- v13

\* Three tasks that meet again and again
Meeting == INSTANCE EventGroups WITH
  Task <- {"t1", "t2", "t3"}, Bit <- {"b1", "b2", "b3"}, Timed <- FALSE, Deletes <- FALSE,
  Pends <- 0, Rounds <- 6,
  uxEventBits <- v1, waiters <- v2, item <- v3, at <- v4, pended <- v5, alive <- v6, met <- v7,
  ret <- v8

\* A writer and a reader that wait without end
Pipe == INSTANCE StreamBuffer WITH
  Size <- 4, Prefix <- 0, SendSizes <- {2}, ReadSizes <- {2}, Triggers <- {1, 2, 4}, Timed <- FALSE,
  s <- v1, w <- v2, r <- v3, note <- v4, q <- v5

\* One session of one frame
Session == INSTANCE Netconn WITH
  Conn <- {1}, Pcb <- {1}, MboxSize <- 1, RecvSize <- 1, AcceptSize <- 1, SndBuf <- 3, Reply <- 2,
  Frames <- 1, Syns <- 1,
  mbox <- v1, app <- v2, conn <- v3, pcb <- v4, abox <- v5, pbufs <- v6, syns <- v7

\* A sender of two bytes
Send == INSTANCE TcpSend WITH
  N <- 2, MaxWrite <- 2, Mss <- 1, SndBuf <- 2, QueueLen <- 6, Windows <- {0, 2}, MaxRtx <- 1,
  CwndMax <- 6, MaxAcks <- 1, NoDelay <- FALSE,
  p <- v1, net <- v2, acks <- v3, peer <- v4

\* A connection that is closed
Closing == INSTANCE TcpConnection WITH
  DataC <- 0, DataS <- 0, Wnd <- 3, MaxRtx <- 1, Gens <- 1, Ticks <- 5, KeepMax <- 0,
  Aborts <- FALSE, Dups <- FALSE, MaxNet <- 1,
  pcb <- v1, iss <- v2, net <- v3, wrote <- v4

\* Two hosts that may not answer
Arp == INSTANCE Etharp WITH
  N <- 2, Hosts <- {"h1", "h2"}, Gateway <- "h1", Macs <- {"m1"}, Packets <- {"p1"}, MaxAge <- 4,
  Rerequest <- 3, MaxPending <- 2, Features <- {"memory"},
  arp <- v1, hint <- v2, out <- v3, heard <- v4

\* Datagrams that may stay incomplete
Frag == INSTANCE IpFrag WITH
  Ids <- {"d1", "d2"}, Size <- 3, Mtus <- {1, 2}, MaxPbufs <- 3, Slots <- 2, MaxAge <- 2,
  list <- v1, count <- v2, broken <- v3, out <- v4

\* Timers under a stream of messages
Timeouts == INSTANCE SysTimeouts WITH
  TCP <- 1, REASS <- 2, ARP <- 3, Msecs <- {2}, Late <- 1, Memory <- FALSE,
  list <- v1, active <- v2, pcbs <- v3, left <- v4, fired <- v5

\* The receive ring
Rx == INSTANCE EmacRx WITH
  N <- 2, Bufs <- {"b1", "b2", "b3"}, NoBuf <- "none", intMask <- {"CE", "RE"}, Statuses <- {{}},
  Frames <- 1, MboxSize <- 1,
  desc <- v1, ring <- v2, rx <- v3, sem <- v4, ints <- v5, isr <- v6, mbox <- v7, heap <- v8,
  others <- v9, dma <- v10, content <- v11, sent <- v12, got <- v13

\* The transmit ring, with the priorities of the tasks
Tx == INSTANCE EmacTx WITH
  N <- 2, Frames <- 2, Clens <- {1, 2}, Slow <- TRUE, Priority <- TRUE,
  desc <- v1, ring <- v2, out <- v3, clean <- v4, mutex <- v5, count <- v6, sem <- v7, ints <- v8,
  isr <- v9, dma <- v10, refs <- v11, wire <- v12

\* The link under a stream of frames
Link == INSTANCE LinkMonitor WITH
  Modes <- [fast : {TRUE}, full : BOOLEAN], Off <- [fast |-> FALSE], TCPIP_MBOX_SIZE <- 2,
  Memory <- FALSE, Changes <- 2,
  phy <- v1, seen <- v2, changes <- v3, mac <- v4, led <- v5, netif <- v6, mbox <- v7,
  started <- v8, prt_ip <- v9, pc <- v10

ASSUME MCProgressAssumption ==
  /\ Hog!MutexAssumption
  /\ Pipe!SizeAssumption
  /\ Session!NetconnAssumption
  /\ Send!TcpSendAssumption
  /\ Closing!TcpConnectionAssumption
  /\ Arp!EtharpAssumption
  /\ Frag!IpFragAssumption
  /\ Timeouts!TimeoutsAssumption
  /\ Rx!RxAssumption
  /\ Tx!TxAssumption
  /\ Link!LinkAssumption

Init ==
  \/ On("hog") /\ Hog!Init /\ Off13
  \/ On("meet") /\ Meeting!Init /\ Off8
  \/ On("flow") /\ Pipe!Init /\ Off5
  \/ On("session") /\ Session!Init /\ Off7
  \/ On("send") /\ Send!Init /\ Off4
  \/ On("close") /\ Closing!Init /\ Off4
  \/ On("arp") /\ Arp!Init /\ Off4
  \/ On("frag") /\ Frag!Init /\ Off4
  \/ On("timeouts") /\ Timeouts!Init /\ Off5
  \/ On("rx") /\ Rx!Init /\ Off13
  \/ On("tx") /\ Tx!Init /\ Off12
  \/ On("link") /\ Link!Init /\ Off10

Next ==
  \/ On("hog") /\ Hog!HogNext /\ Same13
  \/ On("meet") /\ Meeting!Meet /\ Same8
  \/ On("flow") /\ Pipe!Flowing /\ Same5
  \/ On("session") /\ Session!Next /\ Same7
  \/ On("send") /\ Send!Next /\ Same4
  \/ On("close") /\ Closing!Next /\ Same4
  \/ On("arp") /\ Arp!Next /\ Same4
  \/ On("frag") /\ Frag!Next /\ Same4
  \/ On("timeouts") /\ Timeouts!Next /\ Same5
  \/ On("rx") /\ Rx!Next /\ Same13
  \/ On("tx") /\ Tx!Next /\ Same12
  \/ On("link") /\ Link!Next /\ Same10

(***************************************************************************)
(* Each component's own fairness (Live, Fairness, HogSpec, MeetSpec,       *)
(* PumpSpec), one condition of each unit per formula.                      *)
(***************************************************************************)
Weak1 ==
  \/ On("link") /\ Link!Thread /\ Same10
  \/ On("hog") /\ Hog!Proceed("low") /\ Same13
  \/ On("meet") /\ Meeting!Meet /\ Same8
  \/ On("flow") /\ Pipe!Pump /\ Same5
  \/ On("session") /\ Session!Server /\ Same7
  \/ On("send") /\ Send!Timeout /\ Same4
  \/ On("close") /\ Closing!Lost /\ Same4
  \/ On("arp") /\ Arp!etharp_tmr /\ Same4
  \/ On("frag") /\ Frag!ReassTimer /\ Same4
  \/ On("rx") /\ Rx!ETH_IRQHandler /\ Same13
  \/ On("tx") /\ Tx!Dma /\ Same12
Weak2 ==
  \/ On("hog") /\ Hog!Proceed("mid") /\ Same13
  \/ On("flow") /\ Pipe!Drain /\ Same5
  \/ On("session") /\ Session!RecvTimeout /\ Same7
  \/ On("send") /\ Send!Persist /\ Same4
  \/ On("close") /\ Closing!Timer("c") /\ Same4
  \/ On("tx") /\ Tx!ETH_IRQHandler /\ Same12
Weak3 ==
  \/ On("hog") /\ Hog!Proceed("high") /\ Same13
  \/ On("session") /\ Session!tcpip_thread(TRUE) /\ Same7
  \/ On("send") /\ Send!GiveUp /\ Same4
  \/ On("close") /\ Closing!Timer("s") /\ Same4
Weak4 ==
  \/ On("hog") /\ Hog!GiveBack("low") /\ Same13
  \/ On("session") /\ Session!Poll(1, TRUE) /\ Same7
  \/ On("send") /\ Send!PollOutput /\ Same4
Weak5 ==
  \/ On("hog") /\ Hog!GiveBack("high") /\ Same13
  \/ On("session") /\ Session!FastTimer(1) /\ Same7
Weak6 ==
  \/ On("session") /\ Session!GiveUp(1) /\ Same7
Strong1 ==
  \/ On("link") /\ Link!vStackIpSetup /\ Same10
  \/ On("send") /\ Send!Acked /\ Same4
  \/ On("timeouts") /\ Timeouts!Expire /\ Same5
  \/ On("rx") /\ Rx!vPacketReceiveTask /\ Same13
  \/ On("tx") /\ Tx!lpc_low_level_output /\ Same12
Strong2 ==
  \/ On("send") /\ Send!Arrives /\ Same4
  \/ On("tx") /\ Tx!vTransmitCleanupTask /\ Same12
Strong3 ==
  \/ On("send") /\ Send!Opens /\ Same4

Spec == /\ Init /\ [][Next]_<<unit, pool>>
        /\ WF_pool(Weak1) /\ WF_pool(Weak2) /\ WF_pool(Weak3) /\ WF_pool(Weak4) /\ WF_pool(Weak5) /\ WF_pool(Weak6)
        /\ SF_pool(Strong1) /\ SF_pool(Strong2) /\ SF_pool(Strong3)

\* Tasks of the kernel get on.
\*  - The highest task that waits for a mutex gets it although a task of
\*    middle priority computes for ever: the holder inherits the priority.
\*  - xEventGroupSync: every task gets through all its meetings.
\*  - xEventGroupSync: nobody passes a rendezvous before everybody has
\*    reached it.
\*  - stream_buffer.c: with a trigger level that can be reached the reader
\*    receives again and again.
KernelProgress ==
  /\ [](On("meet") => Meeting!MeetTogether)
  /\ On("hog") => ((On("hog") /\ Hog!Wants("high")) ~> (On("hog") => ~Hog!Wants("high")))
  /\ On("meet") => <>(On("meet") => Meeting!Done)
  /\ On("flow") => []<>(On("flow") => Pipe!Reads)

\* tcp_thread: a session ends, however the HMI leaves, and the server
\* accepts again.
SessionEnds == On("session") => ((On("session") /\ Session!Serves(1, 1) /\ Session!HmiLeft(1)) ~> (On("session") => ~Session!Serves(1, 1)))

\* A TCP connection gets its data across or ends.
\*  - tcp.c: data is delivered or the connection given up, although windows
\*    close and segments and updates are lost.
\*  - tcp_slowtmr: a control block whose application has closed is freed,
\*    whatever is lost.
TcpProgress ==
  /\ \A n \in 1..2 : On("send") => ((On("send") /\ Send!Written(n)) ~> (On("send") => Send!Settled(n)))
  /\ \A e \in {"c", "s"} : On("close") => ((On("close") /\ Closing!Closing(e)) ~> (On("close") => Closing!Gone(e)))

\* lwIP lets go of what never completes and its timers run on.
\*  - etharp_tmr: a packet that waits for an answer is sent or given up.
\*  - ip_reass_tmr gives up every datagram that stays incomplete.
\*  - sys_timeouts_mbox_fetch: the cyclic timers (ARP has the longest
\*    period) fire again and again, the TCP timer while there are
\*    connections, although messages keep coming.
StackProgress ==
  /\ On("arp") => ((On("arp") /\ Arp!Waits("p1")) ~> (On("arp") => ~Arp!Waits("p1")))
  /\ On("frag") => ((On("frag") /\ Frag!Incomplete("d1")) ~> (On("frag") => ~Frag!Incomplete("d1")))
  /\ (On("timeouts") => []<>(On("timeouts") => Timeouts!Fires("arp")))
  /\ (On("timeouts") => ((On("timeouts") /\ Timeouts!Connected) ~> (On("timeouts") => ~Timeouts!Connected \/ Timeouts!Fires("tcp"))))

\* The driver and the link monitor catch up.
\*  - ETH_IRQHandler, vPacketReceiveTask: a received frame is taken out of
\*    the ring, although interrupts are merged in one semaphore.
\*  - vTransmitCleanupTask: every chain is freed in the end, unless
\*    tcpip_thread waits for descriptors.
\*  - vStackIpSetup: when the cable does not change any more, the link flag
\*    becomes what the cable says, and lpc_etharp_output sends.
DriverProgress ==
  /\ \A i \in 0..1 : On("rx") => ((On("rx") /\ Rx!Filled(i)) ~> (On("rx") => ~Rx!Filled(i)))
  /\ \A f \in 1..2 : On("tx") => ((On("tx") /\ Tx!Unfreed(f)) ~> (On("tx") => ~Tx!Unfreed(f) \/ Tx!Waits))
  /\ On("link") => ((On("link") /\ Link!Quiet) ~> (On("link") => Link!Agrees))
=============================================================================
