------------------------------ MODULE Etherload ------------------------------
(***************************************************************************)
(* How the host and the MEGA65 talk over Ethernet: the retransmission      *)
(* layer of src/lib/libm65ftp/etherload/etherload_common.c, the job        *)
(* protocol that src/lib/libm65ftp/mega65_ftp.c speaks over it, and the    *)
(* connection m65ftp_init() builds with both.                              *)
(*                                                                         *)
(* The layer keeps a table of frames that wait for an answer.  Every       *)
(* function above it is a straight line of calls into the layer - wait for *)
(* free slots, send a frame and expect an answer, expect one without       *)
(* sending, send without expecting - so a function is a SEQUENCE of such   *)
(* steps here, and "todo" is what the running call has still to do.  The   *)
(* host runs one call at a time (everything is behind one mutex).          *)
(*                                                                         *)
(* Frames may be lost, and are repeated by the host; neither direction     *)
(* reorders (one cable, one switch).  Time is abstract: a waiting host may *)
(* repeat the oldest frame or give up whenever the code's clocks could let *)
(* it.  The device (the ROM's loader, then the helper program loaded into  *)
(* it, which the repository holds only as bytes) is external.              *)
(***************************************************************************)
EXTENDS Integers, FiniteSets, Sequences, SequencesExt

CONSTANTS
  NumBlocks,      \* packets the helper program takes to load
  NumSectors,     \* sectors of the card that are used
  Data,           \* what a sector can hold
  LoadWindow,     \* queue_length to begin with (4 in the code)
  WriteWindow,    \* ethernet_window_size (3, or 28 on larger boards)
  ReadWindow,     \* queue_length during reads (256)
  BatchIds,       \* write_batch_counter is a byte (256)
  SlotBase,       \* a byte of a payload (256)
  ReadBatch,      \* batch_read_size of read_sector() (16)
  WriteLists,     \* the lists of sectors a write queue can hold
  WireCapacity,   \* packets a direction can hold; more are dropped
  MaxCalls,       \* bound: calls after the connection stands
  MaxGiveUps      \* bound: waits whose time runs out

ASSUME EtherloadAssumption ==
  /\ {NumBlocks, NumSectors, LoadWindow, WriteWindow, ReadWindow, BatchIds,
      SlotBase, ReadBatch, WireCapacity} \subseteq Nat \ {0}
  /\ {MaxCalls, MaxGiveUps} \subseteq Nat
  /\ ReadBatch <= ReadWindow /\ ReadBatch <= NumSectors

Sectors == 1..NumSectors

\* queue_write_sector() merges writes to one sector and executes the queue
\* when 64 are in it, fewer than a byte of a payload can count.
ASSUME WriteListsAssumption ==
  \A list \in WriteLists :
    /\ list \in Seq(Sectors) /\ Len(list) \in 1..SlotBase
    /\ \A i, j \in DOMAIN list : list[i] = list[j] => i = j

Slots == 0 .. (CHOOSE n \in {LoadWindow, WriteWindow, ReadWindow} :
                 \A m \in {LoadWindow, WriteWindow, ReadWindow} : m <= n) - 1
NoFrame == [cmd |-> "none"]

VARIABLES
  conn,                     \* "down", "up", "failed", "exited", "killed", "finished"
  todo,                     \* steps the running call has still to do
  unacked,                  \* the frame in each slot, or NoFrame
  sent,                     \* slots with a frame, by unacked_sent_times
  queue_length,
  callbacks,                \* whose callbacks are installed
  polled,                   \* packets were read since the loop's last test
  heard,                    \* some were read since the wait began
  stale,                    \* slots whose frame outlived a whole wait
  write_batch_counter,
  eth_batch_start_sector,
  queue_read_data,
  memory_read_buffer_len,
  up, down,                 \* packets on their way to and from the device
  device,                   \* its program, the blocks loaded, the card
  calls, giveUps,           \* how many there were, up to the bounds
  wanted,                   \* what the calls that returned wrote
  doubtful,                 \* sectors of frames the host gave up on
  gaveUp                    \* was the last give-up "never", "before" or "now"

host == <<unacked, sent, queue_length, callbacks, polled, heard, stale>>
results == <<queue_read_data, memory_read_buffer_len>>
protocol == <<write_batch_counter, eth_batch_start_sector>>
ghosts == <<calls, giveUps, wanted, doubtful, gaveUp>>
wires == <<up, down, device>>
vars == <<conn, todo, host, results, protocol, wires, ghosts>>

(***************************************************************************)
(* Packets.  A request keeps the bytes answers are compared with: byte 7   *)
(* ("id"), byte 8 ("size") and bytes 9 to 12 ("key").                      *)
(***************************************************************************)
Packet(cmd, id, size, key, data) ==
  [cmd |-> cmd, id |-> id, size |-> size, key |-> key, data |-> data]

None == "no data"
AsFound == "as found"   \* what a sector holds before the host writes it
NoAddress == -1         \* bytes no sector number spells: a memory address

Echo == Packet("echo", 0, 0, 0, None)
AllDone == Packet("go", 0, 0, 0, None)
Load(block) == Packet("load", 0, 0, block, None)
Hello == Packet("hello", 0, 0, 0, None)
Quit == Packet("quit", 0, 0, 0, None)
ReadMemory == Packet("peek", 0, NoAddress, NoAddress, None)
\* Bytes 9 to 12 of a write: the index in the batch, then three of the four
\* bytes of the sector the batch starts at.
WriteSector(id, size, start, index, data) ==
  Packet("write", id, size, index + SlotBase * start, data)
\* A read of count + 1 sectors.
ReadSectors(count, sector) == Packet("read", count, 0, sector, None)

SingleCommands == {"echo", "go"}                         \* 1024 bytes long
Requests == {"hello", "quit", "peek", "write", "read"}   \* begin with "mreq"

(***************************************************************************)
(* The callbacks.                                                          *)
(***************************************************************************)
\* get_packet_seq: does the packet have a sequence number at all.
HasSequence(packet) ==
  CASE callbacks = "single"   -> packet.cmd \in SingleCommands
    [] callbacks = "dmaload"  -> packet.cmd = "load"
    [] callbacks = "ethernet" -> TRUE

\* Faulty: the batch id is not compared.
AnyBatchMatch(rx, tx) ==
  /\ rx.cmd \in Requests /\ tx.cmd \in Requests
  /\ CASE rx.cmd \in {"write", "peek"} -> rx.size = tx.size /\ rx.key = tx.key
       [] rx.cmd = "read" -> rx.key = tx.key
       [] OTHER -> TRUE

\* ethernet_match_payloads: how the answer to a job names its request.
EthernetMatch(rx, tx) ==
  /\ rx.cmd \in Requests /\ tx.cmd \in Requests
  /\ CASE rx.cmd \in {"write", "peek"} ->
            rx.id = tx.id /\ rx.size = tx.size /\ rx.key = tx.key
       [] rx.cmd = "read" -> rx.key = tx.key
       [] OTHER -> TRUE

\* Faulty: any packet of the loader acknowledges any other.
AnyLoadMatch(rx, tx) ==
  CASE callbacks = "single" -> {rx.cmd, tx.cmd} \subseteq SingleCommands
    [] callbacks = "dmaload" -> rx.cmd = tx.cmd
    [] callbacks = "ethernet" -> EthernetMatch(rx, tx)

\* What the installed match_payloads says.
MatchPayloads(rx, tx) ==
  CASE callbacks = "single" -> {rx.cmd, tx.cmd} \subseteq SingleCommands
    [] callbacks = "dmaload" -> rx = tx
    [] callbacks = "ethernet" -> EthernetMatch(rx, tx)

\* dmaload_is_duplicate by load address; ethernet_is_duplicate says never.
IsDuplicate(frame, other) ==
  callbacks # "ethernet" /\ frame.cmd = "load" /\ other.cmd = "load"
    /\ frame.key = other.key

(***************************************************************************)
(* The functions above the layer, as the steps they take.                  *)
(***************************************************************************)
Step(op) == [op |-> op]
\* wait_ack_slots_available(n); wait_all_acks() when n is 0
WaitSlots(n, fatal) == [op |-> "wait", slots |-> n, fatal |-> fatal]
WaitAll == WaitSlots(0, FALSE)
\* ethl_send_packet(); ethl_schedule_ack() is the same without the sending
Send(frame, fatal) == [op |-> "send", frame |-> frame, fatal |-> fatal]
Schedule(frame) == [op |-> "schedule", frame |-> frame, fatal |-> FALSE]
Unscheduled(frame) == [op |-> "unscheduled", frame |-> frame]
QueueLength(n) == [op |-> "queue_length", length |-> n]
Callbacks(who) == [op |-> "callbacks", who |-> who]

SingleCommand(frame) ==
  <<WaitAll, Callbacks("single"), Send(frame, TRUE), WaitSlots(0, TRUE),
    Callbacks("dmaload")>>

HelperTransfer ==
  [block \in 1..NumBlocks |-> Send(Load(block), TRUE)] \o <<WaitAll>>

EthernetLogin == <<Send(Hello, FALSE), WaitAll>>

Peek == <<WaitAll, Step("clear_memory_read"), Send(ReadMemory, FALSE), WaitAll,
          Step("check_memory_read")>>

Connect ==
  SingleCommand(Echo) \o HelperTransfer \o SingleCommand(AllDone)
    \o <<Callbacks("ethernet")>> \o EthernetLogin \o Peek \o <<Step("connected")>>

WriteSectorsJob(id, start, data) ==
  <<QueueLength(WriteWindow), WaitAll>>
    \o [i \in 1..Len(data) |->
          Send(WriteSector(id, Len(data) - 1, start, i - 1, data[i]), FALSE)]
    \o <<WaitAll, Step("next_batch")>>

ReadSectorsJob(start, count) ==
  <<QueueLength(ReadWindow), [op |-> "batch_start", sector |-> start],
    WaitSlots(count, FALSE)>>
    \o [i \in 1..count |-> Schedule(ReadSectors(1, start + i - 1))]
    \o <<Unscheduled(ReadSectors(count - 1, start))>>

\* Faulty: the batch counter is wider than the byte it is sent in.
WideNextBatch == write_batch_counter + 1

NextBatch == (write_batch_counter + 1) % BatchIds

\* process_jobs_ethernet() for the write jobs that are left of a list.
WriteJobs(sectors, data) ==
  IF sectors = <<>> THEN <<WaitAll>>
  ELSE <<[op |-> "jobs", sectors |-> sectors, data |-> data]>>

\* The first n jobs are for consecutive sectors, and no longer run begins there.
FirstRun(sectors, n) ==
  /\ \A i \in 1..n : sectors[i] = sectors[1] + i - 1
  /\ n < Len(sectors) => sectors[n + 1] # sectors[n] + 1

\* Faulty: a read job is taken for done when its request is sent.
HastyReadJob(start) == ReadSectorsJob(start, ReadBatch) \o <<Step("read_done")>>

\* process_jobs_ethernet() for the one job of a read.
ReadJob(start) ==
  ReadSectorsJob(start, ReadBatch) \o <<WaitAll, Step("read_done")>>

\* request_quit() and the rest of m65ftp_finish()
RequestQuit == <<WaitAll, Send(Quit, FALSE), WaitAll, Step("finished")>>

-----------------------------------------------------------------------------
(***************************************************************************)
(* The layer: slots, waiting, sending.                                     *)
(***************************************************************************)
Visible == {s \in Slots : s < queue_length}
Unacked == {s \in Visible : unacked[s] # NoFrame}
Free == Visible \ Unacked

FirstOf(S) == CHOOSE s \in S : \A r \in S : s <= r

\* Faulty: the search for the oldest frame leaves the last slot out.
AllButLastSent == {i \in DOMAIN sent : sent[i] + 1 < queue_length}

\* Where the visible slots are in the order of the send times, and the one
\* whose frame is the oldest, as maybe_send_ack() finds it.
VisibleSent == {i \in DOMAIN sent : sent[i] \in Visible}
OldestSent == sent[FirstOf(VisibleSent)]

\* A wire takes what it has room for, and drops the rest.
TransmitAll(wire, packets) ==
  LET room == WireCapacity - Len(wire)
  IN wire \o SubSeq(packets, 1, IF Len(packets) < room THEN Len(packets) ELSE room)

Transmit(wire, packet) == TransmitAll(wire, <<packet>>)

Running == todo # <<>>
Current == Head(todo)
Waiting == Running /\ Current.op \in {"wait", "send", "schedule"}

\* The test at the top of the loops of wait_ack_slots_available(), expect_ack().
Ready ==
  IF Current.op = "wait"
  THEN Cardinality(Free) >= (IF Current.slots = 0 THEN queue_length
                             ELSE Current.slots)
  ELSE /\ Free # {}
       /\ \A s \in Unacked : ~IsDuplicate(Current.frame, unacked[s])

\* The sectors of write frames that have no answer yet.
SectorsOf(frames) ==
  {(f.key \div SlotBase) + (f.key % SlotBase) :
     f \in {g \in frames : g.cmd = "write"}}

\* The next step begins: its wait starts afresh.
NextStep ==
  /\ todo' = Tail(todo)
  /\ polled' = FALSE
  /\ heard' = FALSE

\* ethernet_process_result: where the data of a read answer goes.
Index(packet) == packet.key - eth_batch_start_sector

\* The first slot in index order whose frame the packet answers.
Answers(packet) == {s \in Unacked : MatchPayloads(packet, unacked[s])}

\* Loop body, first half: recvfrom() has a packet, check_if_ack() looks at it.
\* A sector in front of the batch has a huge unsigned index: the copy faults.
Receive ==
  /\ Waiting /\ (~Ready \/ polled)
  /\ down # <<>>
  /\ down' = Tail(down)
  /\ polled' = TRUE
  /\ LET packet == Head(down)
         known == HasSequence(packet) /\ Answers(packet) # {}
         slot == FirstOf(Answers(packet))
         isData == known /\ callbacks = "ethernet" /\ packet.cmd = "read"
         isByte == known /\ callbacks = "ethernet" /\ packet.cmd = "peek"
     IN /\ heard' = (heard \/ HasSequence(packet))
        /\ unacked' = IF known THEN [unacked EXCEPT ![slot] = NoFrame] ELSE unacked
        /\ sent' = IF known
                    THEN RemoveAt(sent, CHOOSE i \in DOMAIN sent : sent[i] = slot)
                    ELSE sent
        /\ stale' = IF known THEN stale \ {slot} ELSE stale
        /\ queue_read_data' =
             IF isData /\ Index(packet) \in DOMAIN queue_read_data
             THEN [queue_read_data EXCEPT ![Index(packet)] = packet.data]
             ELSE queue_read_data
        /\ memory_read_buffer_len' = IF isByte THEN 1 ELSE memory_read_buffer_len
        /\ IF isData /\ Index(packet) < 0
           THEN conn' = "killed" /\ todo' = <<>>
           ELSE UNCHANGED <<conn, todo>>
  /\ UNCHANGED <<queue_length, callbacks, protocol, up, device, ghosts>>

\* Loop body, second half: maybe_send_ack() repeats the oldest frame.
Resend ==
  /\ Waiting /\ (~Ready \/ polled)
  /\ VisibleSent # {}
  /\ Len(up) < WireCapacity
  /\ up' = Append(up, unacked[OldestSent])
  /\ polled' = FALSE
  /\ UNCHANGED <<conn, todo, unacked, sent, queue_length, callbacks, heard,
                 stale, results, protocol, down, device, ghosts>>

\* maybe_send_ack() calls ethernet_timeout_handler(), which exits: the oldest
\* frame is older than ack_timeout - more than one wait, that is - and nothing
\* was heard for as long.
Exit ==
  /\ Waiting /\ (~Ready \/ polled)
  /\ callbacks = "ethernet"
  /\ VisibleSent # {} /\ OldestSent \in stale
  /\ ~heard
  /\ conn' = "exited"
  /\ todo' = <<>>
  /\ UNCHANGED <<host, results, protocol, wires, ghosts>>

\* The time of the wait is over (3 s, less than ack_timeout).  The functions
\* of the job protocol do not look at the result and go on; m65ftp_init()
\* looks at some and gives the connection up.
GiveUp ==
  /\ Waiting /\ (~Ready \/ polled)
  /\ giveUps < MaxGiveUps
  /\ giveUps' = giveUps + 1
  /\ stale' = stale \union {s \in Slots : unacked[s] # NoFrame}
  /\ gaveUp' = "now"
  /\ doubtful' =
       IF conn = "down" THEN Sectors
       ELSE doubtful \union
              SectorsOf({unacked[s] : s \in Slots}
                        \union (IF Current.op = "send" THEN {Current.frame} ELSE {}))
  /\ IF Current.fatal
     THEN conn' = "failed" /\ todo' = <<>> /\ UNCHANGED <<polled, heard>>
     ELSE NextStep /\ UNCHANGED conn
  /\ UNCHANGED <<unacked, sent, queue_length, callbacks, results, protocol,
                 wires, calls, wanted>>

Wait ==
  /\ Running /\ Current.op = "wait" /\ Ready
  /\ NextStep
  /\ UNCHANGED <<conn, unacked, sent, queue_length, callbacks, stale, results,
                 protocol, wires, ghosts>>

\* The end of expect_ack(), and the sendto() of ethl_send_packet().
SendOrSchedule ==
  /\ Running /\ Current.op \in {"send", "schedule"} /\ Ready
  /\ LET slot == FirstOf(Free)
     IN /\ unacked' = [unacked EXCEPT ![slot] = Current.frame]
        /\ sent' = Append(sent, slot)
  /\ up' = IF Current.op = "send" THEN Transmit(up, Current.frame) ELSE up
  /\ NextStep
  /\ UNCHANGED <<conn, queue_length, callbacks, stale, results, protocol, down,
                 device, ghosts>>

SendUnscheduled ==
  /\ Running /\ Current.op = "unscheduled"
  /\ up' = Transmit(up, Current.frame)
  /\ NextStep
  /\ UNCHANGED <<conn, unacked, sent, queue_length, callbacks, stale, results,
                 protocol, down, device, ghosts>>

\* ethl_set_queue_length(): slots behind the end are no longer looked at.
SetQueueLength ==
  /\ Running /\ Current.op = "queue_length"
  /\ queue_length' = Current.length
  /\ NextStep
  /\ UNCHANGED <<conn, unacked, sent, callbacks, stale, results, protocol,
                 wires, ghosts>>

SetCallbacks ==
  /\ Running /\ Current.op = "callbacks"
  /\ callbacks' = Current.who
  /\ NextStep
  /\ UNCHANGED <<conn, unacked, sent, queue_length, stale, results, protocol,
                 wires, ghosts>>

\* The assignments between the calls.  A peek() without an answer exits.
Assign ==
  /\ Running
  /\ \/ /\ Current.op = "batch_start"
        /\ eth_batch_start_sector' = Current.sector
        /\ UNCHANGED <<conn, memory_read_buffer_len, write_batch_counter>>
     \/ /\ Current.op = "next_batch"
        /\ write_batch_counter' = NextBatch
        /\ UNCHANGED <<conn, memory_read_buffer_len, eth_batch_start_sector>>
     \/ /\ Current.op = "clear_memory_read"
        /\ memory_read_buffer_len' = 0
        /\ UNCHANGED <<conn, protocol>>
     \/ /\ Current.op = "connected"
        /\ conn' = "up"
        /\ UNCHANGED <<memory_read_buffer_len, protocol>>
     \/ /\ Current.op = "finished"
        /\ conn' = "finished"
        /\ UNCHANGED <<memory_read_buffer_len, protocol>>
     \/ /\ Current.op = "read_done"
        /\ UNCHANGED <<conn, memory_read_buffer_len, protocol>>
     \/ /\ Current.op = "check_memory_read" /\ memory_read_buffer_len = 1
        /\ UNCHANGED <<conn, memory_read_buffer_len, protocol>>
  /\ NextStep
  /\ UNCHANGED <<unacked, sent, queue_length, callbacks, stale,
                 queue_read_data, wires, ghosts>>

\* The loop of process_jobs_ethernet() takes the next batch of writes.
NextJobs ==
  /\ Running /\ Current.op = "jobs"
  /\ \E n \in DOMAIN Current.sectors :
       LET sectors == Current.sectors
           data == Current.data
       IN /\ FirstRun(sectors, n)
          /\ todo' = WriteSectorsJob(write_batch_counter, sectors[1], SubSeq(data, 1, n))
                       \o WriteJobs(SubSeq(sectors, n + 1, Len(sectors)),
                                    SubSeq(data, n + 1, Len(data)))
  /\ polled' = FALSE /\ heard' = FALSE
  /\ UNCHANGED <<conn, unacked, sent, queue_length, callbacks, stale, results,
                 protocol, wires, ghosts>>

PeekFails ==
  /\ Running
  /\ Current.op = "check_memory_read" /\ memory_read_buffer_len # 1
  /\ conn' = "exited"
  /\ todo' = <<>>
  /\ UNCHANGED <<host, results, protocol, wires, ghosts>>

-----------------------------------------------------------------------------
(***************************************************************************)
(* The calls.  Without a connection every call of m65ftp_lib.c fails.      *)
(***************************************************************************)
Call(script) ==
  /\ todo = <<>> /\ conn = "up"
  /\ calls < MaxCalls
  /\ calls' = calls + 1
  /\ todo' = script
  /\ gaveUp' = IF gaveUp = "now" THEN "before" ELSE gaveUp
  /\ UNCHANGED <<conn, host, results, protocol, wires, giveUps,
                 doubtful>>

\* execute_write_queue(): one job for every sector of the queue.
ExecuteWriteQueue(sectors, data) ==
  /\ Call(WriteJobs(sectors, data))
  /\ wanted' = [s \in Sectors |->
                  IF \E i \in DOMAIN sectors : sectors[i] = s
                  THEN data[CHOOSE i \in DOMAIN sectors : sectors[i] = s]
                  ELSE wanted[s]]

\* read_sector(): a batch from start on.
ReadSector(start) ==
  Call(ReadJob(start)) /\ UNCHANGED wanted

\* m65ftp_finish()
Finish ==
  Call(RequestQuit) /\ UNCHANGED wanted

-----------------------------------------------------------------------------
(***************************************************************************)
(* The device (external) and the wire.                                     *)
(***************************************************************************)
\* What the device answers: the loader echoes, the helper names the request.
Replies(packet) ==
  CASE device.program = "loader" /\ packet.cmd \in SingleCommands \union {"load"}
         -> <<packet>>
    [] device.program = "helper" /\ packet.cmd = "read"
         -> [i \in 1 .. packet.id + 1 |->
               Packet("read", packet.id, 0, packet.key + i - 1,
                      IF packet.key + i - 1 \in Sectors
                      THEN device.card[packet.key + i - 1] ELSE None)]
    [] device.program = "helper" /\ packet.cmd = "write"
         -> <<[packet EXCEPT !.data = None]>>
    [] device.program = "helper" /\ packet.cmd \in {"hello", "peek", "quit"}
         -> <<packet>>
    [] OTHER -> <<>>

Written(packet) == (packet.key \div SlotBase) + (packet.key % SlotBase)

DeviceReceives ==
  /\ up # <<>>
  /\ LET packet == Head(up)
     IN /\ device' =
             CASE device.program = "loader" /\ packet.cmd = "load" ->
                    [device EXCEPT !.blocks = @ \union {packet.key}]
               [] device.program = "loader" /\ packet.cmd = "go" ->
                    [device EXCEPT !.program = "helper"]
               [] device.program = "helper" /\ packet.cmd = "write" ->
                    [device EXCEPT !.card[Written(packet)] = packet.data]
               [] device.program = "helper" /\ packet.cmd = "quit" ->
                    [device EXCEPT !.program = "off"]
               [] OTHER -> device
        /\ down' = TransmitAll(down, Replies(packet))
  /\ up' = Tail(up)
  /\ UNCHANGED <<conn, todo, host, results, protocol, ghosts>>

\* A packet gets lost before the other side sees it.
Lose ==
  /\ \/ up # <<>> /\ up' = Tail(up) /\ UNCHANGED down
     \/ down # <<>> /\ down' = Tail(down) /\ UNCHANGED up
  /\ UNCHANGED <<conn, todo, host, results, protocol, device, ghosts>>

-----------------------------------------------------------------------------
\* m65ftp_init() has found the device and triggered its loader.
Init ==
  /\ conn = "down"
  /\ todo = Connect
  /\ unacked = [s \in Slots |-> NoFrame]
  /\ sent = <<>>
  /\ queue_length = LoadWindow
  /\ callbacks = "dmaload"
  /\ polled = FALSE /\ heard = FALSE
  /\ stale = {}
  /\ write_batch_counter = 0
  /\ eth_batch_start_sector = 0
  /\ wanted = [s \in Sectors |-> AsFound]
  /\ queue_read_data = [i \in 0 .. ReadBatch - 1 |-> None]
  /\ device = [program |-> "loader", blocks |-> {}, card |-> wanted]
  /\ memory_read_buffer_len = 0
  /\ up = <<>> /\ down = <<>>
  /\ calls = 0 /\ giveUps = 0
  /\ doubtful = {}
  /\ gaveUp = "never"

HostStep ==
  \/ Wait \/ SendOrSchedule \/ SendUnscheduled
  \/ SetQueueLength \/ SetCallbacks \/ Assign \/ NextJobs \/ PeekFails

Next ==
  \/ HostStep \/ Receive \/ Resend \/ GiveUp \/ Exit
  \/ \E sectors \in WriteLists :
       \E data \in [DOMAIN sectors -> Data] : ExecuteWriteQueue(sectors, data)
  \/ \E start \in 1 .. NumSectors - ReadBatch + 1 : ReadSector(start)
  \/ Finish
  \/ DeviceReceives \/ Lose

(***************************************************************************)
(* The host's loops run on, and its clock makes it repeat a frame; what is *)
(* sent again and again, a request or its answer, gets through again and   *)
(* again.  Nothing is assumed about GiveUp: a call must not depend on its  *)
(* time running out.                                                       *)
(***************************************************************************)
ReceiveAnswer ==
  /\ down # <<>> /\ Answers(Head(down)) # {}
  /\ Receive

Fairness ==
  /\ WF_vars(HostStep) /\ WF_vars(Resend) /\ WF_vars(Receive)
  /\ SF_vars(ReceiveAnswer) /\ SF_vars(DeviceReceives)

Spec == Init /\ [][Next]_vars /\ Fairness

-----------------------------------------------------------------------------
Packets ==
  {Echo, AllDone, Hello, Quit, ReadMemory}
    \union {Load(b) : b \in 1..NumBlocks}
    \union [cmd : {"write"}, id : 0 .. BatchIds - 1, size : 0 .. NumSectors - 1,
            key : 0 .. SlotBase * (NumSectors + 1), data : Data \union {None}]
    \union [cmd : {"read"}, id : 0 .. ReadWindow, size : {0},
            key : 1 .. NumSectors + ReadWindow, data : Data \union {AsFound, None}]

\* Every variable has the values the code's declarations allow, and the order
\* of the send times lists just the slots that hold a frame.
TypeOK ==
  /\ conn \in {"down", "up", "failed", "exited", "killed", "finished"}
  /\ \A s \in Slots : unacked[s] \in Packets \union {NoFrame}
  /\ Range(sent) = {s \in Slots : unacked[s] # NoFrame}
  /\ Len(sent) = Cardinality(Range(sent))
  /\ queue_length \in {LoadWindow, WriteWindow, ReadWindow}
  /\ callbacks \in {"dmaload", "single", "ethernet"}
  /\ {polled, heard} \subseteq BOOLEAN
  /\ stale \subseteq Range(sent)
  /\ write_batch_counter \in 0 .. BatchIds - 1
  /\ eth_batch_start_sector \in 0..NumSectors
  /\ queue_read_data \in [0 .. ReadBatch - 1 -> Data \union {AsFound, None}]
  /\ memory_read_buffer_len \in {0, 1}
  /\ Range(up) \union Range(down) \subseteq Packets
  /\ Len(up) <= WireCapacity /\ Len(down) <= WireCapacity
  /\ device.program \in {"loader", "helper", "off"}
  /\ device.blocks \subseteq 1..NumBlocks
  /\ {device.card, wanted} \subseteq [Sectors -> Data \union {AsFound}]
  /\ calls \in 0..MaxCalls /\ giveUps \in 0..MaxGiveUps
  /\ doubtful \subseteq Sectors
  /\ gaveUp \in {"never", "before", "now"}

\* The helper is started only with all of its blocks in memory, however many
\* packets were lost or sent twice, unless the host gave up on one of them.
HelperComplete ==
  device.program = "helper" /\ gaveUp = "never" => device.blocks = 1..NumBlocks

\* When no call runs, the card holds what the calls wrote: no frame is taken
\* for acknowledged by the answer to another, a repeated frame does not bring
\* old data back.  Only sectors of frames the host gave up on are in doubt.
WritesLand ==
  conn \in {"up", "finished"} /\ todo = <<>> =>
    \A s \in Sectors \ doubtful : device.card[s] = wanted[s]

\* A batch that is read without giving up holds, at the place of each sector,
\* the data that was written to it last; and an answer never goes to a place
\* in front of the buffer unless the host gave up on a request before.
ReadsFresh ==
  /\ Running /\ Current.op = "read_done" /\ gaveUp # "now" =>
       \A i \in 0 .. ReadBatch - 1 :
         \/ eth_batch_start_sector + i \in doubtful
         \/ queue_read_data[i] = wanted[eth_batch_start_sector + i]
  /\ conn = "killed" => gaveUp # "never"

\* Retransmission alone brings every write and read to its end over a network
\* that keeps delivering: none needs its time to run out.  (The two requests
\* that end the program that answers, "go" and "quit", do need it: when their
\* answer is lost there is nobody left to repeat it.)
CallsEnd ==
  Running /\ conn = "up" ~>
    (~Running \/ gaveUp # "never" \/ device.program = "off")
=============================================================================
