--------------------------- MODULE EtherloadProofs ---------------------------
(***************************************************************************)
(* Type correctness of Etherload and the start of its helper, for any      *)
(* number of slots, windows, sizes of batches and sectors, and any number  *)
(* of waits that run out.  Behind this, what the job protocol delivers.    *)
(***************************************************************************)
EXTENDS Etherload, FiniteSetTheorems, SequenceTheorems, WellFoundedInduction, TLAPS

\* The key of the write of sector t in a batch that begins at sector s.
JobKey(s, t) == (t - s) + SlotBase * s
WriteKeys ==
    {k \in Nat : \E list \in WriteLists : \E s, t \in Range(list) :
        s <= t /\ t < s + SlotBase /\ k = JobKey(s, t)}

Signals == {Echo, AllDone, Hello, Quit, ReadMemory} \cup {Load(b) : b \in 1..NumBlocks}

\* What the host sends, and what it may receive.
Writes == [cmd : {"write"}, id : 0 .. BatchIds - 1, size : 0 .. NumSectors - 1,
           key : WriteKeys, data : Data]
Reads == {p \in [cmd : {"read"}, id : 0..ReadWindow, size : {0}, key : Sectors, data : {None}] :
            p.key + p.id <= NumSectors + 1}
Frames == Signals \cup Writes \cup Reads

WriteAnswers == [cmd : {"write"}, id : 0 .. BatchIds - 1, size : 0 .. NumSectors - 1,
                 key : WriteKeys, data : {None}]
ReadAnswers == [cmd : {"read"}, id : 0..ReadWindow, size : {0},
                key : 1 .. NumSectors + 1, data : Data \cup {AsFound, None}]
AllAnswers == Signals \cup WriteAnswers \cup ReadAnswers

\* What is left of the running call.
JobLists ==
    {l \in Seq(Sectors) : Len(l) <= SlotBase /\ \E list \in WriteLists : Range(l) \subseteq Range(list)}
Windows == {LoadWindow, WriteWindow, ReadWindow}
Steps ==
    [op : {"wait"}, slots : Nat, fatal : BOOLEAN]
    \cup [op : {"send", "schedule"}, frame : Frames, fatal : BOOLEAN]
    \cup [op : {"unscheduled"}, frame : Frames]
    \cup [op : {"queue_length"}, length : Windows]
    \cup [op : {"callbacks"}, who : {"dmaload", "single", "ethernet"}]
    \cup [op : {"batch_start"}, sector : Sectors]
    \cup {j \in [op : {"jobs"}, sectors : JobLists, data : Seq(Data)] :
            Len(j.data) = Len(j.sectors) /\ j.sectors # <<>>}
    \cup [op : {"next_batch", "clear_memory_read", "check_memory_read", "connected",
                "finished", "read_done"}]

Occupied == {s \in Slots : unacked[s] # NoFrame}

CallTypes ==
    /\ conn \in {"down", "up", "failed", "exited", "killed", "finished"}
    /\ todo \in Seq(Steps)
    /\ polled \in BOOLEAN /\ heard \in BOOLEAN
    /\ calls \in 0..MaxCalls /\ giveUps \in 0..MaxGiveUps
    /\ doubtful \in SUBSET Sectors
    /\ gaveUp \in {"never", "before", "now"}
SlotTypes ==
    /\ unacked \in [Slots -> Frames \cup {NoFrame}]
    /\ sent \in Seq(Slots)
    /\ \A i, j \in 1..Len(sent) : sent[i] = sent[j] => i = j
    /\ Range(sent) = Occupied
    /\ stale \in SUBSET Occupied
WireTypes ==
    /\ up \in Seq(Frames) /\ Len(up) <= WireCapacity
    /\ down \in Seq(AllAnswers) /\ Len(down) <= WireCapacity
ValueTypes ==
    /\ queue_length \in Windows
    /\ callbacks \in {"dmaload", "single", "ethernet"}
    /\ write_batch_counter \in 0 .. BatchIds - 1
    /\ eth_batch_start_sector \in 0..NumSectors
    /\ queue_read_data \in [0 .. ReadBatch - 1 -> Data \cup {AsFound, None}]
    /\ memory_read_buffer_len \in {0, 1}
    /\ device \in [program : {"loader", "helper", "off"}, blocks : SUBSET (1..NumBlocks),
                   card : [Sectors -> Data \cup {AsFound}]]
    /\ wanted \in [Sectors -> Data \cup {AsFound}]
TypeInv == CallTypes /\ SlotTypes /\ WireTypes /\ ValueTypes

-----------------------------------------------------------------------------
\* Lemmas about the operators.

LEMMA FirstOfMember ==
    ASSUME NEW S, S \subseteq Nat, S # {}
    PROVE  FirstOf(S) \in S
<1> DEFINE less == {p \in Nat \X Nat : p[1] < p[2]}
<1>1. IsWellFoundedOn(less, Nat)
  BY NatLessThanWellFounded DEF OpToRel
<1>2. PICK m \in S : \A n \in S : <<n, m>> \notin less
  BY <1>1, WFMin
<1>3. ASSUME NEW n \in S PROVE m <= n
  <2>1. m \in Nat /\ n \in Nat /\ <<n, m>> \notin less
    BY <1>2
  <2>2. ~(n < m)
    BY <2>1
  <2> QED
    BY <2>1, <2>2
<1> QED
  BY <1>3 DEF FirstOf

LEMMA SlotFacts ==
    /\ Slots \subseteq Nat /\ IsFiniteSet(Slots)
    /\ \A w \in Windows : w \in Nat \ {0} /\ 0 .. w - 1 \subseteq Slots
<1> DEFINE max == CHOOSE n \in {LoadWindow, WriteWindow, ReadWindow} :
                     \A m \in {LoadWindow, WriteWindow, ReadWindow} : m <= n
<1>1. Windows \subseteq Nat \ {0}
  BY EtherloadAssumption DEF Windows
<1>2. \E n \in {LoadWindow, WriteWindow, ReadWindow} :
         \A m \in {LoadWindow, WriteWindow, ReadWindow} : m <= n
  BY <1>1 DEF Windows
<1>3. max \in Windows /\ \A m \in Windows : m <= max
  BY <1>2 DEF Windows
<1>4. Slots = 0 .. max - 1
  BY DEF Slots
<1> HIDE DEF max
<1>5. IsFiniteSet(Slots)
  BY <1>1, <1>3, <1>4, FS_Interval
<1> QED
  BY <1>1, <1>3, <1>4, <1>5

LEMMA DivMod ==
    ASSUME NEW b \in Nat \ {0}, NEW n \in Nat, NEW r \in 0 .. b - 1
    PROVE  (r + b * n) \div b = n /\ (r + b * n) % b = r
BY Z3

LEMMA KeyFacts ==
    WriteKeys \subseteq 0 .. SlotBase * (NumSectors + 1)
<1> SUFFICES ASSUME NEW k \in WriteKeys PROVE k \in 0 .. SlotBase * (NumSectors + 1)
  OBVIOUS
<1>1. PICK list \in WriteLists : \E s, t \in Range(list) :
         s <= t /\ t < s + SlotBase /\ k = JobKey(s, t)
  BY DEF WriteKeys
<1>2. Range(list) \subseteq Sectors
  BY WriteListsAssumption, RangeOfSeq
<1>3. PICK s, t \in Sectors : s <= t /\ t < s + SlotBase /\ k = (t - s) + SlotBase * s
  BY <1>1, <1>2 DEF JobKey
<1>4. SlotBase \in Nat /\ NumSectors \in Nat /\ s \in Nat /\ t \in Nat /\ s <= NumSectors
  BY EtherloadAssumption DEF Sectors
<1>5. SlotBase * s \in Nat /\ SlotBase * s <= SlotBase * NumSectors
  BY <1>4
<1>6. SlotBase * (NumSectors + 1) = SlotBase * NumSectors + SlotBase /\ SlotBase * NumSectors \in Nat
  BY <1>4
<1> QED
  BY <1>3, <1>4, <1>5, <1>6

\* The three bytes of the first sector and the index name the sector, as
\* long as the index fits a byte.
LEMMA KeySector ==
    ASSUME NEW k \in WriteKeys
    PROVE  (k \div SlotBase) + (k % SlotBase) \in Sectors
<1>1. PICK list \in WriteLists : \E s, t \in Range(list) :
         s <= t /\ t < s + SlotBase /\ k = JobKey(s, t)
  BY DEF WriteKeys
<1>2. Range(list) \subseteq Sectors
  BY WriteListsAssumption, RangeOfSeq
<1>3. PICK s, t \in Sectors : s <= t /\ t < s + SlotBase /\ k = (t - s) + SlotBase * s
  BY <1>1, <1>2 DEF JobKey
<1>4. SlotBase \in Nat /\ SlotBase > 0 /\ s \in Nat /\ t \in Nat
  BY EtherloadAssumption DEF Sectors
<1>5. k \div SlotBase = s /\ k % SlotBase = t - s
  <2>1. t - s \in 0 .. SlotBase - 1 /\ SlotBase \in Nat \ {0}
    BY <1>3, <1>4
  <2> QED
    BY <1>3, <1>4, <2>1, DivMod
<1>6. s + (t - s) = t
  BY <1>4
<1> QED
  BY <1>3, <1>5, <1>6

\* A wire delivers what it had and, behind it, a first part of what is new.
LEMMA TransmitFacts ==
    ASSUME NEW S, NEW wire \in Seq(S), Len(wire) <= WireCapacity, NEW packets \in Seq(S)
    PROVE  LET n == Len(TransmitAll(wire, packets))
           IN /\ TransmitAll(wire, packets) \in Seq(S)
              /\ n <= WireCapacity /\ n >= Len(wire) /\ n <= Len(wire) + Len(packets)
              /\ \A i \in 1..n : TransmitAll(wire, packets)[i] =
                    IF i <= Len(wire) THEN wire[i] ELSE packets[i - Len(wire)]
<1> DEFINE room == WireCapacity - Len(wire)
           m == IF Len(packets) < room THEN Len(packets) ELSE room
           first == SubSeq(packets, 1, m)
<1>1. Len(wire) \in Nat /\ Len(packets) \in Nat /\ WireCapacity \in Nat
  BY LenProperties, EtherloadAssumption
<1>2. m \in Nat /\ m <= Len(packets) /\ Len(wire) + m <= WireCapacity
  BY <1>1
<1>3. TransmitAll(wire, packets) = wire \o first
  BY DEF TransmitAll
<1> HIDE DEF m
<1>4. \A i \in 1..m : packets[i] \in S
  BY <1>1, <1>2, ElementOfSeq
<1>5. first \in Seq(S) /\ Len(first) = m /\ \A i \in 1..m : first[i] = packets[i]
  <2>1. \A i \in 1 .. m - 1 + 1 : first[i] = packets[1 + i - 1]
    BY <1>1, <1>2, <1>4, SubSeqProperties
  <2>2. first \in Seq(S) /\ Len(first) = IF 1 <= m THEN m - 1 + 1 ELSE 0
    BY <1>1, <1>2, <1>4, SubSeqProperties
  <2> QED
    BY <1>2, <2>1, <2>2
<1> HIDE DEF first
<1>6. wire \o first \in Seq(S) /\ Len(wire \o first) = Len(wire) + m
      /\ \A i \in 1 .. Len(wire) + m :
            (wire \o first)[i] = IF i <= Len(wire) THEN wire[i] ELSE first[i - Len(wire)]
  BY <1>5, ConcatProperties
<1>7. \A i \in 1 .. Len(wire) + m : ~(i <= Len(wire)) => first[i - Len(wire)] = packets[i - Len(wire)]
  BY <1>1, <1>2, <1>5
<1> QED
  BY <1>1, <1>2, <1>3, <1>6, <1>7

LEMMA TransmitOne ==
    ASSUME NEW S, NEW wire \in Seq(S), Len(wire) <= WireCapacity, NEW p \in S
    PROVE  /\ Transmit(wire, p) \in Seq(S)
           /\ Len(Transmit(wire, p)) <= WireCapacity
           /\ Len(Transmit(wire, p)) >= Len(wire)
           /\ \A i \in 1..Len(Transmit(wire, p)) :
                 Transmit(wire, p)[i] = IF i <= Len(wire) THEN wire[i] ELSE p
<1> DEFINE one == <<p>>
           w == TransmitAll(wire, one)
<1>1. one \in Seq(S) /\ Len(one) = 1 /\ one[1] = p
  OBVIOUS
<1>2. Len(wire) \in Nat
  BY LenProperties
<1> HIDE DEF one
<1>3. /\ w \in Seq(S)
      /\ Len(w) <= WireCapacity /\ Len(w) >= Len(wire) /\ Len(w) <= Len(wire) + 1
      /\ \A i \in 1..Len(w) : w[i] = IF i <= Len(wire) THEN wire[i] ELSE one[i - Len(wire)]
  <2>1. /\ w \in Seq(S)
        /\ Len(w) <= WireCapacity /\ Len(w) >= Len(wire) /\ Len(w) <= Len(wire) + Len(one)
        /\ \A i \in 1..Len(w) : w[i] = IF i <= Len(wire) THEN wire[i] ELSE one[i - Len(wire)]
    BY <1>1, TransmitFacts
  <2> QED
    BY <1>1, <2>1
<1> HIDE DEF w
<1>4. Len(w) \in Nat
  BY <1>3, LenProperties
<1>5. \A i \in 1..Len(w) : ~(i <= Len(wire)) => i - Len(wire) = 1
  BY <1>2, <1>3, <1>4
<1>6. \A i \in 1..Len(w) : w[i] = IF i <= Len(wire) THEN wire[i] ELSE p
  BY <1>1, <1>3, <1>5
<1> QED
  BY <1>3, <1>6 DEF Transmit, w, one

\* An element is removed from a sequence that holds it once.
LEMMA RemoveAtFacts ==
    ASSUME NEW S, NEW s \in Seq(S), \A i, j \in 1..Len(s) : s[i] = s[j] => i = j,
           NEW e \in Range(s)
    PROVE  LET t == RemoveAt(s, CHOOSE i \in DOMAIN s : s[i] = e)
           IN /\ t \in Seq(S)
              /\ \A i, j \in 1..Len(t) : t[i] = t[j] => i = j
              /\ Range(t) = Range(s) \ {e}
<1> DEFINE c == CHOOSE i \in DOMAIN s : s[i] = e
           a == SubSeq(s, 1, c - 1)
           b == SubSeq(s, c + 1, Len(s))
           t == RemoveAt(s, c)
           n == Len(s)
<1>1. n \in Nat /\ DOMAIN s = 1..n /\ \A i \in 1..n : s[i] \in S
  BY LenProperties, ElementOfSeq
<1>2. \E i \in DOMAIN s : s[i] = e
  BY DEF Range
<1>3. c \in 1..n /\ s[c] = e
  BY <1>1, <1>2
<1> HIDE DEF c
<1>4. a \in Seq(S) /\ Len(a) = c - 1 /\ \A i \in 1 .. c - 1 : a[i] = s[i]
  <2>1. \A i \in 1 .. (c - 1) - 1 + 1 : a[i] = s[1 + i - 1]
    BY <1>1, <1>3, SubSeqProperties
  <2>2. a \in Seq(S) /\ Len(a) = IF 1 <= c - 1 THEN (c - 1) - 1 + 1 ELSE 0
    BY <1>1, <1>3, SubSeqProperties
  <2> QED
    BY <1>1, <1>3, <2>1, <2>2
<1>5. b \in Seq(S) /\ Len(b) = n - c /\ \A i \in 1 .. n - c : b[i] = s[c + i]
  <2>1. \A i \in 1 .. n - (c + 1) + 1 : b[i] = s[(c + 1) + i - 1]
    BY <1>1, <1>3, SubSeqProperties
  <2>2. b \in Seq(S) /\ Len(b) = IF c + 1 <= n THEN n - (c + 1) + 1 ELSE 0
    BY <1>1, <1>3, SubSeqProperties
  <2>3. \A i \in 1 .. n - c : (c + 1) + i - 1 = c + i /\ i \in 1 .. n - (c + 1) + 1
    BY <1>1, <1>3
  <2>4. \A i \in 1 .. n - c : b[i] = s[c + i]
    BY <2>1, <2>3
  <2> HIDE DEF b, n
  <2>5. (IF c + 1 <= n THEN n - (c + 1) + 1 ELSE 0) = n - c
    BY <1>1, <1>3
  <2> QED
    BY <2>2, <2>4, <2>5
<1>6. t = a \o b
  BY DEF RemoveAt
<1> HIDE DEF a, b, t, n
<1>7. t \in Seq(S) /\ Len(t) = n - 1
      /\ \A i \in 1 .. n - 1 : t[i] = IF i <= c - 1 THEN a[i] ELSE b[i - (c - 1)]
  <2>1. Len(a) + Len(b) = n - 1
    BY <1>1, <1>3, <1>4, <1>5
  <2>2. t \in Seq(S) /\ Len(t) = Len(a) + Len(b)
        /\ \A i \in 1 .. Len(a) + Len(b) : t[i] = IF i <= Len(a) THEN a[i] ELSE b[i - Len(a)]
    BY <1>4, <1>5, <1>6, ConcatProperties
  <2> QED
    BY <1>4, <2>1, <2>2
<1>8. \A i \in 1 .. n - 1 : t[i] = IF i < c THEN s[i] ELSE s[i + 1]
  <2> TAKE i \in 1 .. n - 1
  <2>1. CASE i < c
    BY <1>1, <1>3, <1>4, <1>7, <2>1
  <2>2. CASE ~(i < c)
    <3>1. i - (c - 1) \in 1 .. n - c /\ c + (i - (c - 1)) = i + 1 /\ ~(i <= c - 1)
      BY <1>1, <1>3, <2>2
    <3>2. t[i] = b[i - (c - 1)]
      BY <1>7, <3>1
    <3> QED
      BY <1>5, <2>2, <3>1, <3>2
  <2> QED
    BY <2>1, <2>2
<1>9. \A i, j \in 1 .. n - 1 : t[i] = t[j] => i = j
  <2> DEFINE at(i) == IF i < c THEN i ELSE i + 1
  <2>1. \A i \in 1 .. n - 1 : at(i) \in 1..n /\ t[i] = s[at(i)]
    BY <1>1, <1>3, <1>8
  <2>2. \A i, j \in 1 .. n - 1 : at(i) = at(j) => i = j
    BY <1>1, <1>3
  <2> HIDE DEF at
  <2> QED
    BY <2>1, <2>2 DEF n
<1>10. Range(t) \subseteq Range(s) \ {e}
  <2> SUFFICES ASSUME NEW i \in 1 .. n - 1 PROVE t[i] \in Range(s) \ {e}
    BY <1>7, LenProperties DEF Range
  <2>1. (t[i] = s[i] /\ i # c /\ i \in 1..n) \/ (t[i] = s[i + 1] /\ i + 1 # c /\ i + 1 \in 1..n)
    BY <1>1, <1>3, <1>8
  <2> QED
    BY <1>1, <1>3, <2>1 DEF Range, n
<1>11. Range(s) \ {e} \subseteq Range(t)
  <2> SUFFICES ASSUME NEW i \in 1..n, s[i] # e PROVE s[i] \in Range(t)
    BY <1>1 DEF Range
  <2>1. DOMAIN t = 1 .. n - 1
    BY <1>7, LenProperties
  <2>2. CASE i < c
    <3>1. i \in 1 .. n - 1 /\ t[i] = s[i]
      BY <1>1, <1>3, <1>8, <2>2
    <3> QED
      BY <2>1, <3>1 DEF Range
  <2>3. CASE i > c
    <3>1. i - 1 \in 1 .. n - 1 /\ ~(i - 1 < c) /\ (i - 1) + 1 = i
      BY <1>1, <1>3, <2>3
    <3>2. t[i - 1] = s[i]
      BY <1>8, <3>1
    <3> QED
      BY <2>1, <3>1, <3>2 DEF Range
  <2> QED
    BY <1>1, <1>3, <2>2, <2>3
<1> QED
  BY <1>7, <1>9, <1>10, <1>11 DEF t, c

-----------------------------------------------------------------------------
\* Lemmas about the scripts: what the steps of each are, and that they are steps.

LEMMA StepTypes ==
    /\ \A n \in Nat, f \in BOOLEAN : WaitSlots(n, f) \in Steps
    /\ WaitAll \in Steps
    /\ \A p \in Frames, f \in BOOLEAN : Send(p, f) \in Steps
    /\ \A p \in Frames : Schedule(p) \in Steps /\ Unscheduled(p) \in Steps
    /\ \A w \in Windows : QueueLength(w) \in Steps
    /\ \A who \in {"dmaload", "single", "ethernet"} : Callbacks(who) \in Steps
    /\ \A s \in Sectors : [op |-> "batch_start", sector |-> s] \in Steps
    /\ \A op \in {"next_batch", "clear_memory_read", "check_memory_read", "connected",
                  "finished", "read_done"} : Step(op) \in Steps
<1>1. \A n \in Nat, f \in BOOLEAN : WaitSlots(n, f) \in Steps
  BY DEF WaitSlots, Steps
<1>2. WaitAll \in Steps
  BY <1>1 DEF WaitAll
<1>3. \A p \in Frames, f \in BOOLEAN : Send(p, f) \in Steps
  BY DEF Send, Steps
<1>4. \A p \in Frames : Schedule(p) \in Steps /\ Unscheduled(p) \in Steps
  BY DEF Schedule, Unscheduled, Steps
<1>5. \A w \in Windows : QueueLength(w) \in Steps
  BY DEF QueueLength, Steps
<1>6. \A who \in {"dmaload", "single", "ethernet"} : Callbacks(who) \in Steps
  BY DEF Callbacks, Steps
<1>7. \A s \in Sectors : [op |-> "batch_start", sector |-> s] \in Steps
  BY DEF Steps
<1>8. \A op \in {"next_batch", "clear_memory_read", "check_memory_read", "connected",
                 "finished", "read_done"} : Step(op) \in Steps
  BY DEF Step, Steps
<1> QED
  BY <1>1, <1>2, <1>3, <1>4, <1>5, <1>6, <1>7, <1>8

LEMMA ConcatAt ==
    ASSUME NEW S, NEW s \in Seq(S), NEW t \in Seq(S)
    PROVE  /\ s \o t \in Seq(S) /\ Len(s \o t) = Len(s) + Len(t)
           /\ \A i \in 1..Len(s) : (s \o t)[i] = s[i]
           /\ \A i \in 1..Len(t) : (s \o t)[Len(s) + i] = t[i]
<1> DEFINE c == s \o t
<1>1. /\ c \in Seq(S) /\ Len(c) = Len(s) + Len(t)
      /\ \A i \in 1 .. Len(s) + Len(t) : c[i] = IF i <= Len(s) THEN s[i] ELSE t[i - Len(s)]
  BY ConcatProperties
<1> HIDE DEF c
<1>2. Len(s) \in Nat /\ Len(t) \in Nat
  BY LenProperties
<1>3. \A i \in 1..Len(s) : c[i] = s[i]
  BY <1>1, <1>2
<1>4. ASSUME NEW i \in 1..Len(t) PROVE c[Len(s) + i] = t[i]
  <2>1. Len(s) + i \in 1 .. Len(s) + Len(t) /\ ~(Len(s) + i <= Len(s)) /\ (Len(s) + i) - Len(s) = i
    BY <1>2
  <2> QED
    BY <1>1, <2>1
<1> QED
  BY <1>1, <1>3, <1>4 DEF c

LEMMA SingleCommandScript ==
    ASSUME NEW p \in Frames
    PROVE  /\ SingleCommand(p) \in Seq(Steps) /\ Len(SingleCommand(p)) = 5
           /\ SingleCommand(p)[1] = WaitAll
           /\ SingleCommand(p)[2] = Callbacks("single")
           /\ SingleCommand(p)[3] = Send(p, TRUE)
           /\ SingleCommand(p)[4] = WaitSlots(0, TRUE)
           /\ SingleCommand(p)[5] = Callbacks("dmaload")
<1> DEFINE a == Callbacks("single")
           b == Send(p, TRUE)
           c == WaitSlots(0, TRUE)
           d == Callbacks("dmaload")
<1>1. WaitAll \in Steps /\ a \in Steps /\ b \in Steps /\ c \in Steps /\ d \in Steps
  BY StepTypes
<1>2. SingleCommand(p) = <<WaitAll, a, b, c, d>>
  BY DEF SingleCommand
<1> HIDE DEF a, b, c, d
<1> DEFINE t == <<WaitAll, a, b, c, d>>
<1>3. /\ t \in Seq(Steps) /\ Len(t) = 5
      /\ t[1] = WaitAll /\ t[2] = a /\ t[3] = b /\ t[4] = c /\ t[5] = d
  BY <1>1
<1> HIDE DEF t
<1>4. SingleCommand(p) = t
  BY <1>2 DEF t
<1> QED
  BY <1>3, <1>4 DEF a, b, c, d

LEMMA TransferScript ==
    /\ HelperTransfer \in Seq(Steps) /\ Len(HelperTransfer) = NumBlocks + 1
    /\ \A b \in 1..NumBlocks : HelperTransfer[b] = Send(Load(b), TRUE)
    /\ HelperTransfer[NumBlocks + 1] = WaitAll
<1> DEFINE loads == [block \in 1..NumBlocks |-> Send(Load(block), TRUE)]
           last == <<WaitAll>>
<1>1. NumBlocks \in Nat
  BY EtherloadAssumption
<1>2. \A b \in 1..NumBlocks : Send(Load(b), TRUE) \in Steps
  <2>1. \A b \in 1..NumBlocks : Load(b) \in Frames
    BY DEF Frames, Signals
  <2> QED
    BY <2>1, StepTypes
<1>3. loads \in Seq(Steps) /\ Len(loads) = NumBlocks
  <2>1. loads \in [1..NumBlocks -> Steps]
    BY <1>2
  <2> HIDE DEF loads
  <2>2. loads \in Seq(Steps)
    BY <1>1, <2>1, SeqDef
  <2>3. Len(loads) \in Nat /\ DOMAIN loads = 1..Len(loads)
    BY <2>2, LenProperties
  <2> QED
    BY <1>1, <2>1, <2>2, <2>3
<1>4. last \in Seq(Steps) /\ Len(last) = 1 /\ last[1] = WaitAll
  <2>1. WaitAll \in Steps
    BY StepTypes
  <2> QED
    BY <2>1
<1>5. HelperTransfer = loads \o last
  BY DEF HelperTransfer
<1>6. \A b \in 1..NumBlocks : loads[b] = Send(Load(b), TRUE)
  BY DEF loads
<1> HIDE DEF loads, last
<1>7. /\ loads \o last \in Seq(Steps) /\ Len(loads \o last) = NumBlocks + 1
      /\ \A i \in 1..NumBlocks : (loads \o last)[i] = loads[i]
      /\ \A i \in 1..1 : (loads \o last)[NumBlocks + i] = last[i]
  <2>1. loads \o last \in Seq(Steps)
    BY <1>3, <1>4, ConcatAt
  <2>2. Len(loads \o last) = Len(loads) + Len(last)
    BY <1>3, <1>4, ConcatAt
  <2>3. \A i \in 1..Len(loads) : (loads \o last)[i] = loads[i]
    BY <1>3, <1>4, ConcatAt
  <2>4. \A i \in 1..Len(last) : (loads \o last)[Len(loads) + i] = last[i]
    BY <1>3, <1>4, ConcatAt
  <2> QED
    BY <1>3, <1>4, <2>1, <2>2, <2>3, <2>4
<1>8. (loads \o last)[NumBlocks + 1] = last[1]
  <2>1. 1 \in 1..1
    OBVIOUS
  <2> QED
    BY <1>7, <2>1
<1> QED
  BY <1>4, <1>5, <1>6, <1>7, <1>8

\* m65ftp_init() from its first echo request to the byte it reads.
LEMMA ConnectScript ==
    LET n == NumBlocks
    IN /\ Connect \in Seq(Steps) /\ Len(Connect) = 20 + n
       /\ Connect[1] = WaitAll
       /\ Connect[2] = Callbacks("single")
       /\ Connect[3] = Send(Echo, TRUE)
       /\ Connect[4] = WaitSlots(0, TRUE)
       /\ Connect[5] = Callbacks("dmaload")
       /\ \A b \in 1..n : Connect[5 + b] = Send(Load(b), TRUE)
       /\ Connect[6 + n] = WaitAll
       /\ Connect[7 + n] = WaitAll
       /\ Connect[8 + n] = Callbacks("single")
       /\ Connect[9 + n] = Send(AllDone, TRUE)
       /\ Connect[10 + n] = WaitSlots(0, TRUE)
       /\ Connect[11 + n] = Callbacks("dmaload")
       /\ Connect[12 + n] = Callbacks("ethernet")
       /\ Connect[13 + n] = Send(Hello, FALSE)
       /\ Connect[14 + n] = WaitAll
       /\ Connect[15 + n] = WaitAll
       /\ Connect[16 + n] = Step("clear_memory_read")
       /\ Connect[17 + n] = Send(ReadMemory, FALSE)
       /\ Connect[18 + n] = WaitAll
       /\ Connect[19 + n] = Step("check_memory_read")
       /\ Connect[20 + n] = Step("connected")
<1> DEFINE n == NumBlocks
           a == SingleCommand(Echo)
           b == HelperTransfer
           c == SingleCommand(AllDone)
           d == <<Callbacks("ethernet")>>
           e == EthernetLogin
           f == Peek
           g == <<Step("connected")>>
<1>1. n \in Nat /\ Echo \in Frames /\ AllDone \in Frames /\ Hello \in Frames /\ ReadMemory \in Frames
  BY EtherloadAssumption DEF Frames, Signals
<1>2. a \in Seq(Steps) /\ Len(a) = 5
  BY <1>1, SingleCommandScript
<1>3. b \in Seq(Steps) /\ Len(b) = n + 1
  BY TransferScript
<1>4. c \in Seq(Steps) /\ Len(c) = 5
  BY <1>1, SingleCommandScript
<1>5. d \in Seq(Steps) /\ Len(d) = 1 /\ d[1] = Callbacks("ethernet")
  <2>1. Callbacks("ethernet") \in Steps
    BY StepTypes
  <2> QED
    BY <2>1
<1>6. /\ e \in Seq(Steps) /\ Len(e) = 2
      /\ e[1] = Send(Hello, FALSE) /\ e[2] = WaitAll
  <2> DEFINE hello == Send(Hello, FALSE)
  <2>1. hello \in Steps /\ WaitAll \in Steps
    BY <1>1, StepTypes
  <2>2. e = <<hello, WaitAll>>
    BY DEF EthernetLogin
  <2> HIDE DEF hello, e
  <2>3. e \in Seq(Steps) /\ Len(e) = 2 /\ e[1] = hello /\ e[2] = WaitAll
    BY <2>1, <2>2
  <2> QED
    BY <2>3 DEF hello
<1>7. /\ f \in Seq(Steps) /\ Len(f) = 5
      /\ f[1] = WaitAll /\ f[2] = Step("clear_memory_read") /\ f[3] = Send(ReadMemory, FALSE)
      /\ f[4] = WaitAll /\ f[5] = Step("check_memory_read")
  <2> DEFINE clear == Step("clear_memory_read")
             read == Send(ReadMemory, FALSE)
             check == Step("check_memory_read")
  <2>1. clear \in Steps /\ read \in Steps /\ check \in Steps /\ WaitAll \in Steps
    BY <1>1, StepTypes
  <2>2. f = <<WaitAll, clear, read, WaitAll, check>>
    BY DEF Peek
  <2> HIDE DEF clear, read, check, f
  <2>3. /\ f \in Seq(Steps) /\ Len(f) = 5
        /\ f[1] = WaitAll /\ f[2] = clear /\ f[3] = read /\ f[4] = WaitAll /\ f[5] = check
    BY <2>1, <2>2
  <2> QED
    BY <2>3 DEF clear, read, check
<1>8. g \in Seq(Steps) /\ Len(g) = 1 /\ g[1] = Step("connected")
  <2>1. Step("connected") \in Steps
    BY StepTypes
  <2> QED
    BY <2>1
<1> DEFINE p1 == a \o b
           p2 == p1 \o c
           p3 == p2 \o d
           p4 == p3 \o e
           p5 == p4 \o f
           p6 == p5 \o g
<1>9. Connect = p6
  BY DEF Connect
<1> HIDE DEF a, b, c, d, e, f, g, n
<1>t1. p1 \in Seq(Steps) /\ Len(p1) = 6 + n
  <2>1. a \in Seq(Steps) /\ b \in Seq(Steps)
    BY <1>2, <1>3
  <2>2. p1 \in Seq(Steps) /\ Len(p1) = Len(a) + Len(b)
    BY <2>1, ConcatAt
  <2> HIDE DEF p1
  <2> QED
    BY <1>1, <1>2, <1>3, <2>2
<1>e1. /\ \A i \in 1 .. 5 : p1[i] = a[i]
      /\ \A i \in 1 .. n + 1 : p1[5 + i] = b[i]
  <2>1. a \in Seq(Steps) /\ b \in Seq(Steps)
    BY <1>2, <1>3
  <2>2. \A i \in 1..Len(a) : p1[i] = a[i]
    BY <2>1, ConcatAt
  <2>3. \A i \in 1..Len(b) : p1[Len(a) + i] = b[i]
    BY <2>1, ConcatAt
  <2> HIDE DEF p1
  <2>4. Len(a) = 5 /\ Len(b) = n + 1
    BY <1>2, <1>3
  <2> QED
    BY <2>2, <2>3, <2>4
<1>t2. p2 \in Seq(Steps) /\ Len(p2) = 11 + n
  <2> HIDE DEF p1
  <2>1. p1 \in Seq(Steps) /\ c \in Seq(Steps)
    BY <1>t1, <1>4
  <2>2. p2 \in Seq(Steps) /\ Len(p2) = Len(p1) + Len(c)
    BY <2>1, ConcatAt
  <2> HIDE DEF p2
  <2> QED
    BY <1>1, <1>t1, <1>4, <2>2
<1>e2. /\ \A i \in 1 .. 6 + n : p2[i] = p1[i]
      /\ \A i \in 1 .. 5 : p2[6 + n + i] = c[i]
  <2> HIDE DEF p1
  <2>1. p1 \in Seq(Steps) /\ c \in Seq(Steps)
    BY <1>t1, <1>4
  <2>2. \A i \in 1..Len(p1) : p2[i] = p1[i]
    BY <2>1, ConcatAt
  <2>3. \A i \in 1..Len(c) : p2[Len(p1) + i] = c[i]
    BY <2>1, ConcatAt
  <2> HIDE DEF p2
  <2>4. Len(p1) = 6 + n /\ Len(c) = 5
    BY <1>t1, <1>4
  <2> QED
    BY <2>2, <2>3, <2>4
<1>t3. p3 \in Seq(Steps) /\ Len(p3) = 12 + n
  <2> HIDE DEF p2
  <2>1. p2 \in Seq(Steps) /\ d \in Seq(Steps)
    BY <1>t2, <1>5
  <2>2. p3 \in Seq(Steps) /\ Len(p3) = Len(p2) + Len(d)
    BY <2>1, ConcatAt
  <2> HIDE DEF p3
  <2> QED
    BY <1>1, <1>t2, <1>5, <2>2
<1>e3. /\ \A i \in 1 .. 11 + n : p3[i] = p2[i]
      /\ \A i \in 1 .. 1 : p3[11 + n + i] = d[i]
  <2> HIDE DEF p2
  <2>1. p2 \in Seq(Steps) /\ d \in Seq(Steps)
    BY <1>t2, <1>5
  <2>2. \A i \in 1..Len(p2) : p3[i] = p2[i]
    BY <2>1, ConcatAt
  <2>3. \A i \in 1..Len(d) : p3[Len(p2) + i] = d[i]
    BY <2>1, ConcatAt
  <2> HIDE DEF p3
  <2>4. Len(p2) = 11 + n /\ Len(d) = 1
    BY <1>t2, <1>5
  <2> QED
    BY <2>2, <2>3, <2>4
<1>t4. p4 \in Seq(Steps) /\ Len(p4) = 14 + n
  <2> HIDE DEF p3
  <2>1. p3 \in Seq(Steps) /\ e \in Seq(Steps)
    BY <1>t3, <1>6
  <2>2. p4 \in Seq(Steps) /\ Len(p4) = Len(p3) + Len(e)
    BY <2>1, ConcatAt
  <2> HIDE DEF p4
  <2> QED
    BY <1>1, <1>t3, <1>6, <2>2
<1>e4. /\ \A i \in 1 .. 12 + n : p4[i] = p3[i]
      /\ \A i \in 1 .. 2 : p4[12 + n + i] = e[i]
  <2> HIDE DEF p3
  <2>1. p3 \in Seq(Steps) /\ e \in Seq(Steps)
    BY <1>t3, <1>6
  <2>2. \A i \in 1..Len(p3) : p4[i] = p3[i]
    BY <2>1, ConcatAt
  <2>3. \A i \in 1..Len(e) : p4[Len(p3) + i] = e[i]
    BY <2>1, ConcatAt
  <2> HIDE DEF p4
  <2>4. Len(p3) = 12 + n /\ Len(e) = 2
    BY <1>t3, <1>6
  <2> QED
    BY <2>2, <2>3, <2>4
<1>t5. p5 \in Seq(Steps) /\ Len(p5) = 19 + n
  <2> HIDE DEF p4
  <2>1. p4 \in Seq(Steps) /\ f \in Seq(Steps)
    BY <1>t4, <1>7
  <2>2. p5 \in Seq(Steps) /\ Len(p5) = Len(p4) + Len(f)
    BY <2>1, ConcatAt
  <2> HIDE DEF p5
  <2> QED
    BY <1>1, <1>t4, <1>7, <2>2
<1>e5. /\ \A i \in 1 .. 14 + n : p5[i] = p4[i]
      /\ \A i \in 1 .. 5 : p5[14 + n + i] = f[i]
  <2> HIDE DEF p4
  <2>1. p4 \in Seq(Steps) /\ f \in Seq(Steps)
    BY <1>t4, <1>7
  <2>2. \A i \in 1..Len(p4) : p5[i] = p4[i]
    BY <2>1, ConcatAt
  <2>3. \A i \in 1..Len(f) : p5[Len(p4) + i] = f[i]
    BY <2>1, ConcatAt
  <2> HIDE DEF p5
  <2>4. Len(p4) = 14 + n /\ Len(f) = 5
    BY <1>t4, <1>7
  <2> QED
    BY <2>2, <2>3, <2>4
<1>t6. p6 \in Seq(Steps) /\ Len(p6) = 20 + n
  <2> HIDE DEF p5
  <2>1. p5 \in Seq(Steps) /\ g \in Seq(Steps)
    BY <1>t5, <1>8
  <2>2. p6 \in Seq(Steps) /\ Len(p6) = Len(p5) + Len(g)
    BY <2>1, ConcatAt
  <2> HIDE DEF p6
  <2> QED
    BY <1>1, <1>t5, <1>8, <2>2
<1>e6. /\ \A i \in 1 .. 19 + n : p6[i] = p5[i]
      /\ \A i \in 1 .. 1 : p6[19 + n + i] = g[i]
  <2> HIDE DEF p5
  <2>1. p5 \in Seq(Steps) /\ g \in Seq(Steps)
    BY <1>t5, <1>8
  <2>2. \A i \in 1..Len(p5) : p6[i] = p5[i]
    BY <2>1, ConcatAt
  <2>3. \A i \in 1..Len(g) : p6[Len(p5) + i] = g[i]
    BY <2>1, ConcatAt
  <2> HIDE DEF p6
  <2>4. Len(p5) = 19 + n /\ Len(g) = 1
    BY <1>t5, <1>8
  <2> QED
    BY <2>2, <2>3, <2>4
<1> HIDE DEF p1, p2, p3, p4, p5, p6
<1>16. \A i \in 1..5 : p6[i] = a[i]
  <2> TAKE i \in 1..5
  <2>1. i \in 1 .. 6 + n /\ i \in 1 .. 11 + n /\ i \in 1 .. 12 + n /\ i \in 1 .. 14 + n /\ i \in 1 .. 19 + n
    BY <1>1
  <2> QED
    BY <1>e1, <1>e2, <1>e3, <1>e4, <1>e5, <1>e6, <2>1
<1>17. \A i \in 1 .. n + 1 : p6[5 + i] = b[i]
  <2> TAKE i \in 1 .. n + 1
  <2>1. 5 + i \in 1 .. 6 + n /\ 5 + i \in 1 .. 11 + n /\ 5 + i \in 1 .. 12 + n
        /\ 5 + i \in 1 .. 14 + n /\ 5 + i \in 1 .. 19 + n
    BY <1>1
  <2> QED
    BY <1>e1, <1>e2, <1>e3, <1>e4, <1>e5, <1>e6, <2>1
<1>18. \A i \in 1..5 : p6[6 + n + i] = c[i]
  <2> TAKE i \in 1..5
  <2>1. 6 + n + i \in 1 .. 11 + n /\ 6 + n + i \in 1 .. 12 + n
        /\ 6 + n + i \in 1 .. 14 + n /\ 6 + n + i \in 1 .. 19 + n
    BY <1>1
  <2> QED
    BY <1>e2, <1>e3, <1>e4, <1>e5, <1>e6, <2>1
<1>19. p6[12 + n] = d[1]
  <2>1. 11 + n + 1 = 12 + n /\ 12 + n \in 1 .. 12 + n
        /\ 12 + n \in 1 .. 14 + n /\ 12 + n \in 1 .. 19 + n
    BY <1>1
  <2>2. p3[12 + n] = d[1]
    BY <1>e3, <2>1
  <2> QED
    BY <1>e4, <1>e5, <1>e6, <2>1, <2>2
<1>20. p6[13 + n] = e[1] /\ p6[14 + n] = e[2]
  <2>1. 12 + n + 1 = 13 + n /\ 12 + n + 2 = 14 + n
        /\ \A i \in {13 + n, 14 + n} : i \in 1 .. 14 + n /\ i \in 1 .. 19 + n
    BY <1>1
  <2>2. p4[13 + n] = e[1] /\ p4[14 + n] = e[2]
    BY <1>e4, <2>1
  <2> QED
    BY <1>e5, <1>e6, <2>1, <2>2
<1>21. p6[15 + n] = f[1] /\ p6[16 + n] = f[2] /\ p6[17 + n] = f[3] /\ p6[18 + n] = f[4] /\ p6[19 + n] = f[5]
  <2>1. 14 + n + 1 = 15 + n /\ 14 + n + 2 = 16 + n /\ 14 + n + 3 = 17 + n /\ 14 + n + 4 = 18 + n
        /\ 14 + n + 5 = 19 + n /\ \A i \in {15 + n, 16 + n, 17 + n, 18 + n, 19 + n} : i \in 1 .. 19 + n
    BY <1>1
  <2>2. p5[15 + n] = f[1] /\ p5[16 + n] = f[2] /\ p5[17 + n] = f[3] /\ p5[18 + n] = f[4] /\ p5[19 + n] = f[5]
    BY <1>e5, <2>1
  <2> QED
    BY <1>e6, <2>1, <2>2
<1>22. p6[20 + n] = g[1]
  <2>1. 19 + n + 1 = 20 + n
    BY <1>1
  <2> QED
    BY <1>e6, <2>1
<1>23. /\ a[1] = WaitAll /\ a[2] = Callbacks("single") /\ a[3] = Send(Echo, TRUE)
       /\ a[4] = WaitSlots(0, TRUE) /\ a[5] = Callbacks("dmaload")
  BY <1>1, SingleCommandScript DEF a
<1>24. /\ c[1] = WaitAll /\ c[2] = Callbacks("single") /\ c[3] = Send(AllDone, TRUE)
       /\ c[4] = WaitSlots(0, TRUE) /\ c[5] = Callbacks("dmaload")
  BY <1>1, SingleCommandScript DEF c
<1>25. (\A i \in 1..n : b[i] = Send(Load(i), TRUE)) /\ b[n + 1] = WaitAll
  BY TransferScript DEF b, n
<1>26. \A i \in 1..n : p6[5 + i] = Send(Load(i), TRUE)
  <2>1. \A i \in 1..n : i \in 1 .. n + 1
    BY <1>1
  <2> QED
    BY <1>17, <1>25, <2>1
<1>27. p6[6 + n] = WaitAll
  <2>1. 5 + (n + 1) = 6 + n /\ n + 1 \in 1 .. n + 1
    BY <1>1
  <2> QED
    BY <1>17, <1>25, <2>1
<1>28. /\ p6[7 + n] = WaitAll /\ p6[8 + n] = Callbacks("single") /\ p6[9 + n] = Send(AllDone, TRUE)
       /\ p6[10 + n] = WaitSlots(0, TRUE) /\ p6[11 + n] = Callbacks("dmaload")
  <2>1. 6 + n + 1 = 7 + n /\ 6 + n + 2 = 8 + n /\ 6 + n + 3 = 9 + n /\ 6 + n + 4 = 10 + n /\ 6 + n + 5 = 11 + n
    BY <1>1
  <2>2. /\ p6[6 + n + 1] = c[1] /\ p6[6 + n + 2] = c[2] /\ p6[6 + n + 3] = c[3]
        /\ p6[6 + n + 4] = c[4] /\ p6[6 + n + 5] = c[5]
    BY <1>18
  <2> QED
    BY <1>24, <2>1, <2>2
<1>29. d[1] = Callbacks("ethernet") /\ e[1] = Send(Hello, FALSE) /\ e[2] = WaitAll
  BY <1>5, <1>6
<1>30. /\ f[1] = WaitAll /\ f[2] = Step("clear_memory_read") /\ f[3] = Send(ReadMemory, FALSE)
       /\ f[4] = WaitAll /\ f[5] = Step("check_memory_read") /\ g[1] = Step("connected")
  BY <1>7, <1>8
<1>31. p6 \in Seq(Steps) /\ Len(p6) = 20 + n
  BY <1>t6
<1>32. /\ p6[12 + n] = Callbacks("ethernet") /\ p6[13 + n] = Send(Hello, FALSE) /\ p6[14 + n] = WaitAll
       /\ p6[15 + n] = WaitAll /\ p6[16 + n] = Step("clear_memory_read")
       /\ p6[17 + n] = Send(ReadMemory, FALSE) /\ p6[18 + n] = WaitAll
       /\ p6[19 + n] = Step("check_memory_read") /\ p6[20 + n] = Step("connected")
  BY <1>19, <1>20, <1>21, <1>22, <1>29, <1>30
<1>33. /\ p6[1] = WaitAll /\ p6[2] = Callbacks("single") /\ p6[3] = Send(Echo, TRUE)
       /\ p6[4] = WaitSlots(0, TRUE) /\ p6[5] = Callbacks("dmaload")
  <2>1. p6[1] = a[1] /\ p6[2] = a[2] /\ p6[3] = a[3] /\ p6[4] = a[4] /\ p6[5] = a[5]
    BY <1>16
  <2> QED
    BY <1>23, <2>1
<1> QED
  BY <1>9, <1>26, <1>27, <1>28, <1>31, <1>32, <1>33 DEF n

LEMMA ConcatThree ==
    ASSUME NEW S, NEW a \in Seq(S), NEW b \in Seq(S), NEW c \in Seq(S), NEW d \in Seq(S)
    PROVE  LET t == a \o b \o c \o d
           IN /\ t \in Seq(S) /\ Len(t) = Len(a) + Len(b) + Len(c) + Len(d)
              /\ \A i \in 1..Len(a) : t[i] = a[i]
              /\ \A i \in 1..Len(c) : t[Len(a) + Len(b) + i] = c[i]
              /\ \A i \in 1..Len(d) : t[Len(a) + Len(b) + Len(c) + i] = d[i]
<1> DEFINE p == a \o b
           q == p \o c
           r == q \o d
<1>1. Len(a) \in Nat /\ Len(b) \in Nat /\ Len(c) \in Nat /\ Len(d) \in Nat
  BY LenProperties
<1>2. p \in Seq(S) /\ Len(p) = Len(a) + Len(b)
  BY ConcatAt
<1>3. (\A i \in 1..Len(a) : p[i] = a[i]) /\ \A i \in 1..Len(b) : p[Len(a) + i] = b[i]
  BY ConcatAt
<1> HIDE DEF p
<1>4. q \in Seq(S) /\ Len(q) = Len(p) + Len(c)
  BY <1>2, ConcatAt
<1>5. (\A i \in 1..Len(p) : q[i] = p[i]) /\ \A i \in 1..Len(c) : q[Len(p) + i] = c[i]
  BY <1>2, ConcatAt
<1> HIDE DEF q
<1>6. r \in Seq(S) /\ Len(r) = Len(q) + Len(d)
  BY <1>4, ConcatAt
<1>7. (\A i \in 1..Len(q) : r[i] = q[i]) /\ \A i \in 1..Len(d) : r[Len(q) + i] = d[i]
  BY <1>4, ConcatAt
<1> HIDE DEF r
<1>8. Len(p) = Len(a) + Len(b) /\ Len(q) = Len(a) + Len(b) + Len(c)
  BY <1>2, <1>4
<1>9. \A i \in 1..Len(a) : r[i] = a[i]
  <2> TAKE i \in 1..Len(a)
  <2>1. i \in 1..Len(p) /\ i \in 1..Len(q)
    BY <1>1, <1>8
  <2> QED
    BY <1>3, <1>5, <1>7, <2>1
<1>11. \A i \in 1..Len(c) : r[Len(a) + Len(b) + i] = c[i]
  <2> TAKE i \in 1..Len(c)
  <2>1. Len(p) + i \in 1..Len(q) /\ Len(p) + i = Len(a) + Len(b) + i
    BY <1>1, <1>8
  <2> QED
    BY <1>5, <1>7, <2>1
<1>12. \A i \in 1..Len(d) : r[Len(a) + Len(b) + Len(c) + i] = d[i]
  BY <1>7, <1>8
<1>13. r \in Seq(S) /\ Len(r) = Len(a) + Len(b) + Len(c) + Len(d)
  BY <1>6, <1>8
<1>14. r = a \o b \o c \o d
  BY DEF r, q, p
<1> QED
  BY <1>9, <1>11, <1>12, <1>13, <1>14

LEMMA ConcatSecond ==
    ASSUME NEW S, NEW a \in Seq(S), NEW b \in Seq(S), NEW c \in Seq(S), NEW d \in Seq(S),
           NEW i \in 1..Len(b)
    PROVE  (a \o b \o c \o d)[Len(a) + i] = b[i]
<1> DEFINE p == a \o b
           q == p \o c
           r == q \o d
<1>1. Len(a) \in Nat /\ Len(b) \in Nat /\ Len(c) \in Nat /\ Len(d) \in Nat
  BY LenProperties
<1>2. p \in Seq(S) /\ Len(p) = Len(a) + Len(b)
  BY ConcatAt
<1>3. p[Len(a) + i] = b[i]
  BY ConcatAt
<1> HIDE DEF p
<1>4. q \in Seq(S) /\ Len(q) = Len(p) + Len(c)
  BY <1>2, ConcatAt
<1>5. \A j \in 1..Len(p) : q[j] = p[j]
  BY <1>2, ConcatAt
<1> HIDE DEF q
<1>6. \A j \in 1..Len(q) : r[j] = q[j]
  BY <1>4, ConcatAt
<1> HIDE DEF r
<1>7. Len(a) + i \in 1..Len(p) /\ Len(a) + i \in 1..Len(q)
  BY <1>1, <1>2, <1>4
<1>8. r[Len(a) + i] = b[i]
  BY <1>3, <1>5, <1>6, <1>7
<1> QED
  BY <1>8 DEF r, q, p

\* A function on 1..n is a sequence of n elements.
LEMMA FunctionIsSeq ==
    ASSUME NEW S, NEW n \in Nat, NEW f \in [1..n -> S]
    PROVE  f \in Seq(S) /\ Len(f) = n
<1>1. f \in Seq(S)
  BY SeqDef
<1>2. Len(f) \in Nat /\ DOMAIN f = 1..Len(f)
  BY <1>1, LenProperties
<1> QED
  BY <1>1, <1>2

\* process_jobs_ethernet() for one read.
ReadStarts == 1 .. NumSectors - ReadBatch + 1
LEMMA ReadScript ==
    ASSUME NEW start \in ReadStarts
    PROVE  /\ ReadJob(start) \in Seq(Steps) /\ Len(ReadJob(start)) = 6 + ReadBatch
           /\ ReadJob(start)[1] = QueueLength(ReadWindow)
           /\ ReadJob(start)[2] = [op |-> "batch_start", sector |-> start]
           /\ ReadJob(start)[3] = WaitSlots(ReadBatch, FALSE)
           /\ \A i \in 1..ReadBatch :
                 ReadJob(start)[3 + i] = Schedule(ReadSectors(1, start + i - 1))
           /\ ReadJob(start)[4 + ReadBatch] = Unscheduled(ReadSectors(ReadBatch - 1, start))
           /\ ReadJob(start)[5 + ReadBatch] = WaitAll
           /\ ReadJob(start)[6 + ReadBatch] = Step("read_done")
<1> DEFINE n == ReadBatch
           q == QueueLength(ReadWindow)
           st == [op |-> "batch_start", sector |-> start]
           w == WaitSlots(n, FALSE)
           un == Unscheduled(ReadSectors(n - 1, start))
           done == Step("read_done")
           a == <<q, st, w>>
           b == [i \in 1..n |-> Schedule(ReadSectors(1, start + i - 1))]
           c == <<un>>
           d == <<WaitAll, done>>
<1>1. /\ n \in Nat /\ n > 0 /\ n <= ReadWindow /\ n <= NumSectors /\ NumSectors \in Nat
      /\ ReadWindow \in Nat /\ ReadWindow > 0 /\ start \in Sectors /\ start + n <= NumSectors + 1
  BY EtherloadAssumption DEF ReadStarts, Sectors
<1>2. \A i \in 1..n : ReadSectors(1, start + i - 1) \in Frames
  <2> TAKE i \in 1..n
  <2>1. start + i - 1 \in Sectors /\ 1 \in 0..ReadWindow /\ (start + i - 1) + 1 <= NumSectors + 1
    BY <1>1 DEF Sectors
  <2>2. ReadSectors(1, start + i - 1) \in Reads
    BY <2>1 DEF ReadSectors, Packet, Reads
  <2> QED
    BY <2>2 DEF Frames
<1>3. ReadSectors(n - 1, start) \in Frames
  <2>1. start \in Sectors /\ n - 1 \in 0..ReadWindow /\ start + (n - 1) <= NumSectors + 1
    BY <1>1 DEF Sectors
  <2>2. ReadSectors(n - 1, start) \in Reads
    BY <2>1 DEF ReadSectors, Packet, Reads
  <2> QED
    BY <2>2 DEF Frames
<1>4. q \in Steps /\ st \in Steps /\ w \in Steps /\ un \in Steps /\ done \in Steps /\ WaitAll \in Steps
  BY <1>1, <1>3, StepTypes DEF Windows
<1>5. ReadJob(start) = a \o b \o c \o d
  BY DEF ReadJob, ReadSectorsJob
<1>6. \A i \in 1..n : b[i] = Schedule(ReadSectors(1, start + i - 1))
  BY DEF b
<1>7. b \in Seq(Steps) /\ Len(b) = n
  <2>1. b \in [1..n -> Steps]
    BY <1>2, StepTypes
  <2> HIDE DEF b, n
  <2> QED
    BY <1>1, <2>1, FunctionIsSeq
<1> HIDE DEF q, st, w, un, done
<1>8. a \in Seq(Steps) /\ Len(a) = 3 /\ a[1] = q /\ a[2] = st /\ a[3] = w
  BY <1>4
<1>9. c \in Seq(Steps) /\ Len(c) = 1 /\ c[1] = un
  BY <1>4
<1>10. d \in Seq(Steps) /\ Len(d) = 2 /\ d[1] = WaitAll /\ d[2] = done
  BY <1>4
<1> DEFINE t == a \o b \o c \o d
<1> HIDE DEF a, b, c, d, n
<1>11. a \in Seq(Steps) /\ b \in Seq(Steps) /\ c \in Seq(Steps) /\ d \in Seq(Steps)
  BY <1>7, <1>8, <1>9, <1>10
<1>12. t \in Seq(Steps) /\ Len(t) = Len(a) + Len(b) + Len(c) + Len(d)
  BY <1>11, ConcatThree
<1>13. \A i \in 1..Len(a) : t[i] = a[i]
  BY <1>11, ConcatThree
<1>14. \A i \in 1..Len(b) : t[Len(a) + i] = b[i]
  BY <1>11, ConcatSecond
<1>15. \A i \in 1..Len(c) : t[Len(a) + Len(b) + i] = c[i]
  BY <1>11, ConcatThree
<1>16. \A i \in 1..Len(d) : t[Len(a) + Len(b) + Len(c) + i] = d[i]
  BY <1>11, ConcatThree
<1> HIDE DEF t
<1>17. Len(a) = 3 /\ Len(b) = n /\ Len(c) = 1 /\ Len(d) = 2
  BY <1>7, <1>8, <1>9, <1>10
<1>18. Len(t) = 6 + n
  BY <1>1, <1>12, <1>17
<1>19. t[1] = q /\ t[2] = st /\ t[3] = w
  <2>1. t[1] = a[1] /\ t[2] = a[2] /\ t[3] = a[3]
    BY <1>13, <1>17
  <2> QED
    BY <1>8, <2>1
<1>20. \A i \in 1..n : t[3 + i] = b[i]
  BY <1>14, <1>17
<1>21. t[4 + n] = un
  <2>1. t[3 + n + 1] = c[1] /\ 3 + n + 1 = 4 + n
    BY <1>1, <1>15, <1>17
  <2> QED
    BY <1>9, <2>1
<1>22. t[5 + n] = WaitAll /\ t[6 + n] = done
  <2>1. t[3 + n + 1 + 1] = d[1] /\ t[3 + n + 1 + 2] = d[2] /\ 3 + n + 1 + 1 = 5 + n /\ 3 + n + 1 + 2 = 6 + n
    BY <1>1, <1>16, <1>17
  <2> QED
    BY <1>10, <2>1
<1>23. t = ReadJob(start)
  BY <1>5 DEF t
<1>24. t \in Seq(Steps)
  BY <1>12
<1> QED
  BY <1>6, <1>18, <1>19, <1>20, <1>21, <1>22, <1>23, <1>24 DEF n, q, st, w, un, done

LEMMA QuitScript ==
    /\ RequestQuit \in Seq(Steps) /\ Len(RequestQuit) = 4
    /\ RequestQuit[1] = WaitAll /\ RequestQuit[2] = Send(Quit, FALSE)
    /\ RequestQuit[3] = WaitAll /\ RequestQuit[4] = Step("finished")
<1> DEFINE a == Send(Quit, FALSE)
           b == Step("finished")
           t == <<WaitAll, a, WaitAll, b>>
<1>1. WaitAll \in Steps /\ a \in Steps /\ b \in Steps
  BY StepTypes DEF Frames, Signals
<1>2. RequestQuit = t
  BY DEF RequestQuit
<1> HIDE DEF a, b
<1>3. t \in Seq(Steps) /\ Len(t) = 4 /\ t[1] = WaitAll /\ t[2] = a /\ t[3] = WaitAll /\ t[4] = b
  BY <1>1
<1> HIDE DEF t
<1> QED
  BY <1>2, <1>3 DEF a, b

\* process_ethernet_write_sectors_job(), and what comes after it.
IsBatch(id, start, data) ==
    /\ id \in 0 .. BatchIds - 1 /\ start \in Sectors
    /\ data \in Seq(Data) /\ Len(data) \in 1..NumSectors /\ Len(data) <= SlotBase
    /\ start + Len(data) - 1 <= NumSectors
    /\ \A i \in 1..Len(data) : JobKey(start, start + i - 1) \in WriteKeys

LEMMA BatchFrames ==
    ASSUME NEW id, NEW start, NEW data, IsBatch(id, start, data), NEW i \in 1..Len(data)
    PROVE  /\ WriteSector(id, Len(data) - 1, start, i - 1, data[i]) \in Writes
           /\ WriteSector(id, Len(data) - 1, start, i - 1, data[i]).key = JobKey(start, start + i - 1)
<1> DEFINE n == Len(data)
           key == (i - 1) + SlotBase * start
<1>1. n \in 1..NumSectors /\ NumSectors \in Nat /\ SlotBase \in Nat /\ start \in Nat /\ i \in Nat
  BY EtherloadAssumption DEF IsBatch, Sectors
<1>2. data[i] \in Data
  BY ElementOfSeq DEF IsBatch
<1>3. n - 1 \in 0 .. NumSectors - 1
  BY <1>1
<1>4. key = JobKey(start, start + i - 1)
  <2>1. SlotBase * start \in Nat
    BY <1>1
  <2>2. (start + i - 1) - start = i - 1
    BY <1>1
  <2> QED
    BY <2>2 DEF JobKey
<1>5. key \in WriteKeys
  BY <1>4 DEF IsBatch
<1>6. WriteSector(id, n - 1, start, i - 1, data[i]) =
        [cmd |-> "write", id |-> id, size |-> n - 1, key |-> key, data |-> data[i]]
  BY DEF WriteSector, Packet
<1> HIDE DEF n, key
<1>7. [cmd |-> "write", id |-> id, size |-> n - 1, key |-> key, data |-> data[i]] \in Writes
  BY <1>2, <1>3, <1>5 DEF Writes, IsBatch
<1> QED
  BY <1>4, <1>6, <1>7 DEF n

\* The steps of a batch of writes, and those of t behind them.
BatchThen(id, start, data, t) == WriteSectorsJob(id, start, data) \o t
SendOfBatch(id, start, data, i) ==
    Send(WriteSector(id, Len(data) - 1, start, i - 1, data[i]), FALSE)

LEMMA WriteScript ==
    ASSUME NEW id, NEW start, NEW data, IsBatch(id, start, data),
           NEW t \in Seq(Steps)
    PROVE  LET s == BatchThen(id, start, data, t)
           IN /\ s \in Seq(Steps) /\ Len(s) = 4 + Len(data) + Len(t)
              /\ s[1] = QueueLength(WriteWindow)
              /\ s[2] = WaitAll
              /\ \A i \in 1..Len(data) : s[2 + i] = SendOfBatch(id, start, data, i)
              /\ s[3 + Len(data)] = WaitAll
              /\ s[4 + Len(data)] = Step("next_batch")
              /\ \A i \in 1..Len(t) : s[4 + Len(data) + i] = t[i]
<1> DEFINE n == Len(data)
           q == QueueLength(WriteWindow)
           next == Step("next_batch")
           send(i) == Send(WriteSector(id, n - 1, start, i - 1, data[i]), FALSE)
           a == <<q, WaitAll>>
           b == [i \in 1..n |-> send(i)]
           c == <<WaitAll, next>>
           s == a \o b \o c \o t
<1>1. n \in Nat
  BY LenProperties DEF IsBatch
<1>2. \A i \in 1..n : send(i) \in Steps
  <2>1. \A i \in 1..n : WriteSector(id, n - 1, start, i - 1, data[i]) \in Frames
    BY BatchFrames DEF Frames
  <2> QED
    BY <2>1, StepTypes
<1>3. q \in Steps /\ next \in Steps /\ WaitAll \in Steps
  BY StepTypes DEF Windows
<1>4. BatchThen(id, start, data, t) = s
  BY DEF BatchThen, WriteSectorsJob
<1> HIDE DEF n, send
<1>5. \A i \in 1..n : b[i] = send(i)
  BY DEF b
<1>6. b \in Seq(Steps) /\ Len(b) = n
  <2>1. b \in [1..n -> Steps]
    BY <1>2
  <2> HIDE DEF b
  <2> QED
    BY <1>1, <2>1, FunctionIsSeq
<1> HIDE DEF q, next
<1>7. a \in Seq(Steps) /\ Len(a) = 2 /\ a[1] = q /\ a[2] = WaitAll
  BY <1>3
<1>8. c \in Seq(Steps) /\ Len(c) = 2 /\ c[1] = WaitAll /\ c[2] = next
  BY <1>3
<1> HIDE DEF a, b, c
<1>9. a \in Seq(Steps) /\ b \in Seq(Steps) /\ c \in Seq(Steps)
  BY <1>6, <1>7, <1>8
<1>10. s \in Seq(Steps) /\ Len(s) = Len(a) + Len(b) + Len(c) + Len(t)
  BY <1>9, ConcatThree
<1>11. \A i \in 1..Len(a) : s[i] = a[i]
  BY <1>9, ConcatThree
<1>12. \A i \in 1..Len(b) : s[Len(a) + i] = b[i]
  BY <1>9, ConcatSecond
<1>13. \A i \in 1..Len(c) : s[Len(a) + Len(b) + i] = c[i]
  BY <1>9, ConcatThree
<1>14. \A i \in 1..Len(t) : s[Len(a) + Len(b) + Len(c) + i] = t[i]
  BY <1>9, ConcatThree
<1> HIDE DEF s
<1>15. Len(a) = 2 /\ Len(b) = n /\ Len(c) = 2
  BY <1>6, <1>7, <1>8
<1>16. s \in Seq(Steps)
  BY <1>10
<1>17. Len(s) = 4 + n + Len(t)
  <2>1. Len(t) \in Nat
    BY LenProperties
  <2> QED
    BY <1>1, <1>10, <1>15, <2>1
<1>18. s[1] = q /\ s[2] = WaitAll
  <2>1. s[1] = a[1] /\ s[2] = a[2]
    BY <1>11, <1>15
  <2> QED
    BY <1>7, <2>1
<1>19. \A i \in 1..n : s[2 + i] = send(i)
  BY <1>5, <1>12, <1>15
<1>20. s[3 + n] = WaitAll /\ s[4 + n] = next
  <2>1. s[2 + n + 1] = c[1] /\ s[2 + n + 2] = c[2] /\ 2 + n + 1 = 3 + n /\ 2 + n + 2 = 4 + n
    BY <1>1, <1>13, <1>15
  <2> QED
    BY <1>8, <2>1
<1>21. \A i \in 1..Len(t) : s[4 + n + i] = t[i]
  <2>1. Len(a) + Len(b) + Len(c) = 4 + n
    BY <1>1, <1>15
  <2> QED
    BY <1>14, <2>1
<1> QED
  BY <1>4, <1>16, <1>17, <1>18, <1>19, <1>20, <1>21 DEF n, q, next, send, SendOfBatch

\* The lists of jobs that belong together.
AreJobs(sectors, data) ==
    sectors \in JobLists /\ data \in Seq(Data) /\ Len(data) = Len(sectors)

LEMMA JobsScript ==
    ASSUME NEW sectors, NEW data, AreJobs(sectors, data)
    PROVE  WriteJobs(sectors, data) \in Seq(Steps) /\ Len(WriteJobs(sectors, data)) = 1
<1> DEFINE j == [op |-> "jobs", sectors |-> sectors, data |-> data]
           t == IF sectors = <<>> THEN WaitAll ELSE j
<1>1. WaitAll \in Steps
  BY StepTypes
<1>2. sectors # <<>> => j \in Steps
  BY DEF AreJobs, Steps
<1>3. t \in Steps
  BY <1>1, <1>2
<1>4. WriteJobs(sectors, data) = <<t>>
  BY DEF WriteJobs
<1> HIDE DEF t
<1> QED
  BY <1>3, <1>4

\* What a list is behind its first n jobs.
RestOf(s, n) == SubSeq(s, n + 1, Len(s))

LEMMA NextRun ==
    ASSUME TypeInv, NEW sectors, NEW data, AreJobs(sectors, data),
           NEW n \in DOMAIN sectors, FirstRun(sectors, n)
    PROVE  LET rest == RestOf(sectors, n)
               restData == RestOf(data, n)
               batch == SubSeq(data, 1, n)
           IN /\ IsBatch(write_batch_counter, sectors[1], batch)
              /\ Len(batch) = n /\ \A i \in 1..n : batch[i] = data[i]
              /\ AreJobs(rest, restData)
              /\ Len(rest) = Len(sectors) - n
              /\ \A i \in 1 .. Len(sectors) - n : rest[i] = sectors[n + i] /\ restData[i] = data[n + i]
<1> DEFINE m == Len(sectors)
           rest == SubSeq(sectors, n + 1, m)
           restData == SubSeq(data, n + 1, Len(data))
           batch == SubSeq(data, 1, n)
<1>1. sectors \in Seq(Sectors) /\ data \in Seq(Data) /\ Len(data) = m /\ m <= SlotBase
  BY DEF AreJobs, JobLists
<1>2. m \in Nat /\ n \in 1..m /\ NumSectors \in Nat /\ SlotBase \in Nat
  BY <1>1, LenProperties, EtherloadAssumption
<1>3. (\A i \in 1..m : sectors[i] \in Sectors) /\ (\A i \in 1..m : data[i] \in Data)
  BY <1>1, ElementOfSeq
<1>4. PICK list \in WriteLists : Range(sectors) \subseteq Range(list)
  BY DEF AreJobs, JobLists
<1>5. batch \in Seq(Data) /\ Len(batch) = n /\ \A i \in 1..n : batch[i] = data[i]
  <2>1. \A i \in 1..n : data[i] \in Data
    BY <1>2, <1>3
  <2>2. \A i \in 1 .. n - 1 + 1 : batch[i] = data[1 + i - 1]
    BY <1>2, <2>1, SubSeqProperties
  <2>3. batch \in Seq(Data) /\ Len(batch) = IF 1 <= n THEN n - 1 + 1 ELSE 0
    BY <1>2, <2>1, SubSeqProperties
  <2> QED
    BY <1>2, <2>2, <2>3
<1>6. rest \in Seq(Sectors) /\ Len(rest) = m - n /\ \A i \in 1 .. m - n : rest[i] = sectors[n + i]
  <2>1. \A i \in n + 1 .. m : sectors[i] \in Sectors
    BY <1>2, <1>3
  <2>2. \A i \in 1 .. m - (n + 1) + 1 : rest[i] = sectors[(n + 1) + i - 1]
    BY <1>2, <2>1, SubSeqProperties
  <2>3. rest \in Seq(Sectors) /\ Len(rest) = IF n + 1 <= m THEN m - (n + 1) + 1 ELSE 0
    BY <1>2, <2>1, SubSeqProperties
  <2> HIDE DEF rest, m
  <2>4. \A i \in 1 .. m - n : (n + 1) + i - 1 = n + i /\ i \in 1 .. m - (n + 1) + 1
    BY <1>2
  <2>5. (IF n + 1 <= m THEN m - (n + 1) + 1 ELSE 0) = m - n
    BY <1>2
  <2>6. \A i \in 1 .. m - n : rest[i] = sectors[n + i]
    BY <2>2, <2>4
  <2> QED
    BY <2>3, <2>5, <2>6
<1>7. restData \in Seq(Data) /\ Len(restData) = m - n /\ \A i \in 1 .. m - n : restData[i] = data[n + i]
  <2> HIDE DEF m
  <2>1. \A i \in n + 1 .. m : data[i] \in Data
    BY <1>2, <1>3
  <2>2. restData = SubSeq(data, n + 1, m)
    BY <1>1
  <2>3. \A i \in 1 .. m - (n + 1) + 1 : restData[i] = data[(n + 1) + i - 1]
    BY <1>2, <2>1, <2>2, SubSeqProperties
  <2>4. restData \in Seq(Data) /\ Len(restData) = IF n + 1 <= m THEN m - (n + 1) + 1 ELSE 0
    BY <1>2, <2>1, <2>2, SubSeqProperties
  <2> HIDE DEF restData
  <2>5. \A i \in 1 .. m - n : (n + 1) + i - 1 = n + i /\ i \in 1 .. m - (n + 1) + 1
    BY <1>2
  <2>6. (IF n + 1 <= m THEN m - (n + 1) + 1 ELSE 0) = m - n
    BY <1>2
  <2>7. \A i \in 1 .. m - n : restData[i] = data[n + i]
    BY <2>3, <2>5
  <2> QED
    BY <2>4, <2>6, <2>7
<1> DEFINE start == sectors[1]
<1>8. start \in Sectors /\ \A i \in 1..n : sectors[i] = start + i - 1
  BY <1>2, <1>3 DEF FirstRun
<1> HIDE DEF m, rest, restData, batch, start
<1>9. start \in Nat /\ start + n - 1 \in Sectors /\ start + n - 1 <= NumSectors /\ n \in 1..NumSectors
  <2>1. sectors[n] = start + n - 1 /\ sectors[n] \in Sectors
    BY <1>2, <1>3, <1>8
  <2>2. start \in 1..NumSectors /\ start + n - 1 \in 1..NumSectors
    BY <1>8, <2>1 DEF Sectors
  <2> QED
    BY <1>2, <2>2 DEF Sectors
<1>10. \A i \in 1..n : JobKey(start, start + i - 1) \in WriteKeys
  <2> TAKE i \in 1..n
  <2>1. start \in Range(list) /\ start + i - 1 \in Range(list)
    <3>1. 1 \in DOMAIN sectors /\ i \in DOMAIN sectors
      BY <1>1, <1>2, LenProperties DEF m
    <3>2. sectors[1] \in Range(sectors) /\ sectors[i] \in Range(sectors)
      BY <3>1 DEF Range
    <3> QED
      BY <1>4, <1>8, <3>2 DEF start
  <2>2. start <= start + i - 1 /\ start + i - 1 < start + SlotBase /\ i <= SlotBase
    BY <1>1, <1>2, <1>9
  <2>3. JobKey(start, start + i - 1) \in Nat
    <3>1. SlotBase * start \in Nat
      BY <1>2, <1>9
    <3>2. (start + i - 1) - start \in Nat
      BY <1>9
    <3> QED
      BY <3>1, <3>2 DEF JobKey
  <2> QED
    BY <2>1, <2>2, <2>3 DEF WriteKeys
<1>11. IsBatch(write_batch_counter, start, batch)
  <2>1. n <= SlotBase
    BY <1>1, <1>2 DEF m
  <2> QED
    BY <1>5, <1>8, <1>9, <1>10, <2>1 DEF IsBatch, TypeInv, ValueTypes
<1>12. rest \in JobLists
  <2>1. Len(rest) <= SlotBase
    BY <1>1, <1>2, <1>6
  <2>2. Range(rest) \subseteq Range(sectors)
    <3> SUFFICES ASSUME NEW i \in 1 .. m - n PROVE rest[i] \in Range(sectors)
      BY <1>6, LenProperties DEF Range
    <3>1. n + i \in DOMAIN sectors
      BY <1>1, <1>2, LenProperties DEF m
    <3> QED
      BY <1>6, <3>1 DEF Range
  <2> QED
    BY <1>4, <1>6, <2>1, <2>2 DEF JobLists
<1>13. AreJobs(rest, restData)
  BY <1>6, <1>7, <1>12 DEF AreJobs
<1>14. rest = RestOf(sectors, n) /\ restData = RestOf(data, n)
  BY DEF rest, restData, m, RestOf
<1> QED
  BY <1>5, <1>6, <1>7, <1>11, <1>13, <1>14 DEF m, batch, start

-----------------------------------------------------------------------------
\* What the parts of the invariant give the actions.

LEMMA FrameFacts ==
    \A p \in Frames :
        /\ p # NoFrame
        /\ p.cmd \in {"echo", "go", "load", "hello", "quit", "peek", "write", "read"}
        /\ p.cmd \in {"echo", "go", "load", "hello", "quit", "peek"} => p \in Signals
        /\ p.cmd = "load" => p.key \in 1..NumBlocks
        /\ p.cmd = "write" => p \in Writes
        /\ p.cmd = "read" => p \in Reads
<1>1. \A p \in Signals : p.cmd \in {"echo", "go", "load", "hello", "quit", "peek"}
  BY DEF Signals, Echo, AllDone, Hello, Quit, ReadMemory, Load, Packet
<1>2. \A p \in Signals : p.cmd = "load" => p.key \in 1..NumBlocks
  BY DEF Signals, Echo, AllDone, Hello, Quit, ReadMemory, Load, Packet
<1>3. \A p \in Writes : p.cmd = "write"
  BY DEF Writes
<1>4. \A p \in Reads : p.cmd = "read"
  BY DEF Reads
<1>5. NoFrame.cmd = "none"
  BY DEF NoFrame
<1> QED
  BY <1>1, <1>2, <1>3, <1>4, <1>5 DEF Frames

LEMMA RunningTypes ==
    ASSUME CallTypes, Running
    PROVE  Current \in Steps /\ Tail(todo) \in Seq(Steps)
BY HeadTailProperties DEF CallTypes, Running, Current

LEMMA FrameOfStep ==
    ASSUME NEW step \in Steps, step.op \in {"send", "schedule", "unscheduled"}
    PROVE  step.frame \in Frames
BY DEF Steps

\* A frame goes into a free slot.
LEMMA PutFrame ==
    ASSUME SlotTypes, NEW slot \in Slots \ Occupied, NEW p \in Frames,
           unacked' = [unacked EXCEPT ![slot] = p], sent' = Append(sent, slot), stale' = stale
    PROVE  SlotTypes'
<1> DEFINE n == Len(sent)
<1>1. unacked[slot] = NoFrame /\ p # NoFrame
  BY FrameFacts DEF Occupied
<1>2. unacked' \in [Slots -> Frames \cup {NoFrame}]
  BY DEF SlotTypes
<1>3. Occupied' = Occupied \cup {slot}
  BY <1>1 DEF SlotTypes, Occupied
<1>4. n \in Nat /\ DOMAIN sent = 1..n
  BY LenProperties DEF SlotTypes
<1>5. sent' \in Seq(Slots) /\ Len(sent') = n + 1
      /\ (\A i \in 1..n : sent'[i] = sent[i]) /\ sent'[n + 1] = slot
  BY AppendProperties DEF SlotTypes
<1>6. DOMAIN sent' = 1 .. n + 1
  BY <1>5, LenProperties
<1> HIDE DEF n
<1>7. \A i \in 1 .. n + 1 : i \in 1..n \/ i = n + 1
  BY <1>4
<1>8. \A i \in 1..n : sent[i] \in Occupied
  BY <1>4 DEF SlotTypes, Range
<1>9. \A i, j \in 1 .. n + 1 : sent'[i] = sent'[j] => i = j
  <2> SUFFICES ASSUME NEW i \in 1 .. n + 1, NEW j \in 1 .. n + 1, sent'[i] = sent'[j] PROVE i = j
    OBVIOUS
  <2>1. CASE i \in 1..n /\ j \in 1..n
    BY <1>5, <2>1 DEF SlotTypes, n
  <2>2. CASE i = n + 1 /\ j = n + 1
    BY <2>2
  <2>3. CASE i \in 1..n /\ j = n + 1
    BY <1>5, <1>8, <2>3
  <2>4. CASE i = n + 1 /\ j \in 1..n
    BY <1>5, <1>8, <2>4
  <2> QED
    BY <1>7, <2>1, <2>2, <2>3, <2>4
<1>10. Range(sent') = Range(sent) \cup {slot}
  <2>1. \A i \in 1..n : i \in 1 .. n + 1
    BY <1>4
  <2>2. n + 1 \in 1 .. n + 1
    BY <1>4
  <2> QED
    BY <1>4, <1>5, <1>6, <1>7, <2>1, <2>2 DEF Range
<1>11. stale' \in SUBSET (Occupied')
  BY <1>3 DEF SlotTypes
<1>12. Range(sent') = Occupied'
  BY <1>3, <1>10 DEF SlotTypes
<1> QED
  BY <1>2, <1>5, <1>9, <1>11, <1>12 DEF SlotTypes

\* A slot is cleared.
LEMMA ClearSlot ==
    ASSUME SlotTypes, NEW slot \in Occupied,
           unacked' = [unacked EXCEPT ![slot] = NoFrame],
           sent' = RemoveAt(sent, CHOOSE i \in DOMAIN sent : sent[i] = slot),
           stale' = stale \ {slot}
    PROVE  SlotTypes'
<1>1. unacked' \in [Slots -> Frames \cup {NoFrame}]
  BY DEF SlotTypes
<1>2. Occupied' = Occupied \ {slot}
  BY DEF SlotTypes, Occupied
<1>3. /\ sent' \in Seq(Slots)
      /\ \A i, j \in 1..Len(sent') : sent'[i] = sent'[j] => i = j
      /\ Range(sent') = Range(sent) \ {slot}
  <2> DEFINE t == RemoveAt(sent, CHOOSE i \in DOMAIN sent : sent[i] = slot)
  <2>1. sent \in Seq(Slots) /\ slot \in Range(sent)
    BY DEF SlotTypes
  <2>2. \A i, j \in 1..Len(sent) : sent[i] = sent[j] => i = j
    BY DEF SlotTypes
  <2>3. /\ t \in Seq(Slots)
        /\ \A i, j \in 1..Len(t) : t[i] = t[j] => i = j
        /\ Range(t) = Range(sent) \ {slot}
    BY <2>1, <2>2, RemoveAtFacts
  <2> HIDE DEF t
  <2>4. sent' = t
    BY DEF t
  <2> QED
    BY <2>3, <2>4
<1>4. stale' \in SUBSET (Occupied')
  BY <1>2 DEF SlotTypes
<1>5. Range(sent') = Occupied'
  BY <1>2, <1>3 DEF SlotTypes
<1> QED
  BY <1>1, <1>3, <1>4, <1>5 DEF SlotTypes

\* The slot that is searched for holds what it is searched for.
LEMMA FreeSlot ==
    ASSUME SlotTypes, Free # {}
    PROVE  FirstOf(Free) \in Slots \ Occupied /\ FirstOf(Free) \in Free
<1>1. Free \subseteq Slots \ Occupied
  BY DEF Free, Unacked, Visible, Occupied
<1>2. Free \subseteq Nat
  BY <1>1, SlotFacts
<1> QED
  BY <1>1, <1>2, FirstOfMember

LEMMA AnsweredSlot ==
    ASSUME SlotTypes, NEW packet, Answers(packet) # {}
    PROVE  /\ FirstOf(Answers(packet)) \in Answers(packet)
           /\ FirstOf(Answers(packet)) \in Occupied
<1>1. Answers(packet) \subseteq Occupied
  BY DEF Answers, Unacked, Visible, Occupied
<1>2. Answers(packet) \subseteq Nat
  BY <1>1, SlotFacts DEF Occupied
<1> QED
  BY <1>1, <1>2, FirstOfMember

LEMMA OldestFrame ==
    ASSUME SlotTypes, VisibleSent # {}
    PROVE  /\ OldestSent \in Occupied /\ OldestSent \in Visible
           /\ unacked[OldestSent] \in Frames
<1>1. VisibleSent \subseteq 1..Len(sent) /\ VisibleSent \subseteq Nat
  BY LenProperties DEF VisibleSent, SlotTypes
<1>2. FirstOf(VisibleSent) \in VisibleSent
  BY <1>1, FirstOfMember
<1>3. OldestSent \in Range(sent) /\ OldestSent \in Visible
  BY <1>2 DEF VisibleSent, OldestSent, Range
<1> QED
  BY <1>3 DEF SlotTypes, Occupied

\* What the device answers can be received.
LEMMA RepliesFacts ==
    ASSUME ValueTypes, NEW packet \in Frames
    PROVE  Replies(packet) \in Seq(AllAnswers)
<1>1. ASSUME packet \in Signals PROVE <<packet>> \in Seq(AllAnswers)
  BY <1>1 DEF AllAnswers
<1>2. <<>> \in Seq(AllAnswers)
  BY EmptySeq
<1>3. ASSUME packet \in Writes PROVE <<[packet EXCEPT !.data = None]>> \in Seq(AllAnswers)
  <2>1. [packet EXCEPT !.data = None] \in WriteAnswers
    BY <1>3 DEF Writes, WriteAnswers
  <2>2. [packet EXCEPT !.data = None] \in AllAnswers
    BY <2>1 DEF AllAnswers
  <2> QED
    BY <2>2
<1>4. ASSUME packet \in Reads
      PROVE  [i \in 1 .. packet.id + 1 |->
               Packet("read", packet.id, 0, packet.key + i - 1,
                      IF packet.key + i - 1 \in Sectors
                      THEN device.card[packet.key + i - 1] ELSE None)] \in Seq(AllAnswers)
  <2> DEFINE n == packet.id + 1
             value(k) == IF k \in Sectors THEN device.card[k] ELSE None
             answer(i) == Packet("read", packet.id, 0, packet.key + i - 1, value(packet.key + i - 1))
  <2>1. /\ packet.id \in 0..ReadWindow /\ packet.key \in 1..NumSectors
        /\ packet.key + packet.id <= NumSectors + 1
    BY <1>4 DEF Reads, Sectors
  <2>2. n \in Nat /\ NumSectors \in Nat /\ ReadWindow \in Nat
    BY <2>1, EtherloadAssumption
  <2>3. \A k : value(k) \in Data \cup {AsFound, None}
    BY DEF ValueTypes
  <2> HIDE DEF value
  <2>4. \A i \in 1..n : answer(i) \in ReadAnswers
    <3> TAKE i \in 1..n
    <3>1. packet.key + i - 1 \in 1 .. NumSectors + 1
      BY <2>1, <2>2
    <3> QED
      BY <2>1, <2>3, <3>1 DEF Packet, ReadAnswers
  <2> HIDE DEF answer, n
  <2> DEFINE f == [i \in 1..n |-> answer(i)]
  <2>5. f \in [1..n -> AllAnswers]
    BY <2>4 DEF AllAnswers
  <2> HIDE DEF f
  <2>6. f \in Seq(AllAnswers)
    BY <2>2, <2>5, FunctionIsSeq
  <2> QED
    BY <2>6 DEF f, answer, value, n
<1>5. CASE device.program = "loader"
  <2>1. CASE packet.cmd \in SingleCommands \cup {"load"}
    <3>1. Replies(packet) = <<packet>>
      BY <1>5, <2>1 DEF Replies
    <3> QED
      BY <1>1, <2>1, <3>1, FrameFacts DEF SingleCommands
  <2>2. CASE packet.cmd \notin SingleCommands \cup {"load"}
    <3>1. Replies(packet) = <<>>
      BY <1>5, <2>2 DEF Replies
    <3> QED
      BY <1>2, <3>1
  <2> QED
    BY <2>1, <2>2
<1>6. CASE device.program = "helper"
  <2>1. CASE packet.cmd = "read"
    <3>1. packet \in Reads
      BY <2>1, FrameFacts
    <3> QED
      BY <1>4, <1>6, <2>1, <3>1 DEF Replies
  <2>2. CASE packet.cmd = "write"
    <3>1. packet \in Writes
      BY <2>2, FrameFacts
    <3> QED
      BY <1>3, <1>6, <2>2, <3>1 DEF Replies
  <2>3. CASE packet.cmd \in {"hello", "peek", "quit"}
    <3>1. packet \in Signals
      BY <2>3, FrameFacts
    <3> QED
      BY <1>1, <1>6, <2>3, <3>1 DEF Replies
  <2>4. CASE packet.cmd \notin {"read", "write", "hello", "peek", "quit"}
    <3>1. Replies(packet) = <<>>
      BY <1>6, <2>4 DEF Replies
    <3> QED
      BY <1>2, <3>1
  <2> QED
    BY <2>1, <2>2, <2>3, <2>4
<1>7. CASE device.program = "off"
  <2>1. Replies(packet) = <<>>
    BY <1>7 DEF Replies
  <2> QED
    BY <1>2, <2>1
<1> QED
  BY <1>5, <1>6, <1>7 DEF ValueTypes

-----------------------------------------------------------------------------
\* Every step keeps the types.

LEMMA InitTypes == Init => TypeInv
<1> SUFFICES ASSUME Init PROVE TypeInv
  OBVIOUS
<1>1. CallTypes
  <2>1. Connect \in Seq(Steps)
    BY ConnectScript
  <2>2. 0 \in 0..MaxCalls /\ 0 \in 0..MaxGiveUps
    BY EtherloadAssumption
  <2> QED
    BY <2>1, <2>2 DEF Init, CallTypes
<1>2. SlotTypes
  <2>1. sent = <<>> /\ sent \in Seq(Slots) /\ Len(sent) = 0 /\ DOMAIN sent = {}
    BY EmptySeq DEF Init
  <2>2. Occupied = {}
    BY DEF Init, Occupied
  <2> QED
    BY <2>1, <2>2 DEF Init, SlotTypes, Range
<1>3. WireTypes
  <2>1. <<>> \in Seq(Frames) /\ <<>> \in Seq(AllAnswers) /\ Len(<<>>) = 0
    BY EmptySeq
  <2> QED
    BY <2>1, EtherloadAssumption DEF Init, WireTypes
<1>4. ValueTypes
  BY EtherloadAssumption DEF Init, ValueTypes, Windows
<1> QED
  BY <1>1, <1>2, <1>3, <1>4 DEF TypeInv

\* The steps of a call that do not touch the slots or the wires.
LEMMA KeptTypes ==
    ASSUME SlotTypes, WireTypes
    PROVE  /\ UNCHANGED <<unacked, sent, stale>> => SlotTypes'
           /\ UNCHANGED <<up, down>> => WireTypes'
BY DEF SlotTypes, WireTypes, Occupied

LEMMA NextStepTypes ==
    ASSUME CallTypes, Running, NextStep, conn' \in {conn, "up", "finished"},
           UNCHANGED <<calls, giveUps, doubtful, gaveUp>>
    PROVE  CallTypes'
BY RunningTypes DEF CallTypes, NextStep

LEMMA ReceiveTypes == ASSUME TypeInv, Receive PROVE TypeInv'
<1> DEFINE packet == Head(down)
           known == HasSequence(packet) /\ Answers(packet) # {}
           slot == FirstOf(Answers(packet))
           isData == known /\ callbacks = "ethernet" /\ packet.cmd = "read"
<1>1. CallTypes /\ SlotTypes /\ WireTypes /\ ValueTypes
  BY DEF TypeInv
<1>2. packet \in AllAnswers /\ Tail(down) \in Seq(AllAnswers) /\ Len(Tail(down)) <= WireCapacity
  <2>1. down \in Seq(AllAnswers) /\ down # <<>> /\ Len(down) <= WireCapacity
    BY <1>1 DEF WireTypes, Receive
  <2>2. packet \in AllAnswers /\ Tail(down) \in Seq(AllAnswers) /\ Len(Tail(down)) = Len(down) - 1
    BY <2>1, HeadTailProperties
  <2>3. Len(down) \in Nat /\ WireCapacity \in Nat
    BY <2>1, LenProperties, EtherloadAssumption
  <2> QED
    BY <2>1, <2>2, <2>3
<1>3. packet.cmd = "read" => packet.data \in Data \cup {AsFound, None}
  BY <1>2 DEF AllAnswers, Signals, WriteAnswers, ReadAnswers, Echo, AllDone, Hello, Quit,
              ReadMemory, Load, Packet
<1>4. CallTypes'
  <2>1. todo' \in Seq(Steps) /\ conn' \in {conn, "killed"}
    BY <1>1, EmptySeq DEF Receive, CallTypes
  <2>2. polled' \in BOOLEAN /\ heard' \in BOOLEAN
    BY DEF Receive
  <2> QED
    BY <1>1, <2>1, <2>2 DEF Receive, CallTypes, ghosts
<1>5. SlotTypes'
  <2>1. CASE known
    <3>1. slot \in Occupied
      BY <1>1, <2>1, AnsweredSlot
    <3>2. /\ unacked' = [unacked EXCEPT ![slot] = NoFrame]
          /\ sent' = RemoveAt(sent, CHOOSE i \in DOMAIN sent : sent[i] = slot)
          /\ stale' = stale \ {slot}
      BY <2>1 DEF Receive
    <3> HIDE DEF slot
    <3> QED
      BY <1>1, <3>1, <3>2, ClearSlot
  <2>2. CASE ~known
    <3>1. UNCHANGED <<unacked, sent, stale>>
      BY <2>2 DEF Receive
    <3> QED
      BY <1>1, <3>1, KeptTypes
  <2> QED
    BY <2>1, <2>2
<1>6. WireTypes'
  BY <1>1, <1>2 DEF WireTypes, Receive
<1>7. ValueTypes'
  <2>1. queue_read_data' \in [0 .. ReadBatch - 1 -> Data \cup {AsFound, None}]
    <3>1. queue_read_data' = queue_read_data
          \/ (isData /\ queue_read_data' = [queue_read_data EXCEPT ![Index(packet)] = packet.data])
      BY DEF Receive
    <3> QED
      BY <1>1, <1>3, <3>1 DEF ValueTypes
  <2>2. memory_read_buffer_len' \in {0, 1}
    BY <1>1 DEF Receive, ValueTypes
  <2> QED
    BY <1>1, <2>1, <2>2 DEF Receive, ValueTypes, protocol, ghosts
<1> QED
  BY <1>4, <1>5, <1>6, <1>7 DEF TypeInv

LEMMA ResendTypes == ASSUME TypeInv, Resend PROVE TypeInv'
<1>1. CallTypes /\ SlotTypes /\ WireTypes /\ ValueTypes
  BY DEF TypeInv
<1>2. CallTypes'
  BY <1>1 DEF Resend, CallTypes, ghosts
<1>3. SlotTypes'
  BY <1>1, KeptTypes DEF Resend, SlotTypes, Occupied
<1>4. WireTypes'
  <2>1. unacked[OldestSent] \in Frames /\ up \in Seq(Frames) /\ Len(up) < WireCapacity
    BY <1>1, OldestFrame DEF Resend, WireTypes
  <2>2. Append(up, unacked[OldestSent]) \in Seq(Frames)
        /\ Len(Append(up, unacked[OldestSent])) = Len(up) + 1
    BY <2>1, AppendProperties
  <2>3. Len(up) \in Nat /\ WireCapacity \in Nat
    BY <2>1, LenProperties, EtherloadAssumption
  <2>4. Len(up) + 1 <= WireCapacity
    BY <2>1, <2>3
  <2>5. up' = Append(up, unacked[OldestSent]) /\ down' = down
    BY DEF Resend
  <2> QED
    BY <1>1, <2>2, <2>4, <2>5 DEF WireTypes
<1>5. ValueTypes'
  BY <1>1 DEF Resend, ValueTypes, results, protocol, ghosts
<1> QED
  BY <1>2, <1>3, <1>4, <1>5 DEF TypeInv

LEMMA ExitTypes == ASSUME TypeInv, Exit \/ PeekFails PROVE TypeInv'
<1>1. CallTypes /\ SlotTypes /\ WireTypes /\ ValueTypes
  BY DEF TypeInv
<1>2. conn' = "exited" /\ todo' = <<>> /\ UNCHANGED <<host, results, protocol, wires, ghosts>>
  BY DEF Exit, PeekFails
<1>3. CallTypes'
  BY <1>1, <1>2, EmptySeq DEF CallTypes, ghosts, host
<1>4. SlotTypes' /\ WireTypes'
  BY <1>1, <1>2, KeptTypes DEF host, wires
<1>5. ValueTypes'
  BY <1>1, <1>2 DEF ValueTypes, host, wires, results, protocol, ghosts
<1> QED
  BY <1>3, <1>4, <1>5 DEF TypeInv

LEMMA GiveUpTypes == ASSUME TypeInv, GiveUp PROVE TypeInv'
<1>1. CallTypes /\ SlotTypes /\ WireTypes /\ ValueTypes
  BY DEF TypeInv
<1>2. doubtful' \in SUBSET Sectors
  <2> DEFINE F == {unacked[s] : s \in Slots}
                  \cup (IF Current.op = "send" THEN {Current.frame} ELSE {})
  <2>1. F \subseteq Frames \cup {NoFrame}
    <3>1. Current.op = "send" => Current.frame \in Frames
      BY <1>1, RunningTypes, FrameOfStep DEF GiveUp, Waiting
    <3> QED
      BY <1>1, <3>1 DEF SlotTypes
  <2> HIDE DEF F
  <2>2. ASSUME NEW f \in F, f.cmd = "write" PROVE (f.key \div SlotBase) + (f.key % SlotBase) \in Sectors
    <3>1. f # NoFrame
      BY <2>2 DEF NoFrame
    <3>2. f \in Writes
      BY <2>1, <2>2, <3>1, FrameFacts
    <3>3. f.key \in WriteKeys
      BY <3>2 DEF Writes
    <3> QED
      BY <3>3, KeySector
  <2>3. SectorsOf(F) \subseteq Sectors
    BY <2>2 DEF SectorsOf
  <2>4. doubtful' \in {Sectors, doubtful \cup SectorsOf(F)}
    BY DEF GiveUp, F
  <2> QED
    BY <1>1, <2>3, <2>4 DEF CallTypes
<1>3. CallTypes'
  <2>1. todo' \in Seq(Steps) /\ polled' \in BOOLEAN /\ heard' \in BOOLEAN
    BY <1>1, RunningTypes, EmptySeq DEF GiveUp, Waiting, NextStep, CallTypes
  <2>2. conn' \in {conn, "failed"} /\ gaveUp' = "now" /\ calls' = calls
    BY DEF GiveUp
  <2>3. giveUps' \in 0..MaxGiveUps
    BY <1>1, EtherloadAssumption DEF GiveUp, CallTypes
  <2> QED
    BY <1>1, <1>2, <2>1, <2>2, <2>3 DEF CallTypes
<1>4. SlotTypes'
  BY <1>1 DEF GiveUp, SlotTypes, Occupied
<1>5. WireTypes'
  BY <1>1, KeptTypes DEF GiveUp, wires
<1>6. ValueTypes'
  BY <1>1 DEF GiveUp, ValueTypes, results, protocol, wires
<1> QED
  BY <1>3, <1>4, <1>5, <1>6 DEF TypeInv

LEMMA WaitTypes == ASSUME TypeInv, Wait PROVE TypeInv'
<1>1. CallTypes /\ SlotTypes /\ WireTypes /\ ValueTypes
  BY DEF TypeInv
<1>2. CallTypes'
  BY <1>1, NextStepTypes DEF Wait, ghosts
<1>3. SlotTypes' /\ WireTypes'
  BY <1>1, KeptTypes DEF Wait, wires
<1>4. ValueTypes'
  BY <1>1 DEF Wait, ValueTypes, results, protocol, wires, ghosts
<1> QED
  BY <1>2, <1>3, <1>4 DEF TypeInv

LEMMA SendOrScheduleTypes == ASSUME TypeInv, SendOrSchedule PROVE TypeInv'
<1> DEFINE slot == FirstOf(Free)
<1>1. CallTypes /\ SlotTypes /\ WireTypes /\ ValueTypes
  BY DEF TypeInv
<1>2. CallTypes'
  BY <1>1, NextStepTypes DEF SendOrSchedule, ghosts
<1>3. Current.frame \in Frames
  BY <1>1, RunningTypes, FrameOfStep DEF SendOrSchedule
<1>4. SlotTypes'
  <2>1. slot \in Slots \ Occupied
    BY <1>1, FreeSlot DEF SendOrSchedule, Ready
  <2>2. unacked' = [unacked EXCEPT ![slot] = Current.frame] /\ sent' = Append(sent, slot)
        /\ stale' = stale
    BY DEF SendOrSchedule
  <2> HIDE DEF slot
  <2> QED
    BY <1>1, <1>3, <2>1, <2>2, PutFrame
<1>5. WireTypes'
  <2>1. Transmit(up, Current.frame) \in Seq(Frames) /\ Len(Transmit(up, Current.frame)) <= WireCapacity
    BY <1>1, <1>3, TransmitOne DEF WireTypes
  <2>2. up' \in {up, Transmit(up, Current.frame)} /\ down' = down
    BY DEF SendOrSchedule
  <2> QED
    BY <1>1, <2>1, <2>2 DEF WireTypes
<1>6. ValueTypes'
  BY <1>1 DEF SendOrSchedule, ValueTypes, results, protocol, ghosts
<1> QED
  BY <1>2, <1>4, <1>5, <1>6 DEF TypeInv

LEMMA SendUnscheduledTypes == ASSUME TypeInv, SendUnscheduled PROVE TypeInv'
<1>1. CallTypes /\ SlotTypes /\ WireTypes /\ ValueTypes
  BY DEF TypeInv
<1>2. CallTypes'
  BY <1>1, NextStepTypes DEF SendUnscheduled, ghosts
<1>3. SlotTypes'
  BY <1>1, KeptTypes DEF SendUnscheduled
<1>4. WireTypes'
  <2>1. Current.frame \in Frames
    BY <1>1, RunningTypes, FrameOfStep DEF SendUnscheduled
  <2>2. Transmit(up, Current.frame) \in Seq(Frames) /\ Len(Transmit(up, Current.frame)) <= WireCapacity
    BY <1>1, <2>1, TransmitOne DEF WireTypes
  <2>3. up' = Transmit(up, Current.frame) /\ down' = down
    BY DEF SendUnscheduled
  <2> QED
    BY <1>1, <2>2, <2>3 DEF WireTypes
<1>5. ValueTypes'
  BY <1>1 DEF SendUnscheduled, ValueTypes, results, protocol, ghosts
<1> QED
  BY <1>2, <1>3, <1>4, <1>5 DEF TypeInv

LEMMA SetTypes == ASSUME TypeInv, SetQueueLength \/ SetCallbacks PROVE TypeInv'
<1>1. CallTypes /\ SlotTypes /\ WireTypes /\ ValueTypes
  BY DEF TypeInv
<1>2. Running /\ NextStep /\ UNCHANGED <<conn, unacked, sent, stale, results, protocol, wires, ghosts>>
  BY DEF SetQueueLength, SetCallbacks
<1>3. CallTypes'
  BY <1>1, <1>2, NextStepTypes DEF ghosts
<1>4. SlotTypes' /\ WireTypes'
  BY <1>1, <1>2, KeptTypes DEF wires
<1>5. ValueTypes'
  <2>1. Current \in Steps
    BY <1>1, <1>2, RunningTypes
  <2>2. queue_length' \in Windows /\ callbacks' \in {"dmaload", "single", "ethernet"}
    BY <1>1, <2>1 DEF Steps, ValueTypes, SetQueueLength, SetCallbacks
  <2> QED
    BY <1>1, <1>2, <2>2 DEF ValueTypes, results, protocol, wires, ghosts
<1> QED
  BY <1>3, <1>4, <1>5 DEF TypeInv

LEMMA AssignTypes == ASSUME TypeInv, Assign PROVE TypeInv'
<1>1. CallTypes /\ SlotTypes /\ WireTypes /\ ValueTypes
  BY DEF TypeInv
<1>2. Running /\ NextStep /\ UNCHANGED <<unacked, sent, queue_length, callbacks, stale,
                                        queue_read_data, wires, ghosts>>
  BY DEF Assign
<1>3. CallTypes'
  <2>1. conn' \in {conn, "up", "finished"}
    BY DEF Assign
  <2> QED
    BY <1>1, <1>2, <2>1, NextStepTypes DEF ghosts
<1>4. SlotTypes' /\ WireTypes'
  BY <1>1, <1>2, KeptTypes DEF wires
<1>5. ValueTypes'
  <2>1. Current.op = "batch_start" => Current.sector \in Sectors
    <3>1. Current \in Steps
      BY <1>1, <1>2, RunningTypes
    <3> QED
      BY <3>1 DEF Steps
  <2>2. eth_batch_start_sector' \in 0..NumSectors
    BY <1>1, <2>1, EtherloadAssumption DEF Assign, protocol, ValueTypes, Sectors
  <2>3. write_batch_counter' \in 0 .. BatchIds - 1
    <3>1. NextBatch \in 0 .. BatchIds - 1
      BY <1>1, EtherloadAssumption DEF NextBatch, ValueTypes
    <3>2. write_batch_counter' \in {write_batch_counter, NextBatch}
      BY DEF Assign, protocol
    <3> QED
      BY <1>1, <3>1, <3>2 DEF ValueTypes
  <2>4. memory_read_buffer_len' \in {0, 1}
    BY <1>1 DEF Assign, ValueTypes
  <2> QED
    BY <1>1, <1>2, <2>2, <2>3, <2>4 DEF ValueTypes, wires, ghosts
<1> QED
  BY <1>3, <1>4, <1>5 DEF TypeInv

LEMMA NextJobsTypes == ASSUME TypeInv, NextJobs PROVE TypeInv'
<1>1. CallTypes /\ SlotTypes /\ WireTypes /\ ValueTypes
  BY DEF TypeInv
<1>2. todo' \in Seq(Steps)
  <2> DEFINE sectors == Current.sectors
             data == Current.data
  <2>1. AreJobs(sectors, data)
    <3>1. Current \in Steps /\ Current.op = "jobs"
      BY <1>1, RunningTypes DEF NextJobs
    <3> QED
      BY <3>1 DEF Steps, AreJobs
  <2>2. PICK n \in DOMAIN sectors :
          /\ FirstRun(sectors, n)
          /\ todo' = WriteSectorsJob(write_batch_counter, sectors[1], SubSeq(data, 1, n))
                       \o WriteJobs(SubSeq(sectors, n + 1, Len(sectors)),
                                    SubSeq(data, n + 1, Len(data)))
    BY DEF NextJobs
  <2> HIDE DEF sectors, data
  <2> DEFINE batch == SubSeq(data, 1, n)
             start == sectors[1]
             rest == SubSeq(sectors, n + 1, Len(sectors))
             restData == SubSeq(data, n + 1, Len(data))
             last == WriteJobs(rest, restData)
  <2>3. IsBatch(write_batch_counter, start, batch) /\ AreJobs(rest, restData)
    BY <2>1, <2>2, NextRun DEF RestOf
  <2> HIDE DEF batch, start, rest, restData
  <2>4. last \in Seq(Steps)
    BY <2>3, JobsScript
  <2> HIDE DEF last
  <2>5. BatchThen(write_batch_counter, start, batch, last) \in Seq(Steps)
    BY <2>3, <2>4, WriteScript
  <2> QED
    BY <2>2, <2>5 DEF batch, start, last, rest, restData, BatchThen
<1>3. polled' = FALSE /\ heard' = FALSE
      /\ UNCHANGED <<conn, unacked, sent, queue_length, callbacks, stale, results,
                     protocol, wires, ghosts>>
  BY DEF NextJobs
<1>4. CallTypes'
  BY <1>1, <1>2, <1>3 DEF CallTypes, ghosts
<1>5. SlotTypes' /\ WireTypes'
  BY <1>1, <1>3, KeptTypes DEF wires
<1>6. ValueTypes'
  BY <1>1, <1>3 DEF ValueTypes, results, protocol, wires, ghosts
<1> QED
  BY <1>4, <1>5, <1>6 DEF TypeInv

LEMMA CallsTypes ==
    ASSUME TypeInv, NEW script \in Seq(Steps), Call(script),
           wanted' \in [Sectors -> Data \cup {AsFound}]
    PROVE  TypeInv'
<1>1. CallTypes /\ SlotTypes /\ WireTypes /\ ValueTypes
  BY DEF TypeInv
<1>2. CallTypes'
  <2>1. calls' \in 0..MaxCalls
    BY <1>1, EtherloadAssumption DEF Call, CallTypes
  <2>2. gaveUp' \in {"never", "before", "now"}
    BY <1>1 DEF Call, CallTypes
  <2> QED
    BY <1>1, <2>1, <2>2 DEF Call, CallTypes, host
<1>3. SlotTypes' /\ WireTypes'
  BY <1>1, KeptTypes DEF Call, host, wires
<1>4. ValueTypes'
  BY <1>1 DEF Call, ValueTypes, host, results, protocol, wires
<1> QED
  BY <1>2, <1>3, <1>4 DEF TypeInv

LEMMA WriteQueueTypes ==
    ASSUME TypeInv, NEW sectors \in WriteLists, NEW data \in [DOMAIN sectors -> Data],
           ExecuteWriteQueue(sectors, data)
    PROVE  TypeInv'
<1>1. sectors \in Seq(Sectors) /\ Len(sectors) \in 1..SlotBase
  BY WriteListsAssumption
<1>2. DOMAIN sectors = 1..Len(sectors)
  BY <1>1, LenProperties
<1>3. AreJobs(sectors, data)
  <2>1. data \in Seq(Data) /\ Len(data) = Len(sectors)
    BY <1>1, <1>2, LenProperties, FunctionIsSeq
  <2> QED
    BY <1>1, <2>1 DEF AreJobs, JobLists
<1>4. WriteJobs(sectors, data) \in Seq(Steps)
  BY <1>3, JobsScript
<1>5. wanted' \in [Sectors -> Data \cup {AsFound}]
  BY DEF ExecuteWriteQueue, TypeInv, ValueTypes
<1> QED
  BY <1>4, <1>5, CallsTypes DEF ExecuteWriteQueue

LEMMA ReadSectorTypes ==
    ASSUME TypeInv, NEW start \in 1 .. NumSectors - ReadBatch + 1, ReadSector(start)
    PROVE  TypeInv'
<1>1. ReadJob(start) \in Seq(Steps)
  BY ReadScript DEF ReadStarts
<1> QED
  BY <1>1, CallsTypes DEF ReadSector, TypeInv, ValueTypes

LEMMA FinishTypes == ASSUME TypeInv, Finish PROVE TypeInv'
BY QuitScript, CallsTypes DEF Finish, TypeInv, ValueTypes

LEMMA DeviceReceivesTypes == ASSUME TypeInv, DeviceReceives PROVE TypeInv'
<1> DEFINE packet == Head(up)
<1>1. CallTypes /\ SlotTypes /\ WireTypes /\ ValueTypes
  BY DEF TypeInv
<1>2. packet \in Frames /\ Tail(up) \in Seq(Frames) /\ Len(Tail(up)) <= WireCapacity
  <2>1. up \in Seq(Frames) /\ up # <<>> /\ Len(up) <= WireCapacity
    BY <1>1 DEF WireTypes, DeviceReceives
  <2>2. packet \in Frames /\ Tail(up) \in Seq(Frames) /\ Len(Tail(up)) = Len(up) - 1
    BY <2>1, HeadTailProperties
  <2>3. Len(up) \in Nat /\ WireCapacity \in Nat
    BY <2>1, LenProperties, EtherloadAssumption
  <2> QED
    BY <2>1, <2>2, <2>3
<1>3. CallTypes' /\ SlotTypes'
  BY <1>1, KeptTypes DEF DeviceReceives, host, ghosts, CallTypes
<1>4. WireTypes'
  <2>1. Replies(packet) \in Seq(AllAnswers)
    BY <1>1, <1>2, RepliesFacts
  <2>2. down' = TransmitAll(down, Replies(packet)) /\ up' = Tail(up)
    BY DEF DeviceReceives
  <2> HIDE DEF packet
  <2>3. TransmitAll(down, Replies(packet)) \in Seq(AllAnswers)
        /\ Len(TransmitAll(down, Replies(packet))) <= WireCapacity
    BY <1>1, <2>1, TransmitFacts DEF WireTypes
  <2> QED
    BY <1>2, <2>2, <2>3 DEF WireTypes
<1>5. ValueTypes'
  <2>1. device' \in [program : {"loader", "helper", "off"}, blocks : SUBSET (1..NumBlocks),
                     card : [Sectors -> Data \cup {AsFound}]]
    <3>1. packet.cmd = "load" => packet.key \in 1..NumBlocks
      BY <1>2, FrameFacts
    <3>2. packet.cmd = "write" => packet.data \in Data
      BY <1>2, FrameFacts DEF Writes
    <3>3. \/ device' = device
          \/ packet.cmd = "load" /\ device' = [device EXCEPT !.blocks = @ \cup {packet.key}]
          \/ device' = [device EXCEPT !.program = "helper"]
          \/ packet.cmd = "write" /\ device' = [device EXCEPT !.card[Written(packet)] = packet.data]
          \/ device' = [device EXCEPT !.program = "off"]
      BY DEF DeviceReceives
    <3> HIDE DEF packet
    <3> QED
      BY <1>1, <3>1, <3>2, <3>3 DEF ValueTypes
  <2> QED
    BY <1>1, <2>1 DEF DeviceReceives, ValueTypes, host, results, protocol, ghosts
<1> QED
  BY <1>3, <1>4, <1>5 DEF TypeInv

LEMMA LoseTypes == ASSUME TypeInv, Lose PROVE TypeInv'
<1>1. CallTypes /\ SlotTypes /\ WireTypes /\ ValueTypes
  BY DEF TypeInv
<1>2. CallTypes' /\ SlotTypes'
  BY <1>1, KeptTypes DEF Lose, host, ghosts, CallTypes
<1>3. WireTypes'
  <2>1. ASSUME NEW S, NEW w \in Seq(S), w # <<>>, Len(w) <= WireCapacity
        PROVE  Tail(w) \in Seq(S) /\ Len(Tail(w)) <= WireCapacity
    <3>1. Len(w) \in Nat /\ WireCapacity \in Nat
      BY LenProperties, EtherloadAssumption
    <3>2. Tail(w) \in Seq(S) /\ Len(Tail(w)) = Len(w) - 1
      BY <2>1, HeadTailProperties
    <3>3. Len(w) - 1 <= WireCapacity
      BY <2>1, <3>1
    <3> QED
      BY <3>2, <3>3
  <2> QED
    BY <1>1, <2>1 DEF Lose, WireTypes
<1>4. ValueTypes'
  BY <1>1 DEF Lose, ValueTypes, host, results, protocol, ghosts
<1> QED
  BY <1>2, <1>3, <1>4 DEF TypeInv

LEMMA StepKeepsTypes == TypeInv /\ [Next]_vars => TypeInv'
<1> SUFFICES ASSUME TypeInv, [Next]_vars PROVE TypeInv'
  OBVIOUS
<1>1. CASE UNCHANGED vars
  BY <1>1 DEF vars, host, results, protocol, wires, ghosts, TypeInv, CallTypes, SlotTypes,
              WireTypes, ValueTypes, Occupied
<1>2. CASE HostStep
  <2>1. CASE Wait
    BY <2>1, WaitTypes
  <2>2. CASE SendOrSchedule
    BY <2>2, SendOrScheduleTypes
  <2>3. CASE SendUnscheduled
    BY <2>3, SendUnscheduledTypes
  <2>4. CASE SetQueueLength \/ SetCallbacks
    BY <2>4, SetTypes
  <2>5. CASE Assign
    BY <2>5, AssignTypes
  <2>6. CASE NextJobs
    BY <2>6, NextJobsTypes
  <2>7. CASE PeekFails
    BY <2>7, ExitTypes
  <2> QED
    BY <1>2, <2>1, <2>2, <2>3, <2>4, <2>5, <2>6, <2>7 DEF HostStep
<1>3. CASE Receive \/ Resend \/ GiveUp \/ Exit
  BY <1>3, ReceiveTypes, ResendTypes, GiveUpTypes, ExitTypes
<1>4. CASE \E sectors \in WriteLists : \E data \in [DOMAIN sectors -> Data] : ExecuteWriteQueue(sectors, data)
  BY <1>4, WriteQueueTypes
<1>5. CASE \E start \in 1 .. NumSectors - ReadBatch + 1 : ReadSector(start)
  BY <1>5, ReadSectorTypes
<1>6. CASE Finish \/ DeviceReceives \/ Lose
  BY <1>6, FinishTypes, DeviceReceivesTypes, LoseTypes
<1> QED
  BY <1>1, <1>2, <1>3, <1>4, <1>5, <1>6 DEF Next

LEMMA TypesAlways == Spec => []TypeInv
BY InitTypes, StepKeepsTypes, PTL DEF Spec

\* What the wires carry and the slots hold are packets.
LEMMA FramesArePackets == Frames \cup AllAnswers \subseteq Packets
<1>1. NumSectors \in Nat /\ ReadWindow \in Nat /\ ReadWindow > 0
  BY EtherloadAssumption
<1>2. Signals \subseteq Packets
  BY DEF Signals, Packets
<1>3. Writes \subseteq Packets /\ WriteAnswers \subseteq Packets
  BY KeyFacts DEF Writes, WriteAnswers, Packets
<1>4. 1 .. NumSectors + 1 \subseteq 1 .. NumSectors + ReadWindow
      /\ Sectors \subseteq 1 .. NumSectors + ReadWindow
  BY <1>1 DEF Sectors
<1>5. Reads \subseteq Packets
  BY <1>4 DEF Reads, Packets
<1>6. ReadAnswers \subseteq Packets
  BY <1>4 DEF ReadAnswers, Packets
<1> QED
  BY <1>2, <1>3, <1>5, <1>6 DEF Frames, AllAnswers

LEMMA TypesImplyTypeOK == TypeInv => TypeOK
<1> SUFFICES ASSUME TypeInv PROVE TypeOK
  OBVIOUS
<1>1. CallTypes /\ SlotTypes /\ WireTypes /\ ValueTypes
  BY DEF TypeInv
<1>2. \A s \in Slots : unacked[s] \in Packets \union {NoFrame}
  BY <1>1, FramesArePackets DEF SlotTypes
<1>3. Range(sent) = {s \in Slots : unacked[s] # NoFrame}
  BY <1>1 DEF SlotTypes, Occupied
<1>4. Len(sent) = Cardinality(Range(sent))
  <2>1. sent \in Seq(Slots) /\ Len(sent) \in Nat /\ DOMAIN sent = 1..Len(sent)
    BY <1>1, LenProperties DEF SlotTypes
  <2>2. sent \in Bijection(1..Len(sent), Range(sent))
    <3>1. sent \in [1..Len(sent) -> Range(sent)]
      BY <2>1 DEF Range
    <3>2. IsInjective(sent)
      BY <1>1, <2>1 DEF SlotTypes, IsInjective
    <3>3. \A t \in Range(sent) : \E s \in 1..Len(sent) : sent[s] = t
      BY <2>1 DEF Range
    <3> QED
      BY <3>1, <3>2, <3>3 DEF Bijection, Injection, Surjection
  <2>3. ExistsBijection(1..Len(sent), Range(sent))
    BY <2>2 DEF ExistsBijection
  <2> QED
    BY <2>1, <2>3, FS_CountingElements
<1>5. stale \subseteq Range(sent)
  BY <1>1 DEF SlotTypes
<1>6. Range(up) \union Range(down) \subseteq Packets
  BY <1>1, FramesArePackets, RangeOfSeq DEF WireTypes
<1>7. Len(up) <= WireCapacity /\ Len(down) <= WireCapacity
  BY <1>1 DEF WireTypes
<1>8. /\ device.program \in {"loader", "helper", "off"}
      /\ device.blocks \subseteq 1..NumBlocks
      /\ {device.card, wanted} \subseteq [Sectors -> Data \union {AsFound}]
  BY <1>1 DEF ValueTypes
<1>9. /\ queue_length \in {LoadWindow, WriteWindow, ReadWindow}
      /\ callbacks \in {"dmaload", "single", "ethernet"}
      /\ write_batch_counter \in 0 .. BatchIds - 1
      /\ eth_batch_start_sector \in 0..NumSectors
      /\ queue_read_data \in [0 .. ReadBatch - 1 -> Data \union {AsFound, None}]
      /\ memory_read_buffer_len \in {0, 1}
  BY <1>1 DEF ValueTypes, Windows
<1>10. /\ conn \in {"down", "up", "failed", "exited", "killed", "finished"}
       /\ {polled, heard} \subseteq BOOLEAN
       /\ calls \in 0..MaxCalls /\ giveUps \in 0..MaxGiveUps
       /\ doubtful \subseteq Sectors
       /\ gaveUp \in {"never", "before", "now"}
  BY <1>1 DEF CallTypes
<1> QED
  BY <1>2, <1>3, <1>4, <1>5, <1>6, <1>7, <1>8, <1>9, <1>10 DEF TypeOK

\* Every variable of the layer has its type whatever the network and the
\* clocks do: the slots in the order of the send times are just those that
\* hold a frame, each once, and the batch counter stays a byte.
THEOREM TypeCorrect == Spec => []TypeOK
BY TypesAlways, TypesImplyTypeOK, PTL

-----------------------------------------------------------------------------
(***************************************************************************)
(* The helper is started complete.  As long as no wait ran out, either all *)
(* blocks are in the device's memory or the host is somewhere in the first *)
(* steps of Connect: every block whose packet it sent is in memory or has  *)
(* a slot, and an answer on its way says that its block is in memory.      *)
(***************************************************************************)
Remaining(script, k) == SubSeq(script, k, Len(script))

LoaderPackets == {Echo} \cup {Load(b) : b \in 1..NumBlocks}
LoadFrames(k) ==
    IF k = 4 THEN {Echo} ELSE {Load(b) : b \in {c \in 1..NumBlocks : c <= k - 6}}

LoadingHost(k) ==
    /\ conn = "down"
    /\ todo = Remaining(Connect, k)
    /\ callbacks = IF k \in 3..5 THEN "single" ELSE "dmaload"
    /\ queue_length = LoadWindow
LoadingSlots(k) ==
    /\ \A s \in Occupied : s < queue_length /\ unacked[s] \in LoadFrames(k)
    /\ \A b \in 1..NumBlocks :
         b <= k - 6 => b \in device.blocks \/ \E s \in Occupied : unacked[s] = Load(b)
LoadingWires ==
    /\ device.program = "loader"
    /\ Range(up) \subseteq LoaderPackets /\ Range(down) \subseteq LoaderPackets
    /\ \A b \in 1..NumBlocks : Load(b) \in Range(down) => b \in device.blocks
Loading(k) == LoadingHost(k) /\ LoadingSlots(k) /\ LoadingWires

Loaded == device.blocks = 1..NumBlocks
LoadInv ==
    gaveUp = "never" => Loaded \/ \E k \in 1 .. 6 + NumBlocks : Loading(k)

LEMMA RangeFacts ==
    ASSUME NEW S, NEW w \in Seq(S)
    PROVE  /\ w # <<>> => Head(w) \in Range(w) /\ Range(Tail(w)) \subseteq Range(w)
           /\ \A p \in S : Range(Append(w, p)) = Range(w) \cup {p}
<1>1. Len(w) \in Nat /\ DOMAIN w = 1..Len(w)
  BY LenProperties
<1>2. ASSUME w # <<>> PROVE Head(w) \in Range(w) /\ Range(Tail(w)) \subseteq Range(w)
  <2>1. Len(w) > 0
    BY <1>1, <1>2, EmptySeq
  <2>2. Head(w) = w[1] /\ 1 \in DOMAIN w
    BY <1>1, <2>1
  <2>3. Tail(w) \in Seq(S) /\ Len(Tail(w)) = Len(w) - 1
        /\ \A i \in 1..Len(Tail(w)) : Tail(w)[i] = w[i + 1]
    BY <1>2, HeadTailProperties
  <2>4. DOMAIN Tail(w) = 1..Len(Tail(w))
    BY <2>3, LenProperties
  <2>5. \A i \in 1..Len(Tail(w)) : i + 1 \in DOMAIN w
    BY <1>1, <2>1, <2>3
  <2> QED
    BY <2>2, <2>3, <2>4, <2>5 DEF Range
<1>3. ASSUME NEW p \in S PROVE Range(Append(w, p)) = Range(w) \cup {p}
  <2> DEFINE a == Append(w, p)
             n == Len(w)
  <2>1. a \in Seq(S) /\ Len(a) = n + 1 /\ (\A i \in 1..n : a[i] = w[i]) /\ a[n + 1] = p
    BY AppendProperties
  <2> HIDE DEF a
  <2>2. DOMAIN a = 1 .. n + 1
    BY <2>1, LenProperties
  <2>3. n + 1 \in 1 .. n + 1 /\ \A i \in 1 .. n + 1 : i \in 1..n \/ i = n + 1
    BY <1>1
  <2>4. \A i \in 1..n : i \in 1 .. n + 1
    BY <1>1
  <2> QED
    BY <1>1, <2>1, <2>2, <2>3, <2>4 DEF Range, a
<1> QED
  BY <1>2, <1>3

LEMMA TransmitRange ==
    ASSUME NEW S, NEW wire \in Seq(S), Len(wire) <= WireCapacity, NEW packets \in Seq(S)
    PROVE  Range(TransmitAll(wire, packets)) \subseteq Range(wire) \cup Range(packets)
<1> DEFINE t == TransmitAll(wire, packets)
           m == Len(wire)
<1>1. /\ t \in Seq(S) /\ Len(t) <= m + Len(packets)
      /\ \A i \in 1..Len(t) : t[i] = IF i <= m THEN wire[i] ELSE packets[i - m]
  BY TransmitFacts
<1> HIDE DEF t
<1>2. DOMAIN t = 1..Len(t) /\ Len(t) \in Nat
  BY <1>1, LenProperties
<1>3. m \in Nat /\ DOMAIN wire = 1..m /\ Len(packets) \in Nat /\ DOMAIN packets = 1..Len(packets)
  BY LenProperties
<1>4. \A i \in 1..Len(t) : i \in 1..m \/ (~(i <= m) /\ i - m \in 1..Len(packets))
  BY <1>1, <1>2, <1>3
<1>5. \A i \in 1..Len(t) : t[i] \in Range(wire) \cup Range(packets)
  <2> TAKE i \in 1..Len(t)
  <2>1. CASE i \in 1..m
    <3>1. i <= m
      BY <1>3, <2>1
    <3> QED
      BY <1>1, <1>3, <2>1, <3>1 DEF Range
  <2>2. CASE ~(i <= m) /\ i - m \in 1..Len(packets)
    BY <1>1, <1>3, <2>2 DEF Range
  <2> QED
    BY <1>4, <2>1, <2>2
<1>6. Range(t) \subseteq Range(wire) \cup Range(packets)
  BY <1>2, <1>5 DEF Range
<1> QED
  BY <1>6 DEF t

LEMMA TransmitOneRange ==
    ASSUME NEW S, NEW wire \in Seq(S), Len(wire) <= WireCapacity, NEW p \in S
    PROVE  Range(Transmit(wire, p)) \subseteq Range(wire) \cup {p}
<1> DEFINE one == <<p>>
<1>1. one \in Seq(S) /\ Range(one) = {p}
  BY DEF Range
<1> HIDE DEF one
<1>2. Range(TransmitAll(wire, one)) \subseteq Range(wire) \cup Range(one)
  BY <1>1, TransmitRange
<1> QED
  BY <1>1, <1>2 DEF Transmit, one

\* A running script: its next step, and what is left behind it.
LEMMA ScriptFacts ==
    ASSUME NEW script \in Seq(Steps), NEW k \in 1..Len(script), todo = Remaining(script, k)
    PROVE  /\ Running /\ Current = script[k]
           /\ Tail(todo) = Remaining(script, k + 1)
<1>1. Len(script) \in Nat /\ Len(script) \in k..Len(script)
  BY LenProperties
<1>2. Head(todo) = script[k] /\ Tail(todo) = SubSeq(script, k + 1, Len(script))
  BY <1>1, HeadTailOfSubSeq DEF Remaining
<1>3. todo # <<>>
  <2>1. \A i \in k..Len(script) : script[i] \in Steps
    BY <1>1, ElementOfSeq
  <2>2. todo \in Seq(Steps) /\ Len(todo) = IF k <= Len(script) THEN Len(script) - k + 1 ELSE 0
    BY <1>1, <2>1, SubSeqProperties DEF Remaining
  <2>3. Len(todo) > 0
    BY <1>1, <2>2
  <2> QED
    BY <2>3, EmptySeq
<1> QED
  BY <1>2, <1>3 DEF Running, Current, Remaining

\* A script begins with all of it left, and is over behind its last step.
LEMMA ScriptEnds ==
    ASSUME NEW script \in Seq(Steps)
    PROVE  /\ Remaining(script, 1) = script
           /\ Remaining(script, Len(script) + 1) = <<>>
BY SubSeqFull, SubSeqEmpty, LenProperties DEF Remaining

\* wait_all_acks() ends with every slot free, when no frame is out of sight.
LEMMA AllFree ==
    ASSUME TypeInv, \A s \in Occupied : s < queue_length, Cardinality(Free) >= queue_length
    PROVE  Occupied = {}
<1>1. queue_length \in Nat /\ 0 .. queue_length - 1 \subseteq Slots /\ Slots \subseteq Nat
  BY SlotFacts DEF TypeInv, ValueTypes
<1>2. Visible = 0 .. queue_length - 1
  <2>1. ASSUME NEW s \in 0 .. queue_length - 1 PROVE s \in Visible
    <3>1. s \in Slots /\ s < queue_length
      BY <1>1
    <3> QED
      BY <3>1 DEF Visible
  <2>2. ASSUME NEW s \in Visible PROVE s \in 0 .. queue_length - 1
    <3>1. s \in Nat /\ s < queue_length
      BY <1>1 DEF Visible
    <3> QED
      BY <1>1, <3>1
  <2> QED
    BY <2>1, <2>2
<1>3. IsFiniteSet(Visible) /\ Cardinality(Visible) = queue_length
  <2>1. IsFiniteSet(0 .. queue_length - 1)
        /\ Cardinality(0 .. queue_length - 1) =
             IF 0 > queue_length - 1 THEN 0 ELSE (queue_length - 1) - 0 + 1
    BY <1>1, FS_Interval
  <2> QED
    BY <1>1, <1>2, <2>1
<1>4. Free \subseteq Visible
  BY DEF Free
<1>5. Free = Visible
  <2>1. IsFiniteSet(Free) /\ Cardinality(Free) <= Cardinality(Visible)
        /\ (Cardinality(Visible) = Cardinality(Free) => Free = Visible)
    BY <1>3, <1>4, FS_Subset
  <2>2. Cardinality(Free) \in Nat
    BY <2>1, FS_CardinalityType
  <2> QED
    BY <1>1, <1>3, <2>1, <2>2
<1>6. Unacked = {}
  BY <1>5 DEF Free, Unacked
<1> QED
  BY <1>6 DEF Unacked, Occupied, Visible

\* Where in Connect the loader still runs, and which step comes there.
LEMMA LoadingStep ==
    ASSUME NEW k \in 1 .. 6 + NumBlocks, LoadingHost(k)
    PROVE  /\ Running /\ Tail(todo) = Remaining(Connect, k + 1)
           /\ k \in {1, 6 + NumBlocks} => Current = WaitAll
           /\ k = 2 => Current = Callbacks("single")
           /\ k = 3 => Current = Send(Echo, TRUE)
           /\ k = 4 => Current = WaitSlots(0, TRUE)
           /\ k = 5 => Current = Callbacks("dmaload")
           /\ k \in 6 .. 5 + NumBlocks => k - 5 \in 1..NumBlocks /\ Current = Send(Load(k - 5), TRUE)
<1> DEFINE n == NumBlocks
<1>1. n \in Nat
  BY EtherloadAssumption
<1>2. /\ Connect \in Seq(Steps) /\ Len(Connect) = 20 + n
      /\ Connect[1] = WaitAll /\ Connect[2] = Callbacks("single") /\ Connect[3] = Send(Echo, TRUE)
      /\ Connect[4] = WaitSlots(0, TRUE) /\ Connect[5] = Callbacks("dmaload")
      /\ Connect[6 + n] = WaitAll
  BY ConnectScript
<1>3. \A b \in 1..n : Connect[5 + b] = Send(Load(b), TRUE)
  BY ConnectScript
<1>4. k \in 1..Len(Connect) /\ todo = Remaining(Connect, k)
  BY <1>1, <1>2 DEF LoadingHost
<1>5. Running /\ Current = Connect[k] /\ Tail(todo) = Remaining(Connect, k + 1)
  BY <1>2, <1>4, ScriptFacts
<1>6. ASSUME k \in 6 .. 5 + n PROVE k - 5 \in 1..n /\ Current = Send(Load(k - 5), TRUE)
  <2>1. k - 5 \in 1..n /\ 5 + (k - 5) = k
    BY <1>1, <1>6
  <2> QED
    BY <1>3, <1>5, <2>1
<1> QED
  BY <1>2, <1>5, <1>6

LEMMA LoadingOps ==
    ASSUME NEW k \in 1 .. 6 + NumBlocks, LoadingHost(k)
    PROVE  /\ Current.op \in {"wait", "callbacks", "send"}
           /\ Current.op = "wait" => k \in {1, 4, 6 + NumBlocks} /\ Current.slots = 0
           /\ Current.op = "callbacks" => k \in {2, 5}
           /\ Current.op = "send" => k = 3 \/ k \in 6 .. 5 + NumBlocks
<1>1. k \in {1, 6 + NumBlocks} \/ k = 2 \/ k = 3 \/ k = 4 \/ k = 5 \/ k \in 6 .. 5 + NumBlocks
  BY EtherloadAssumption
<1>2. WaitAll.op = "wait" /\ WaitAll.slots = 0
      /\ WaitSlots(0, TRUE).op = "wait" /\ WaitSlots(0, TRUE).slots = 0
      /\ Callbacks("single").op = "callbacks" /\ Callbacks("dmaload").op = "callbacks"
      /\ Send(Echo, TRUE).op = "send" /\ \A b : Send(Load(b), TRUE).op = "send"
  BY DEF WaitAll, WaitSlots, Callbacks, Send
<1> QED
  BY <1>1, <1>2, LoadingStep

\* What every step does to the device's memory and to the host's patience.
LEMMA BlocksGrow ==
    ASSUME [Next]_vars
    PROVE  /\ device' = device \/ DeviceReceives
           /\ gaveUp' = gaveUp \/ GiveUp \/ gaveUp' = "before"
<1>1. CASE UNCHANGED vars
  BY <1>1 DEF vars, wires, ghosts
<1>2. CASE HostStep
  BY <1>2 DEF HostStep, Wait, SendOrSchedule, SendUnscheduled, SetQueueLength, SetCallbacks,
              Assign, NextJobs, PeekFails, wires, ghosts
<1>3. CASE Receive \/ Resend \/ GiveUp \/ Exit
  BY <1>3 DEF Receive, Resend, GiveUp, Exit, wires, ghosts
<1>4. CASE \E script : Call(script)
  BY <1>4 DEF Call, wires
<1>5. CASE DeviceReceives \/ Lose
  BY <1>5 DEF DeviceReceives, Lose, ghosts
<1> QED
  BY <1>1, <1>2, <1>3, <1>4, <1>5 DEF Next, ExecuteWriteQueue, ReadSector, Finish

LEMMA LoadedStays ==
    ASSUME TypeInv, TypeInv', [Next]_vars, Loaded
    PROVE  Loaded'
<1>1. device.blocks \subseteq device'.blocks
  <2>1. CASE device' = device
    BY <2>1
  <2>2. CASE DeviceReceives
    <3>1. \/ device' = device
          \/ device' = [device EXCEPT !.blocks = @ \cup {Head(up).key}]
          \/ device' = [device EXCEPT !.program = "helper"]
          \/ device' = [device EXCEPT !.card[Written(Head(up))] = Head(up).data]
          \/ device' = [device EXCEPT !.program = "off"]
      BY <2>2 DEF DeviceReceives
    <3> QED
      BY <3>1 DEF TypeInv, ValueTypes
  <2> QED
    BY <2>1, <2>2, BlocksGrow
<1>2. device'.blocks \subseteq 1..NumBlocks
  BY DEF TypeInv, ValueTypes
<1> QED
  BY <1>1, <1>2 DEF Loaded

LEMMA WaitLoads ==
    ASSUME TypeInv, NEW k \in 1 .. 6 + NumBlocks, Loading(k), Wait
    PROVE  Loaded' \/ \E m \in 1 .. 6 + NumBlocks : Loading(m)'
<1> DEFINE n == NumBlocks
<1>1. n \in Nat
  BY EtherloadAssumption
<1>2. k \in {1, 4, 6 + n} /\ Cardinality(Free) >= queue_length
  <2>1. k \in {1, 4, 6 + n} /\ Current.slots = 0
    BY LoadingOps DEF Loading, Wait
  <2> QED
    BY <2>1 DEF Wait, Ready
<1>3. Occupied = {}
  BY <1>2, AllFree DEF Loading, LoadingSlots
<1>4. UNCHANGED <<conn, callbacks, queue_length, unacked, up, down, device>>
  BY DEF Wait, wires
<1>5. CASE k = 6 + n
  <2>1. \A b \in 1..n : b <= k - 6
    BY <1>1, <1>5
  <2>2. \A b \in 1..n : b \in device.blocks
    BY <1>3, <2>1 DEF Loading, LoadingSlots
  <2>3. device.blocks \subseteq 1..n
    BY DEF TypeInv, ValueTypes
  <2> QED
    BY <1>4, <2>2, <2>3 DEF Loaded
<1>6. CASE k \in {1, 4} /\ k # 6 + n
  <2>1. k + 1 \in 1 .. 6 + n
    BY <1>1, <1>6
  <2>2. LoadingHost(k + 1)'
    <3>1. todo' = Remaining(Connect, k + 1)
      BY LoadingStep DEF Loading, Wait, NextStep
    <3>2. (IF k \in 3..5 THEN "single" ELSE "dmaload") = (IF k + 1 \in 3..5 THEN "single" ELSE "dmaload")
      BY <1>6
    <3> QED
      BY <1>4, <3>1, <3>2 DEF Loading, LoadingHost
  <2>3. LoadingSlots(k + 1)'
    <3>1. Occupied' = {}
      BY <1>3, <1>4 DEF Occupied
    <3>2. \A b \in 1..n : ~(b <= k + 1 - 6)
      BY <1>6
    <3> QED
      BY <3>1, <3>2 DEF LoadingSlots
  <2>4. LoadingWires'
    BY <1>4 DEF Loading, LoadingWires
  <2>5. Loading(k + 1)'
    BY <2>2, <2>3, <2>4 DEF Loading
  <2> QED
    BY <2>1, <2>5
<1> QED
  BY <1>2, <1>5, <1>6

LEMMA CallbacksLoads ==
    ASSUME TypeInv, NEW k \in 1 .. 6 + NumBlocks, Loading(k), SetCallbacks
    PROVE  \E m \in 1 .. 6 + NumBlocks : Loading(m)'
<1> DEFINE n == NumBlocks
<1>1. n \in Nat /\ n > 0
  BY EtherloadAssumption
<1>2. k \in {2, 5}
  BY LoadingOps DEF Loading, SetCallbacks
<1>3. UNCHANGED <<conn, queue_length, unacked, up, down, device>>
  BY DEF SetCallbacks, wires
<1>4. k + 1 \in 1 .. 6 + n
  BY <1>1, <1>2
<1>5. LoadingHost(k + 1)'
  <2>1. todo' = Remaining(Connect, k + 1) /\ callbacks' = Current.who
    BY LoadingStep DEF Loading, SetCallbacks, NextStep
  <2>2. callbacks' = IF k + 1 \in 3..5 THEN "single" ELSE "dmaload"
    <3>1. LoadingHost(k)
      BY DEF Loading
    <3>2. CASE k = 2
      <4>1. Current = Callbacks("single")
        BY <3>1, <3>2, LoadingStep
      <4> QED
        BY <2>1, <3>2, <4>1 DEF Callbacks
    <3>3. CASE k = 5
      <4>1. Current = Callbacks("dmaload")
        BY <3>1, <3>3, LoadingStep
      <4> QED
        BY <2>1, <3>3, <4>1 DEF Callbacks
    <3> QED
      BY <1>2, <3>2, <3>3
  <2> QED
    BY <1>3, <2>1, <2>2 DEF Loading, LoadingHost
<1>6. LoadingSlots(k + 1)'
  <2>1. LoadFrames(k) = {}
    BY <1>2 DEF LoadFrames
  <2>2. Occupied' = {}
    BY <1>3, <2>1 DEF Loading, LoadingSlots, Occupied
  <2>3. \A b \in 1..n : ~(b <= k + 1 - 6)
    BY <1>2
  <2> QED
    BY <2>2, <2>3 DEF LoadingSlots
<1>7. LoadingWires'
  BY <1>3 DEF Loading, LoadingWires
<1>8. Loading(k + 1)'
  BY <1>5, <1>6, <1>7 DEF Loading
<1> QED
  BY <1>4, <1>8

LEMMA LoadFramesFacts ==
    ASSUME NEW k \in 1 .. 6 + NumBlocks
    PROVE  /\ LoadFrames(k) \subseteq LoaderPackets
           /\ k = 3 => LoadFrames(k) = {} /\ LoadFrames(k + 1) = {Echo}
           /\ k \in 6 .. 5 + NumBlocks =>
                LoadFrames(k) \cup {Load(k - 5)} \subseteq LoadFrames(k + 1)
<1>1. NumBlocks \in Nat
  BY EtherloadAssumption
<1>2. LoadFrames(k) \subseteq LoaderPackets
  BY DEF LoadFrames, LoaderPackets
<1>3. k = 3 => LoadFrames(k) = {} /\ LoadFrames(k + 1) = {Echo}
  BY DEF LoadFrames
<1>4. ASSUME k \in 6 .. 5 + NumBlocks
      PROVE  LoadFrames(k) \cup {Load(k - 5)} \subseteq LoadFrames(k + 1)
  <2>1. k # 4 /\ k + 1 # 4 /\ k - 5 \in 1..NumBlocks /\ k - 5 <= k + 1 - 6
    BY <1>1, <1>4
  <2>2. \A c \in 1..NumBlocks : c <= k - 6 => c <= k + 1 - 6
    BY <1>1, <1>4
  <2> QED
    BY <2>1, <2>2 DEF LoadFrames
<1> QED
  BY <1>2, <1>3, <1>4

LEMMA SendLoads ==
    ASSUME TypeInv, NEW k \in 1 .. 6 + NumBlocks, Loading(k), SendOrSchedule
    PROVE  \E m \in 1 .. 6 + NumBlocks : Loading(m)'
<1> DEFINE n == NumBlocks
           slot == FirstOf(Free)
           p == Current.frame
<1>1. n \in Nat /\ n > 0
  BY EtherloadAssumption
<1>2. Current.op = "send" /\ (k = 3 \/ k \in 6 .. 5 + n)
  BY LoadingOps DEF Loading, SendOrSchedule
<1>3. (k = 3 => p = Echo) /\ (k \in 6 .. 5 + n => p = Load(k - 5) /\ k - 5 \in 1..n)
  <2>1. LoadingHost(k)
    BY DEF Loading
  <2>2. ASSUME k = 3 PROVE p = Echo
    <3>1. Current = Send(Echo, TRUE)
      BY <2>1, <2>2, LoadingStep
    <3> QED
      BY <3>1 DEF Send
  <2>3. ASSUME k \in 6 .. 5 + n PROVE p = Load(k - 5) /\ k - 5 \in 1..n
    <3>1. k - 5 \in 1..n /\ Current = Send(Load(k - 5), TRUE)
      BY <2>1, <2>3, LoadingStep
    <3> QED
      BY <3>1 DEF Send
  <2> QED
    BY <2>2, <2>3
<1>4. k + 1 \in 1 .. 6 + n /\ LoadFrames(k) \subseteq LoadFrames(k + 1) /\ p \in LoadFrames(k + 1)
      /\ LoadFrames(k + 1) \subseteq LoaderPackets
  <2>1. k + 1 \in 1 .. 6 + n
    BY <1>1, <1>2
  <2> QED
    BY <1>2, <1>3, <2>1, LoadFramesFacts
<1>5. slot \in Slots \ Occupied /\ slot < queue_length
  BY FreeSlot DEF SendOrSchedule, Ready, Free, Visible, TypeInv
<1>6. unacked' = [unacked EXCEPT ![slot] = p] /\ up' = Transmit(up, p)
      /\ UNCHANGED <<conn, queue_length, callbacks, down, device>>
  BY <1>2 DEF SendOrSchedule
<1>7. LoadingHost(k + 1)'
  <2>1. todo' = Remaining(Connect, k + 1)
    BY LoadingStep DEF Loading, SendOrSchedule, NextStep
  <2>2. (IF k \in 3..5 THEN "single" ELSE "dmaload") = (IF k + 1 \in 3..5 THEN "single" ELSE "dmaload")
    BY <1>2
  <2> QED
    BY <1>6, <2>1, <2>2 DEF Loading, LoadingHost
<1> HIDE DEF slot, p
<1>8. \A s \in Slots : unacked'[s] = IF s = slot THEN p ELSE unacked[s]
  BY <1>6 DEF TypeInv, SlotTypes
<1>9. LoadingSlots(k + 1)'
  <2>1. p # NoFrame
    BY <1>4, FrameFacts DEF LoaderPackets, Frames, Signals
  <2>2. Occupied' = Occupied \cup {slot}
    BY <1>5, <1>8, <2>1 DEF Occupied
  <2>3. \A s \in Occupied : unacked'[s] = unacked[s]
    BY <1>5, <1>8 DEF Occupied
  <2>4. ASSUME NEW b \in 1..n, b <= k + 1 - 6
        PROVE  b \in device.blocks \/ \E s \in Occupied \cup {slot} : unacked'[s] = Load(b)
    <3>1. CASE b <= k - 6
      BY <2>3, <3>1 DEF Loading, LoadingSlots
    <3>2. CASE ~(b <= k - 6)
      <4>1. b = k - 5 /\ k \in 6 .. 5 + n
        BY <1>1, <1>2, <2>4, <3>2
      <4> QED
        BY <1>3, <1>5, <1>8, <4>1
    <3> QED
      BY <3>1, <3>2
  <2>5. \A s \in Occupied \cup {slot} : s < queue_length /\ unacked'[s] \in LoadFrames(k + 1)
    BY <1>4, <1>5, <1>8, <2>3 DEF Loading, LoadingSlots
  <2> QED
    BY <1>6, <2>2, <2>4, <2>5 DEF LoadingSlots
<1>10. LoadingWires'
  <2>1. p \in Frames
    BY <1>4 DEF LoaderPackets, Frames, Signals
  <2>2. Range(Transmit(up, p)) \subseteq Range(up) \cup {p}
    BY <2>1, TransmitOneRange DEF TypeInv, WireTypes
  <2>3. Range(up') \subseteq LoaderPackets
    BY <1>4, <1>6, <2>2 DEF Loading, LoadingWires
  <2> QED
    BY <1>6, <2>3 DEF Loading, LoadingWires
<1>11. Loading(k + 1)'
  BY <1>7, <1>9, <1>10 DEF Loading
<1> QED
  BY <1>4, <1>11

LEMMA ReceiveLoads ==
    ASSUME TypeInv, NEW k \in 1 .. 6 + NumBlocks, Loading(k), Receive
    PROVE  Loading(k)'
<1> DEFINE packet == Head(down)
           known == HasSequence(packet) /\ Answers(packet) # {}
           slot == FirstOf(Answers(packet))
<1>1. callbacks \in {"single", "dmaload"}
  BY DEF Loading, LoadingHost
<1>2. UNCHANGED <<conn, todo, queue_length, callbacks, up, device>> /\ down' = Tail(down)
      /\ unacked' = IF known THEN [unacked EXCEPT ![slot] = NoFrame] ELSE unacked
  BY <1>1 DEF Receive
<1>3. LoadingHost(k)'
  BY <1>2 DEF Loading, LoadingHost
<1>4. packet \in Range(down) /\ Range(Tail(down)) \subseteq Range(down)
  BY RangeFacts DEF Receive, TypeInv, WireTypes
<1>5. LoadingWires'
  BY <1>2, <1>4 DEF Loading, LoadingWires
<1>6. LoadingSlots(k)'
  <2>1. CASE ~known
    BY <1>2, <2>1 DEF Loading, LoadingSlots, Occupied
  <2>2. CASE known
    <3>1. slot \in Answers(packet) /\ slot \in Occupied
      BY <2>2, AnsweredSlot DEF TypeInv
    <3>2. MatchPayloads(packet, unacked[slot])
      BY <3>1 DEF Answers
    <3>3. unacked' = [unacked EXCEPT ![slot] = NoFrame]
      BY <1>2, <2>2
    <3> HIDE DEF slot, packet
    <3>4. \A s \in Slots : unacked'[s] = IF s = slot THEN NoFrame ELSE unacked[s]
      BY <3>3 DEF TypeInv, SlotTypes
    <3>5. Occupied' = Occupied \ {slot}
      BY <3>4 DEF Occupied
    <3>6. \A s \in Occupied \ {slot} : unacked'[s] = unacked[s]
      BY <3>4 DEF Occupied
    <3>7. ASSUME NEW b \in 1..NumBlocks, b <= k - 6
          PROVE  b \in device.blocks \/ \E s \in Occupied \ {slot} : unacked'[s] = Load(b)
      <4>1. b \in device.blocks \/ \E s \in Occupied : unacked[s] = Load(b)
        BY <3>7 DEF Loading, LoadingSlots
      <4>2. CASE unacked[slot] = Load(b)
        <5>1. callbacks = "dmaload"
          BY <3>7 DEF Loading, LoadingHost
        <5>2. packet = Load(b)
          BY <3>2, <4>2, <5>1 DEF MatchPayloads
        <5> QED
          BY <1>4, <5>2 DEF Loading, LoadingWires
      <4> QED
        BY <3>6, <4>1, <4>2
    <3> QED
      BY <1>2, <3>5, <3>6, <3>7 DEF Loading, LoadingSlots
  <2> QED
    BY <2>1, <2>2
<1> QED
  BY <1>3, <1>5, <1>6 DEF Loading

LEMMA ResendLoads ==
    ASSUME TypeInv, NEW k \in 1 .. 6 + NumBlocks, Loading(k), Resend
    PROVE  Loading(k)'
<1> DEFINE p == unacked[OldestSent]
<1>1. p \in Frames /\ p \in LoaderPackets
  BY OldestFrame, LoadFramesFacts DEF Resend, TypeInv, Loading, LoadingSlots
<1>2. Range(Append(up, p)) = Range(up) \cup {p}
  BY <1>1, RangeFacts DEF TypeInv, WireTypes
<1>3. up' = Append(up, p)
      /\ UNCHANGED <<conn, todo, unacked, queue_length, callbacks, down, device>>
  BY DEF Resend
<1> HIDE DEF p
<1>4. LoadingWires'
  BY <1>1, <1>2, <1>3 DEF Loading, LoadingWires
<1> QED
  BY <1>3, <1>4 DEF Loading, LoadingHost, LoadingSlots, Occupied

LEMMA DeviceLoads ==
    ASSUME TypeInv, NEW k \in 1 .. 6 + NumBlocks, Loading(k), DeviceReceives
    PROVE  Loading(k)'
<1> DEFINE packet == Head(up)
<1>1. packet \in Range(up) /\ Range(Tail(up)) \subseteq Range(up)
  BY RangeFacts DEF DeviceReceives, TypeInv, WireTypes
<1>2. packet \in LoaderPackets /\ device.program = "loader"
  BY <1>1 DEF Loading, LoadingWires
<1>3. packet.cmd \in {"echo", "load"} /\ (packet.cmd = "load" => packet.key \in 1..NumBlocks)
      /\ \A b : packet = Load(b) => packet.cmd = "load" /\ packet.key = b
  BY <1>2 DEF LoaderPackets, Echo, Load, Packet
<1>4. Replies(packet) = <<packet>>
  BY <1>2, <1>3 DEF Replies, SingleCommands
<1>5. /\ up' = Tail(up) /\ down' = Transmit(down, packet)
      /\ UNCHANGED <<conn, todo, unacked, queue_length, callbacks>>
  BY <1>4 DEF DeviceReceives, Transmit, host
<1>6. device' = IF packet.cmd = "load" THEN [device EXCEPT !.blocks = @ \cup {packet.key}] ELSE device
  BY <1>2, <1>3 DEF DeviceReceives
<1>7. Range(down') \subseteq Range(down) \cup {packet}
  <2>1. packet \in AllAnswers
    BY <1>2 DEF LoaderPackets, AllAnswers, Signals
  <2> QED
    BY <1>5, <2>1, TransmitOneRange DEF TypeInv, WireTypes
<1> HIDE DEF packet
<1>8. device'.program = "loader" /\ device.blocks \subseteq device'.blocks
      /\ (packet.cmd = "load" => packet.key \in device'.blocks)
  BY <1>2, <1>6 DEF TypeInv, ValueTypes
<1>9. LoadingWires'
  BY <1>1, <1>2, <1>3, <1>5, <1>7, <1>8 DEF Loading, LoadingWires
<1>10. LoadingSlots(k)'
  BY <1>5, <1>8 DEF Loading, LoadingSlots, Occupied
<1> QED
  BY <1>5, <1>9, <1>10 DEF Loading, LoadingHost

LEMMA LoseLoads ==
    ASSUME TypeInv, NEW k \in 1 .. 6 + NumBlocks, Loading(k), Lose
    PROVE  Loading(k)'
<1>1. Range(up') \subseteq Range(up) /\ Range(down') \subseteq Range(down)
  BY RangeFacts DEF Lose, TypeInv, WireTypes
<1>2. UNCHANGED <<conn, todo, unacked, queue_length, callbacks, device>>
  BY DEF Lose, host
<1> QED
  BY <1>1, <1>2 DEF Loading, LoadingHost, LoadingSlots, LoadingWires, Occupied

LEMMA LoadingSteps ==
    ASSUME TypeInv, NEW k \in 1 .. 6 + NumBlocks, Loading(k), Next, ~GiveUp
    PROVE  Loaded' \/ \E m \in 1 .. 6 + NumBlocks : Loading(m)'
<1>1. Running /\ Current.op \in {"wait", "callbacks", "send"}
      /\ conn = "down" /\ callbacks # "ethernet"
  BY LoadingStep, LoadingOps DEF Loading, LoadingHost
<1>2. Wait \/ SetCallbacks \/ SendOrSchedule \/ Receive \/ Resend \/ DeviceReceives \/ Lose
  BY <1>1 DEF Next, HostStep, SendUnscheduled, SetQueueLength, Assign, NextJobs, PeekFails,
              Exit, ExecuteWriteQueue, ReadSector, Finish, Call
<1> QED
  BY <1>2, WaitLoads, CallbacksLoads, SendLoads, ReceiveLoads, ResendLoads, DeviceLoads, LoseLoads

LEMMA InitLoads == Init => LoadInv
<1> SUFFICES ASSUME Init PROVE Loading(1)
  BY EtherloadAssumption DEF LoadInv
<1>1. todo = Remaining(Connect, 1)
  BY ConnectScript, ScriptEnds DEF Init
<1>2. LoadingHost(1)
  BY <1>1 DEF Init, LoadingHost
<1>3. LoadingSlots(1)
  <2>1. Occupied = {}
    BY DEF Init, Occupied
  <2>2. \A b \in 1..NumBlocks : ~(b <= 1 - 6)
    OBVIOUS
  <2> QED
    BY <2>1, <2>2 DEF LoadingSlots
<1>4. LoadingWires
  <2>1. Range(<<>>) = {}
    BY EmptySeq DEF Range
  <2> QED
    BY <2>1 DEF Init, LoadingWires
<1> QED
  BY <1>2, <1>3, <1>4 DEF Loading

LEMMA StepLoads == TypeInv /\ TypeInv' /\ LoadInv /\ [Next]_vars => LoadInv'
<1> SUFFICES ASSUME TypeInv, TypeInv', LoadInv, [Next]_vars, gaveUp' = "never"
             PROVE  Loaded' \/ \E k \in 1 .. 6 + NumBlocks : Loading(k)'
  BY DEF LoadInv
<1>1. gaveUp = "never" /\ ~GiveUp
  BY BlocksGrow DEF GiveUp
<1>2. CASE Loaded
  BY <1>2, LoadedStays
<1>3. CASE \E k \in 1 .. 6 + NumBlocks : Loading(k)
  <2>1. PICK k \in 1 .. 6 + NumBlocks : Loading(k)
    BY <1>3
  <2>2. CASE Next
    BY <1>1, <2>1, <2>2, LoadingSteps
  <2>3. CASE UNCHANGED vars
    <3>1. Loading(k)'
      BY <2>1, <2>3 DEF vars, host, wires, Loading, LoadingHost, LoadingSlots, LoadingWires, Occupied
    <3> QED
      BY <3>1
  <2> QED
    BY <2>2, <2>3
<1> QED
  BY <1>1, <1>2, <1>3 DEF LoadInv

LEMMA LoadsAlways == Spec => []LoadInv
BY InitLoads, StepLoads, TypesAlways, PTL DEF Spec

\* The helper program is started only with all of its blocks in memory, for
\* any number of blocks and slots, whatever is lost, repeated or delayed, as
\* long as no wait of the host ran out.
THEOREM HelperStartsComplete == Spec => []HelperComplete
<1>1. LoadInv => HelperComplete
  BY DEF LoadInv, Loaded, Loading, LoadingWires, HelperComplete
<1> QED
  BY <1>1, LoadsAlways, PTL

-----------------------------------------------------------------------------
(***************************************************************************)
(* What the job protocol delivers as long as no wait of the host runs out: *)
(* the card holds what the calls wrote, a batch that was read holds what   *)
(* was written last, for any number of calls, slots and lost, repeated or  *)
(* delayed packets.                                                        *)
(*                                                                         *)
(* The argument: wires do not reorder.  When a frame of a batch of writes  *)
(* is answered, everything that was on its way before the batch has        *)
(* arrived or is lost, so only packets of this batch are on the wires; the *)
(* next batch has another number, and nothing on the wires can be taken    *)
(* for an answer to it.  Repeated packets bring the same data again.       *)
(***************************************************************************)

\* Two batches that follow each other have different numbers, and the bytes
\* that name a write (an index and three bytes of a sector) do not spell a
\* sector that is read: the code compares neither the command of a request with
\* that of its answer nor what the four bytes mean, and relies on it.  So it is
\* as long as the sectors read are fewer than 256 times the first one written;
\* without it WritesLand fails, as TLC shows for SlotBase = 4.
KeysApart == BatchIds > 1 /\ \A k \in WriteKeys : k \notin 1 .. NumSectors + 1

Pipe == Range(up) \cup Range(down)
Quiet == \A p \in Pipe : p.cmd \in {"peek", "write", "read"}
InWindow == \A s \in Occupied : s < queue_length
OnlyFrames(A) == \A s \in Occupied : unacked[s] \in A
Held(f) == \E s \in Occupied : unacked[s] = f

\* The packets of the batch that is written, or will be next.
Batch == {p \in Frames \cup AllAnswers : p.cmd = "write" /\ p.id = write_batch_counter}

\* Behind an element of S there are only elements of S.
InOrder(wire, S) == \A i, j \in 1..Len(wire) : i < j /\ wire[i] \in S => wire[j] \in S

\* F: the frames of the batch that were sent.  P: the sectors that are still
\* to be sent.
SentFrames(F, P) ==
    /\ \A f \in F : f \in Batch /\ f.data = wanted[Written(f)] /\ Written(f) \notin P
    /\ \A f, g \in F : Written(f) = Written(g) => f = g
    /\ F # {} => Quiet /\ callbacks = "ethernet"
HeldFrames(F) ==
    \A s \in Occupied :
        /\ unacked[s] \in F \/ (F = {} /\ unacked[s].cmd # "write")
        /\ unacked[s].cmd = "read" => unacked[s].key >= eth_batch_start_sector
BatchWires(F) ==
    /\ Range(up) \cap Batch \subseteq F
    /\ \A p \in Range(down) \cap Batch :
         \E f \in F : p = [f EXCEPT !.data = None] /\ device.card[Written(f)] = f.data
    /\ InOrder(up, Batch) /\ InOrder(down, Batch)
    /\ Range(down) \cap Batch # {} => Range(up) \subseteq Batch
    /\ \A f \in F : Held(f) \/ Pipe \subseteq Batch
Fresh(s) ==
    /\ device.card[s] = wanted[s]
    /\ \A p \in Range(up) : p.cmd = "write" /\ Written(p) = s => p.data = wanted[s]
    /\ \A p \in Range(down) : p.cmd = "read" /\ p.key = s => p.data = wanted[s]
CardFresh(P) ==
    \A s \in Sectors \ P :
        Fresh(s) \/ \E t \in Occupied : unacked[t].cmd = "write" /\ Written(unacked[t]) = s
Settled(F, P) == SentFrames(F, P) /\ HeldFrames(F) /\ BatchWires(F) /\ CardFresh(P)

-----------------------------------------------------------------------------
\* Lemmas about wires in order.

LEMMA HeadInOrder ==
    ASSUME NEW T, NEW S, NEW w \in Seq(T), w # <<>>, InOrder(w, S)
    PROVE  /\ InOrder(Tail(w), S)
           /\ Head(w) \in S => Range(w) \subseteq S
<1>1. Len(w) \in Nat /\ DOMAIN w = 1..Len(w)
  BY LenProperties
<1>2. Len(w) > 0 /\ Head(w) = w[1]
  BY <1>1, EmptySeq
<1>3. Len(Tail(w)) = Len(w) - 1 /\ \A i \in 1..Len(Tail(w)) : Tail(w)[i] = w[i + 1]
  BY HeadTailProperties
<1>4. InOrder(Tail(w), S)
  <2> SUFFICES ASSUME NEW i \in 1..Len(Tail(w)), NEW j \in 1..Len(Tail(w)), i < j, Tail(w)[i] \in S
               PROVE  Tail(w)[j] \in S
    BY DEF InOrder
  <2>1. i + 1 \in 1..Len(w) /\ j + 1 \in 1..Len(w) /\ i + 1 < j + 1
    BY <1>1, <1>3
  <2> QED
    BY <1>3, <2>1 DEF InOrder
<1>5. ASSUME Head(w) \in S, NEW i \in 1..Len(w) PROVE w[i] \in S
  <2>1. 1 \in 1..Len(w) /\ (i = 1 \/ 1 < i)
    BY <1>1
  <2> QED
    BY <1>2, <1>5, <2>1 DEF InOrder
<1> QED
  BY <1>1, <1>4, <1>5 DEF Range

LEMMA AppendInOrder ==
    ASSUME NEW T, NEW S, NEW w \in Seq(T), NEW p \in T, InOrder(w, S),
           p \in S \/ Range(w) \cap S = {}
    PROVE  InOrder(Append(w, p), S)
<1> DEFINE a == Append(w, p)
           n == Len(w)
<1>1. n \in Nat /\ DOMAIN w = 1..n
  BY LenProperties
<1>2. Len(a) = n + 1 /\ (\A i \in 1..n : a[i] = w[i]) /\ a[n + 1] = p
  BY AppendProperties
<1> HIDE DEF a
<1> SUFFICES ASSUME NEW i \in 1 .. n + 1, NEW j \in 1 .. n + 1, i < j, a[i] \in S PROVE a[j] \in S
  BY <1>2 DEF InOrder, a
<1>3. i \in 1..n /\ (j \in 1..n \/ j = n + 1)
  BY <1>1
<1>4. w[i] \in Range(w) \cap S
  BY <1>1, <1>2, <1>3 DEF Range
<1> QED
  BY <1>2, <1>3, <1>4 DEF InOrder

LEMMA TransmitInOrder ==
    ASSUME NEW T, NEW S, NEW w \in Seq(T), Len(w) <= WireCapacity, NEW packets \in Seq(T),
           InOrder(w, S),
           \/ Range(packets) \subseteq S
           \/ Range(w) \cap S = {} /\ Range(packets) \cap S = {}
    PROVE  InOrder(TransmitAll(w, packets), S)
<1> DEFINE t == TransmitAll(w, packets)
           m == Len(w)
<1>1. /\ t \in Seq(T) /\ Len(t) <= m + Len(packets)
      /\ \A i \in 1..Len(t) : t[i] = IF i <= m THEN w[i] ELSE packets[i - m]
  BY TransmitFacts
<1> HIDE DEF t
<1>2. m \in Nat /\ DOMAIN w = 1..m /\ Len(packets) \in Nat /\ DOMAIN packets = 1..Len(packets)
      /\ Len(t) \in Nat
  BY <1>1, LenProperties
<1> SUFFICES ASSUME NEW i \in 1..Len(t), NEW j \in 1..Len(t), i < j, t[i] \in S PROVE t[j] \in S
  BY DEF InOrder, t
<1>3. CASE Range(packets) \subseteq S
  <2>1. CASE j <= m
    <3>1. i \in 1..m /\ j \in 1..m /\ i <= m
      BY <1>2, <2>1
    <3>2. t[i] = w[i] /\ t[j] = w[j]
      BY <1>1, <3>1
    <3> QED
      BY <3>1, <3>2 DEF InOrder
  <2>2. CASE ~(j <= m)
    <3>1. j - m \in 1..Len(packets)
      BY <1>1, <1>2, <2>2
    <3> QED
      BY <1>1, <1>2, <1>3, <2>2, <3>1 DEF Range
  <2> QED
    BY <2>1, <2>2
<1>4. CASE Range(w) \cap S = {} /\ Range(packets) \cap S = {}
  <2>1. t \in Seq(T) /\ DOMAIN t = 1..Len(t)
    BY <1>1, LenProperties
  <2>2. t[i] \in Range(t)
    BY <2>1 DEF Range
  <2>3. Range(t) \subseteq Range(w) \cup Range(packets)
    BY TransmitRange DEF t
  <2> QED
    BY <1>4, <2>2, <2>3
<1> QED
  BY <1>3, <1>4

-----------------------------------------------------------------------------
\* What an answer matches, and what the device answers.

LEMMA WireFacts ==
    ASSUME TypeInv
    PROVE  /\ up \in Seq(Frames) /\ down \in Seq(AllAnswers)
           /\ Range(up) \subseteq Frames /\ Range(down) \subseteq AllAnswers
           /\ Len(up) <= WireCapacity /\ Len(down) <= WireCapacity
BY RangeOfSeq DEF TypeInv, WireTypes

LEMMA AnswerFacts ==
    \A p \in AllAnswers :
        /\ p.cmd = "write" => p \in WriteAnswers /\ p.data = None
        /\ p.cmd = "read" => p \in ReadAnswers
        /\ p.cmd \notin {"write", "read"} => p \in Signals
<1>1. \A p \in Signals : p.cmd \in {"echo", "go", "load", "hello", "quit", "peek"}
  BY DEF Signals, Echo, AllDone, Hello, Quit, ReadMemory, Load, Packet
<1>2. \A p \in WriteAnswers : p.cmd = "write" /\ p.data = None
  BY DEF WriteAnswers
<1>3. \A p \in ReadAnswers : p.cmd = "read"
  BY DEF ReadAnswers
<1> QED
  BY <1>1, <1>2, <1>3 DEF AllAnswers

LEMMA SignalKeys ==
    \A p \in Signals : p.cmd \notin {"echo", "go", "load"} => p.key \in {0, -1}
                       /\ (p.cmd = "peek" => p.key = -1)
BY DEF Signals, Echo, AllDone, Hello, Quit, ReadMemory, Load, Packet, NoAddress

LEMMA MatchFacts ==
    ASSUME KeysApart, NEW packet \in AllAnswers, NEW f \in Frames, EthernetMatch(packet, f)
    PROVE  /\ packet.cmd = "read" => f.cmd = "read" /\ packet.key = f.key
           /\ f.cmd = "write" /\ packet.cmd \in {"peek", "write", "read"} =>
                packet.cmd = "write" /\ packet.id = f.id /\ packet.key = f.key
<1>1. f.cmd \in Requests /\ packet.cmd \in Requests
  BY DEF EthernetMatch
<1>2. f.cmd = "write" => f.key \in WriteKeys
  BY FrameFacts DEF Writes
<1>3. WriteKeys \subseteq Nat /\ NumSectors \in Nat
  BY EtherloadAssumption DEF WriteKeys
<1>4. ASSUME packet.cmd = "read" PROVE f.cmd = "read" /\ packet.key = f.key
  <2>1. packet.key = f.key
    BY <1>1, <1>4 DEF EthernetMatch
  <2>2. packet.key \in 1 .. NumSectors + 1
    BY <1>4, AnswerFacts DEF ReadAnswers
  <2>3. f.cmd # "write"
    BY <1>2, <2>1, <2>2 DEF KeysApart
  <2>4. f.cmd \notin {"hello", "quit", "peek"}
    <3> SUFFICES ASSUME f.cmd \in {"hello", "quit", "peek"} PROVE FALSE
      OBVIOUS
    <3>1. f.key \in {0, -1}
      BY FrameFacts, SignalKeys
    <3> QED
      BY <1>3, <2>1, <2>2, <3>1
  <2> QED
    BY <1>1, <2>1, <2>3, <2>4 DEF Requests
<1>5. ASSUME f.cmd = "write", packet.cmd \in {"peek", "write", "read"}
      PROVE  packet.cmd = "write" /\ packet.id = f.id /\ packet.key = f.key
  <2>1. packet.cmd # "read"
    BY <1>4, <1>5
  <2>2. packet.id = f.id /\ packet.key = f.key
    BY <1>5, <2>1 DEF EthernetMatch
  <2>3. packet.cmd # "peek"
    <3> SUFFICES ASSUME packet.cmd = "peek" PROVE FALSE
      OBVIOUS
    <3>1. packet.key = -1
      BY AnswerFacts, SignalKeys
    <3> QED
      BY <1>2, <1>3, <1>5, <2>2, <3>1
  <2> QED
    BY <1>5, <2>1, <2>2, <2>3
<1> QED
  BY <1>4, <1>5

LEMMA WriteFacts ==
    \A p \in Frames \cup AllAnswers :
        p.cmd = "write" => p.key \in WriteKeys /\ Written(p) \in Sectors
<1> SUFFICES ASSUME NEW p \in Frames \cup AllAnswers, p.cmd = "write"
             PROVE  p.key \in WriteKeys /\ Written(p) \in Sectors
  OBVIOUS
<1>1. p.key \in WriteKeys
  BY FrameFacts, AnswerFacts DEF Writes, WriteAnswers
<1> QED
  BY <1>1, KeySector DEF Written

LEMMA RepliesRange ==
    ASSUME TypeInv, NEW packet \in Frames, NEW r \in Range(Replies(packet))
    PROVE  /\ r.cmd = packet.cmd
           /\ packet.cmd = "write" => r = [packet EXCEPT !.data = None] /\ device.program = "helper"
           /\ packet.cmd = "read" /\ r.key \in Sectors => r.data = device.card[r.key]
           /\ packet.cmd \notin {"write", "read"} => r = packet
<1>1. \A p : Range(<<p>>) = {p}
  BY DEF Range
<1>2. Range(<<>>) = {}
  BY EmptySeq DEF Range
<1>3. CASE packet.cmd = "write"
  <2>1. CASE device.program = "helper"
    <3>1. Replies(packet) = <<[packet EXCEPT !.data = None]>>
      BY <1>3, <2>1 DEF Replies
    <3>2. r = [packet EXCEPT !.data = None]
      BY <1>1, <3>1
    <3>3. packet \in Writes
      BY <1>3, FrameFacts
    <3>4. r.cmd = packet.cmd
      BY <3>2, <3>3 DEF Writes
    <3> QED
      BY <1>3, <2>1, <3>2, <3>4
  <2>2. CASE device.program # "helper"
    <3>1. Replies(packet) = <<>>
      BY <1>3, <2>2 DEF Replies, SingleCommands
    <3> QED
      BY <1>2, <3>1
  <2> QED
    BY <2>1, <2>2
<1>4. CASE packet.cmd = "read"
  <2>1. CASE device.program = "helper"
    <3> DEFINE n == packet.id + 1
               value(k) == IF k \in Sectors THEN device.card[k] ELSE None
               a == [i \in 1..n |-> Packet("read", packet.id, 0, packet.key + i - 1,
                                           value(packet.key + i - 1))]
    <3>1. Replies(packet) = a
      BY <1>4, <2>1 DEF Replies
    <3>2. PICK i \in 1..n : r = a[i]
      BY <3>1 DEF Range
    <3>3. r = Packet("read", packet.id, 0, packet.key + i - 1, value(packet.key + i - 1))
      BY <3>2
    <3>4. r.cmd = "read" /\ r.data = value(r.key)
      BY <3>3 DEF Packet
    <3> QED
      BY <1>4, <3>4
  <2>2. CASE device.program # "helper"
    <3>1. Replies(packet) = <<>>
      BY <1>4, <2>2 DEF Replies, SingleCommands
    <3> QED
      BY <1>2, <3>1
  <2> QED
    BY <2>1, <2>2
<1>5. CASE packet.cmd \notin {"write", "read"}
  <2>1. Replies(packet) = <<packet>> \/ Replies(packet) = <<>>
    <3>1. device.program \in {"loader", "helper", "off"}
      BY DEF TypeInv, ValueTypes
    <3>2. CASE device.program = "loader"
      BY <1>5, <3>2 DEF Replies
    <3>3. CASE device.program = "helper"
      BY <1>5, <3>3 DEF Replies
    <3>4. CASE device.program = "off"
      BY <3>4 DEF Replies
    <3> QED
      BY <3>1, <3>2, <3>3, <3>4
  <2> QED
    BY <1>1, <1>2, <1>5, <2>1
<1> QED
  BY <1>3, <1>4, <1>5

-----------------------------------------------------------------------------
\* The network, the device and the waiting host keep the batch settled.

LEMMA SentKept ==
    ASSUME NEW F, NEW P, SentFrames(F, P), UNCHANGED <<wanted, write_batch_counter, callbacks>>,
           F # {} => Quiet'
    PROVE  SentFrames(F, P)'
BY DEF SentFrames, Batch

LEMMA LoseSettled ==
    ASSUME TypeInv, NEW F, NEW P, Settled(F, P), Lose
    PROVE  Settled(F, P)'
<1>1. up \in Seq(Frames) /\ down \in Seq(AllAnswers)
  BY WireFacts
<1>2. UNCHANGED <<unacked, callbacks, write_batch_counter, eth_batch_start_sector, wanted, device>>
  BY DEF Lose, host, protocol, ghosts
<1>3. Batch' = Batch
  BY <1>2 DEF Batch
<1>4. InOrder(up, Batch) /\ InOrder(down, Batch)
  BY DEF Settled, BatchWires
<1>5. Range(up') \subseteq Range(up) /\ Range(down') \subseteq Range(down)
  BY <1>1, RangeFacts DEF Lose
<1> DEFINE B == Batch
<1>6. InOrder(up', B) /\ InOrder(down', B)
  BY <1>1, <1>4, HeadInOrder DEF Lose
<1>7. Pipe' \subseteq Pipe /\ Occupied' = Occupied
  BY <1>2, <1>5 DEF Pipe, Occupied
<1>8. SentFrames(F, P)'
  <2>1. Quiet => Quiet'
    BY <1>7 DEF Quiet
  <2> QED
    BY <1>2, <2>1, SentKept DEF Settled, SentFrames
<1>9. HeldFrames(F)'
  BY <1>2, <1>7 DEF Settled, HeldFrames
<1>10. BatchWires(F)'
  <2>1. InOrder(up, Batch)' /\ InOrder(down, Batch)'
    BY <1>3, <1>6 DEF InOrder
  <2>2. \A f \in F : Held(f)' \/ Pipe' \subseteq Batch
    BY <1>2, <1>7 DEF Settled, BatchWires, Held
  <2>3. \A p \in Range(down') \cap Batch :
           \E f \in F : p = [f EXCEPT !.data = None] /\ device.card[Written(f)] = f.data
    BY <1>5 DEF Settled, BatchWires
  <2>4. Range(up') \cap Batch \subseteq F /\ (Range(down') \cap Batch # {} => Range(up') \subseteq Batch)
    BY <1>5 DEF Settled, BatchWires
  <2> QED
    BY <1>2, <1>3, <2>1, <2>2, <2>3, <2>4 DEF BatchWires
<1>11. CardFresh(P)'
  BY <1>2, <1>5, <1>7 DEF Settled, CardFresh, Fresh
<1> QED
  BY <1>8, <1>9, <1>10, <1>11 DEF Settled

LEMMA ResendSettled ==
    ASSUME TypeInv, NEW F, NEW P, Settled(F, P), Resend
    PROVE  Settled(F, P)'
<1> DEFINE p == unacked[OldestSent]
           B == Batch
<1>1. up \in Seq(Frames) /\ down \in Seq(AllAnswers)
  BY WireFacts
<1>2. UNCHANGED <<unacked, callbacks, write_batch_counter, eth_batch_start_sector, wanted, device, down>>
      /\ up' = Append(up, p)
  BY DEF Resend, protocol, ghosts
<1>3. Batch' = Batch /\ Occupied' = Occupied
  BY <1>2 DEF Batch, Occupied
<1>4. p \in Frames /\ OldestSent \in Occupied
  BY OldestFrame DEF Resend, TypeInv
<1>5. p \in F \/ (F = {} /\ p.cmd # "write")
  BY <1>4 DEF Settled, HeldFrames
<1> HIDE DEF p
<1>6. Range(up') = Range(up) \cup {p}
  BY <1>1, <1>2, <1>4, RangeFacts
<1>7. F \subseteq Batch
  BY DEF Settled, SentFrames
<1>8. \A f \in F : f.cmd = "write"
  BY <1>7 DEF Batch
<1>9. SentFrames(F, P)'
  <2>1. F # {} => Quiet'
    BY <1>2, <1>5, <1>6, <1>8 DEF Settled, SentFrames, Quiet, Pipe
  <2> QED
    BY <1>2, <2>1, SentKept DEF Settled
<1>10. HeldFrames(F)'
  BY <1>2, <1>3 DEF Settled, HeldFrames
<1>11. BatchWires(F)'
  <2>1. Range(up) \cap B # {} => p \in B
    BY <1>5, <1>7 DEF Settled, BatchWires
  <2>2. InOrder(up, B)
    BY DEF Settled, BatchWires
  <2>3. InOrder(up', B)
    BY <1>1, <1>2, <1>4, <2>1, <2>2, AppendInOrder
  <2>4. InOrder(up, Batch)' /\ InOrder(down, Batch)'
    BY <1>2, <1>3, <2>3 DEF InOrder, Settled, BatchWires
  <2>5. Range(up') \cap Batch \subseteq F
    BY <1>5, <1>6 DEF Settled, BatchWires, Batch
  <2>6. Range(down) \cap Batch # {} => Range(up') \subseteq Batch
    BY <1>5, <1>6, <1>7 DEF Settled, BatchWires
  <2>7. \A f \in F : Held(f) \/ Pipe' \subseteq Batch
    BY <1>2, <1>5, <1>6, <1>7 DEF Settled, BatchWires, Pipe
  <2> QED
    BY <1>2, <1>3, <2>4, <2>5, <2>6, <2>7 DEF Settled, BatchWires, Held
<1>12. CardFresh(P)'
  <2> SUFFICES ASSUME NEW s \in Sectors \ P
               PROVE  Fresh(s)' \/ \E t \in Occupied : unacked[t].cmd = "write" /\ Written(unacked[t]) = s
    BY <1>2, <1>3 DEF CardFresh
  <2>1. CASE p.cmd = "write" /\ Written(p) = s
    BY <1>4, <2>1 DEF p
  <2>2. CASE ~(p.cmd = "write" /\ Written(p) = s)
    BY <1>2, <1>6, <2>2 DEF Settled, CardFresh, Fresh
  <2> QED
    BY <2>1, <2>2
<1> QED
  BY <1>9, <1>10, <1>11, <1>12 DEF Settled

\* What the device does with a packet: to its card and to the wires.
LEMMA DeviceEffect ==
    ASSUME TypeInv, DeviceReceives
    PROVE  LET p == Head(up)
           IN /\ up # <<>> /\ p \in Frames /\ p \in Range(up)
              /\ up' = Tail(up) /\ Range(up') \subseteq Range(up)
              /\ Replies(p) \in Seq(AllAnswers)
              /\ down' = TransmitAll(down, Replies(p))
              /\ Range(down') \subseteq Range(down) \cup Range(Replies(p))
              /\ device'.card = IF device.program = "helper" /\ p.cmd = "write"
                                THEN [device.card EXCEPT ![Written(p)] = p.data]
                                ELSE device.card
<1> DEFINE p == Head(up)
<1>1. up \in Seq(Frames) /\ down \in Seq(AllAnswers) /\ Range(up) \subseteq Frames
      /\ Len(down) <= WireCapacity
  BY WireFacts
<1>2. up # <<>> /\ up' = Tail(up) /\ down' = TransmitAll(down, Replies(p))
  BY DEF DeviceReceives
<1>3. p \in Range(up) /\ Range(Tail(up)) \subseteq Range(up)
  BY <1>1, <1>2, RangeFacts
<1>4. Replies(p) \in Seq(AllAnswers)
  BY <1>1, <1>3, RepliesFacts DEF TypeInv
<1>5. Range(TransmitAll(down, Replies(p))) \subseteq Range(down) \cup Range(Replies(p))
  <2> HIDE DEF p
  <2> QED
    BY <1>1, <1>4, TransmitRange
<1>6. device'.card = IF device.program = "helper" /\ p.cmd = "write"
                     THEN [device.card EXCEPT ![Written(p)] = p.data]
                     ELSE device.card
  <2>1. device' =
          CASE device.program = "loader" /\ p.cmd = "load" -> [device EXCEPT !.blocks = @ \cup {p.key}]
            [] device.program = "loader" /\ p.cmd = "go" -> [device EXCEPT !.program = "helper"]
            [] device.program = "helper" /\ p.cmd = "write" -> [device EXCEPT !.card[Written(p)] = p.data]
            [] device.program = "helper" /\ p.cmd = "quit" -> [device EXCEPT !.program = "off"]
            [] OTHER -> device
    BY DEF DeviceReceives
  <2> HIDE DEF p
  <2>2. device \in [program : {"loader", "helper", "off"}, blocks : SUBSET (1..NumBlocks),
                    card : [Sectors -> Data \cup {AsFound}]]
    BY DEF TypeInv, ValueTypes
  <2>3. CASE device.program = "helper" /\ p.cmd = "write"
    BY <2>1, <2>2, <2>3
  <2>4. CASE ~(device.program = "helper" /\ p.cmd = "write")
    <3>1. \/ device' = device
          \/ device' = [device EXCEPT !.blocks = @ \cup {p.key}]
          \/ device' = [device EXCEPT !.program = "helper"]
          \/ device' = [device EXCEPT !.program = "off"]
      BY <2>1, <2>4
    <3> QED
      BY <2>2, <2>4, <3>1
  <2> QED
    BY <2>3, <2>4
<1> QED
  BY <1>1, <1>2, <1>3, <1>4, <1>5, <1>6

LEMMA DeviceSettled ==
    ASSUME TypeInv, NEW F, NEW P, Settled(F, P), DeviceReceives
    PROVE  Settled(F, P)'
<1> DEFINE p == Head(up)
           R == Range(Replies(p))
           B == Batch
           writes == device.program = "helper" /\ p.cmd = "write"
<1>1. /\ p \in Frames /\ p \in Range(up) /\ Range(up') \subseteq Range(up)
      /\ Range(down') \subseteq Range(down) \cup R
  BY DeviceEffect
<1>2. device'.card = IF writes THEN [device.card EXCEPT ![Written(p)] = p.data] ELSE device.card
  BY DeviceEffect
<1>3. UNCHANGED <<unacked, callbacks, write_batch_counter, eth_batch_start_sector, wanted>>
  BY DEF DeviceReceives, host, protocol, ghosts
<1>4. Batch' = Batch /\ Occupied' = Occupied
  BY <1>3 DEF Batch, Occupied
<1>5. device.card \in [Sectors -> Data \cup {AsFound}]
  BY DEF TypeInv, ValueTypes
<1>6. \A r \in R : /\ r.cmd = p.cmd
                   /\ p.cmd = "write" => r = [p EXCEPT !.data = None] /\ writes
                   /\ p.cmd = "read" /\ r.key \in Sectors => r.data = device.card[r.key]
  <2>1. p \in Frames
    BY <1>1
  <2> HIDE DEF p
  <2> QED
    BY <2>1, RepliesRange
<1>7. R \subseteq AllAnswers
  BY DeviceEffect, RangeOfSeq
<1>8. p.cmd = "write" => Written(p) \in Sectors
  BY <1>1, WriteFacts
<1>9. /\ (Range(down) \cap B # {} => p \in B)
      /\ (p \in B => p \in F)
      /\ \A f \in F : Held(f) \/ p \in B
  BY <1>1 DEF Settled, BatchWires, Pipe
<1>10. \A f \in F : f \in B /\ f.cmd = "write" /\ Written(f) \in Sectors /\ f.data = wanted[Written(f)]
                    /\ Written(f) \notin P
  BY WriteFacts DEF Settled, SentFrames, Batch
<1>11. (p \in B /\ R \subseteq B) \/ (p \notin B /\ R \cap B = {})
  <2>1. CASE p \in B
    <3>1. p.cmd = "write" /\ p.id = write_batch_counter /\ p \in Writes
      BY <1>1, <2>1, FrameFacts DEF Batch
    <3>2. [p EXCEPT !.data = None].cmd = "write" /\ [p EXCEPT !.data = None].id = p.id
      BY <3>1 DEF Writes
    <3> QED
      BY <1>6, <1>7, <2>1, <3>1, <3>2 DEF Batch
  <2>2. CASE p \notin B
    <3> SUFFICES ASSUME NEW r \in R, r \in B PROVE FALSE
      BY <2>2
    <3>1. p.cmd = "write" /\ r = [p EXCEPT !.data = None] /\ r.id = write_batch_counter
      BY <1>6 DEF Batch
    <3>2. p \in Writes
      BY <1>1, <3>1, FrameFacts
    <3>3. r.id = p.id
      BY <3>1, <3>2 DEF Writes
    <3> QED
      BY <1>1, <2>2, <3>1, <3>3 DEF Batch
  <2> QED
    BY <2>1, <2>2
<1> HIDE DEF p, R
<1>12. SentFrames(F, P)'
  <2>1. F # {} => Quiet'
    <3> SUFFICES ASSUME F # {}, NEW q \in Pipe' PROVE q.cmd \in {"peek", "write", "read"}
      BY DEF Quiet
    <3>1. \A r \in Pipe : r.cmd \in {"peek", "write", "read"}
      BY DEF Settled, SentFrames, Quiet
    <3> QED
      BY <1>1, <1>6, <3>1 DEF Pipe
  <2> QED
    BY <1>3, <2>1, SentKept DEF Settled
<1>13. HeldFrames(F)'
  BY <1>3, <1>4 DEF Settled, HeldFrames
<1>14. BatchWires(F)'
  <2>1. Range(up') \cap Batch \subseteq F
    BY <1>1 DEF Settled, BatchWires
  <2>2. ASSUME NEW q \in Range(down') \cap Batch
        PROVE  \E f \in F : q = [f EXCEPT !.data = None] /\ device'.card[Written(f)] = f.data
    <3>1. CASE q \in Range(down)
      <4>1. PICK f \in F : q = [f EXCEPT !.data = None] /\ device.card[Written(f)] = f.data
        BY <3>1 DEF Settled, BatchWires
      <4>2. p \in F
        BY <1>9, <3>1
      <4>3. Written(f) = Written(p) => f = p
        BY <4>2 DEF Settled, SentFrames
      <4>4. device'.card[Written(f)] = f.data
        BY <1>2, <1>5, <1>10, <4>1, <4>3
      <4> QED
        BY <4>1, <4>4
    <3>2. CASE q \in R
      <4>1. q.cmd = "write" /\ q \in B
        BY DEF Batch
      <4>2. p.cmd = "write" /\ writes /\ q = [p EXCEPT !.data = None] /\ p \in F
        BY <1>6, <1>9, <1>11, <3>2, <4>1
      <4>3. device'.card[Written(p)] = p.data
        BY <1>2, <1>5, <1>8, <4>2
      <4> QED
        BY <4>2, <4>3
    <3> QED
      BY <1>1, <3>1, <3>2
  <2>3. InOrder(up', B)
    <3>1. up # <<>> /\ up' = Tail(up)
      BY DeviceEffect
    <3>2. up \in Seq(Frames) /\ InOrder(up, B)
      BY WireFacts DEF Settled, BatchWires
    <3> HIDE DEF B
    <3>3. InOrder(Tail(up), B)
      BY <3>1, <3>2, HeadInOrder
    <3> QED
      BY <3>1, <3>3
  <2>4. InOrder(down', B)
    <3> DEFINE packets == Replies(p)
    <3>1. packets \in Seq(AllAnswers) /\ down' = TransmitAll(down, packets)
      BY DeviceEffect DEF p
    <3>2. Range(packets) \subseteq B \/ (Range(down) \cap B = {} /\ Range(packets) \cap B = {})
      BY <1>9, <1>11 DEF R
    <3>3. InOrder(down, B) /\ down \in Seq(AllAnswers) /\ Len(down) <= WireCapacity
      BY WireFacts DEF Settled, BatchWires
    <3> HIDE DEF packets
    <3> QED
      BY <3>1, <3>2, <3>3, TransmitInOrder
  <2>5. InOrder(up, Batch)' /\ InOrder(down, Batch)'
    BY <1>4, <2>3, <2>4 DEF InOrder
  <2>6. Range(down') \cap Batch # {} => Range(up') \subseteq Batch
    <3>1. CASE p \in B
      <4>1. Range(up) \subseteq B
        <5>1. up \in Seq(Frames) /\ up # <<>> /\ InOrder(up, B) /\ Head(up) \in B
          BY <3>1, WireFacts, DeviceEffect DEF Settled, BatchWires, p
        <5> QED
          BY <5>1, HeadInOrder
      <4> QED
        BY <1>1, <4>1
    <3>2. CASE p \notin B
      BY <1>1, <1>9, <1>11, <3>2
    <3> QED
      BY <3>1, <3>2
  <2>7. \A f \in F : Held(f) \/ Pipe' \subseteq Batch
    BY <1>1, <1>9, <1>11 DEF Settled, BatchWires, Pipe
  <2> QED
    BY <1>3, <1>4, <2>1, <2>2, <2>5, <2>6, <2>7 DEF BatchWires, Held
<1>15. CardFresh(P)'
  <2> SUFFICES ASSUME NEW s \in Sectors \ P, Fresh(s)
               PROVE  Fresh(s)'
    BY <1>3, <1>4 DEF Settled, CardFresh
  <2>1. device'.card[s] = wanted[s]
    <3>1. writes /\ Written(p) = s => p.data = wanted[s]
      BY <1>1 DEF Fresh
    <3> QED
      BY <1>2, <1>5, <3>1 DEF Fresh
  <2>2. \A q \in Range(up') : q.cmd = "write" /\ Written(q) = s => q.data = wanted[s]
    BY <1>1 DEF Fresh
  <2>3. \A q \in Range(down') : q.cmd = "read" /\ q.key = s => q.data = wanted[s]
    BY <1>1, <1>6 DEF Fresh
  <2> QED
    BY <1>3, <2>1, <2>2, <2>3 DEF Fresh
<1> QED
  BY <1>12, <1>13, <1>14, <1>15 DEF Settled

\* check_if_ack() takes a packet for the answer to a frame.
LEMMA ReceiveEffect ==
    ASSUME TypeInv, Receive
    PROVE  LET p == Head(down)
               slot == FirstOf(Answers(p))
           IN /\ p \in Range(down) /\ p \in AllAnswers
              /\ down' = Tail(down) /\ Range(down') \subseteq Range(down)
              /\ \/ unacked' = unacked /\ Occupied' = Occupied
                    /\ queue_read_data' = queue_read_data
                    /\ memory_read_buffer_len' = memory_read_buffer_len
                    /\ conn' = conn /\ todo' = todo
                 \/ /\ slot \in Occupied /\ MatchPayloads(p, unacked[slot])
                    /\ unacked[slot] \in Frames
                    /\ Occupied' = Occupied \ {slot}
                    /\ \A s \in Occupied' : unacked'[s] = unacked[s]
              /\ UNCHANGED <<queue_length, callbacks, protocol, up, device, wanted, gaveUp>>
<1> DEFINE p == Head(down)
           slot == FirstOf(Answers(p))
           known == HasSequence(p) /\ Answers(p) # {}
<1>1. down \in Seq(AllAnswers) /\ Range(down) \subseteq AllAnswers
  BY WireFacts
<1>2. p \in Range(down) /\ Range(Tail(down)) \subseteq Range(down) /\ down' = Tail(down)
  BY <1>1, RangeFacts DEF Receive
<1>3. UNCHANGED <<queue_length, callbacks, protocol, up, device, wanted, gaveUp>>
  BY DEF Receive, ghosts
<1>4. CASE ~known
  <2>1. UNCHANGED <<unacked, queue_read_data, memory_read_buffer_len, conn, todo>>
    BY <1>4 DEF Receive
  <2> QED
    BY <1>1, <1>2, <1>3, <2>1 DEF Occupied
<1>5. CASE known
  <2>1. slot \in Answers(p) /\ slot \in Occupied
    BY <1>5, AnsweredSlot DEF TypeInv
  <2>2. unacked' = [unacked EXCEPT ![slot] = NoFrame]
    BY <1>5 DEF Receive
  <2>3. MatchPayloads(p, unacked[slot])
    BY <2>1 DEF Answers
  <2> HIDE DEF slot
  <2>4. \A s \in Slots : unacked'[s] = IF s = slot THEN NoFrame ELSE unacked[s]
    BY <2>2 DEF TypeInv, SlotTypes
  <2>5. Occupied' = Occupied \ {slot} /\ \A s \in Occupied \ {slot} : unacked'[s] = unacked[s]
    BY <2>4 DEF Occupied
  <2>6. unacked[slot] \in Frames
    BY <2>1 DEF TypeInv, SlotTypes, Occupied
  <2> QED
    BY <1>1, <1>2, <1>3, <2>1, <2>3, <2>5, <2>6 DEF slot
<1> QED
  BY <1>4, <1>5

LEMMA ReceiveSettled ==
    ASSUME TypeInv, KeysApart, NEW F, NEW P, Settled(F, P), Receive
    PROVE  Settled(F, P)'
<1> DEFINE p == Head(down)
           slot == FirstOf(Answers(p))
           f == unacked[slot]
           B == Batch
           kept == unacked' = unacked /\ Occupied' = Occupied
           cleared == /\ slot \in Occupied /\ MatchPayloads(p, f) /\ f \in Frames
                      /\ Occupied' = Occupied \ {slot}
                      /\ \A s \in Occupied' : unacked'[s] = unacked[s]
<1>1. p \in Range(down) /\ p \in AllAnswers /\ Range(down') \subseteq Range(down)
  BY ReceiveEffect
<1>2. kept \/ cleared
  BY ReceiveEffect
<1>3. UNCHANGED <<callbacks, write_batch_counter, eth_batch_start_sector, wanted, up, device>>
  BY ReceiveEffect DEF protocol
<1>4. Batch' = Batch /\ Pipe' \subseteq Pipe
  BY <1>1, <1>3 DEF Batch, Pipe
<1>5. Range(down) \subseteq B \/ p \notin B
  <2>1. down \in Seq(AllAnswers) /\ InOrder(down, B) /\ down # <<>>
    BY WireFacts DEF Settled, BatchWires, Receive
  <2> HIDE DEF B
  <2> QED
    BY <2>1, HeadInOrder
<1>6. InOrder(down', B)
  <2>1. down \in Seq(AllAnswers) /\ InOrder(down, B) /\ down # <<>> /\ down' = Tail(down)
    BY WireFacts, ReceiveEffect DEF Settled, BatchWires, Receive
  <2> HIDE DEF B
  <2>2. InOrder(Tail(down), B)
    BY <2>1, HeadInOrder
  <2> QED
    BY <2>1, <2>2
<1> HIDE DEF p, slot
<1>7. ASSUME cleared, f \in F
      PROVE  p \in B /\ Pipe \subseteq B /\ device.card[Written(f)] = f.data
  <2>1. callbacks = "ethernet" /\ Quiet /\ f \in B
    BY <1>7 DEF Settled, SentFrames
  <2>2. p.cmd \in {"peek", "write", "read"}
    BY <1>1, <2>1 DEF Quiet, Pipe
  <2>3. f.cmd = "write" /\ f.id = write_batch_counter /\ EthernetMatch(p, f)
    BY <1>7, <2>1 DEF Batch, MatchPayloads
  <2>4. p.cmd = "write" /\ p.id = f.id /\ p.key = f.key
    BY <1>1, <1>7, <2>2, <2>3, MatchFacts
  <2>5. p \in B
    BY <1>1, <2>3, <2>4 DEF Batch
  <2>6. PICK g \in F : p = [g EXCEPT !.data = None] /\ device.card[Written(g)] = g.data
    BY <1>1, <2>5 DEF Settled, BatchWires
  <2>7. g.key = p.key
    <3>1. g \in Frames \cup AllAnswers /\ g.cmd = "write"
      BY <2>6 DEF Settled, SentFrames, Batch
    <3>2. g \in Writes \/ g \in WriteAnswers
      BY <3>1, FrameFacts, AnswerFacts
    <3> QED
      BY <2>6, <3>2 DEF Writes, WriteAnswers
  <2>8. g = f
    <3>1. Written(g) = Written(f)
      BY <2>4, <2>7 DEF Written
    <3> QED
      BY <1>7, <3>1 DEF Settled, SentFrames
  <2>9. Pipe \subseteq B
    BY <1>1, <1>5, <2>5 DEF Settled, BatchWires, Pipe
  <2> QED
    BY <2>5, <2>6, <2>8, <2>9
<1>8. SentFrames(F, P)'
  <2>1. Quiet => Quiet'
    BY <1>4 DEF Quiet
  <2> QED
    BY <1>3, <2>1, SentKept DEF Settled, SentFrames
<1>9. HeldFrames(F)'
  BY <1>2, <1>3 DEF Settled, HeldFrames
<1>10. BatchWires(F)'
  <2>1. InOrder(up, Batch)' /\ InOrder(down, Batch)'
    BY <1>3, <1>4, <1>6 DEF InOrder, Settled, BatchWires
  <2>2. ASSUME NEW g \in F PROVE Held(g)' \/ Pipe' \subseteq Batch
    <3>1. Held(g) \/ Pipe \subseteq Batch
      BY DEF Settled, BatchWires
    <3>2. CASE Pipe \subseteq Batch
      BY <1>4, <3>2
    <3>3. CASE kept /\ Held(g)
      BY <3>3 DEF Held
    <3>4. CASE cleared /\ Held(g)
      <4>1. CASE f = g
        BY <1>4, <1>7, <3>4, <4>1
      <4>2. CASE f # g
        BY <3>4, <4>2 DEF Held
      <4> QED
        BY <4>1, <4>2
    <3> QED
      BY <1>2, <3>1, <3>2, <3>3, <3>4
  <2>3. \A q \in Range(down') \cap Batch :
           \E g \in F : q = [g EXCEPT !.data = None] /\ device.card[Written(g)] = g.data
    BY <1>1 DEF Settled, BatchWires
  <2>4. Range(up) \cap Batch \subseteq F /\ (Range(down') \cap Batch # {} => Range(up) \subseteq Batch)
    BY <1>1 DEF Settled, BatchWires
  <2> QED
    BY <1>3, <1>4, <2>1, <2>2, <2>3, <2>4 DEF BatchWires
<1>11. CardFresh(P)'
  <2> SUFFICES ASSUME NEW s \in Sectors \ P
               PROVE  Fresh(s)' \/ \E t \in Occupied' : unacked'[t].cmd = "write" /\ Written(unacked'[t]) = s
    BY DEF CardFresh
  <2>1. Fresh(s) => Fresh(s)'
    BY <1>1, <1>3 DEF Fresh
  <2>2. CASE \E t \in Occupied : unacked[t].cmd = "write" /\ Written(unacked[t]) = s
    <3>1. PICK t \in Occupied : unacked[t].cmd = "write" /\ Written(unacked[t]) = s
      BY <2>2
    <3>2. CASE kept \/ t # slot
      BY <1>2, <3>1, <3>2
    <3>3. CASE cleared /\ t = slot
      <4>1. f \in F /\ Written(f) = s
        BY <3>1, <3>3 DEF Settled, HeldFrames
      <4>2. device.card[s] = f.data /\ Pipe \subseteq B /\ f.data = wanted[s]
        BY <1>7, <3>3, <4>1 DEF Settled, SentFrames
      <4>3. \A q \in Range(up) : q \in F
        BY <4>2 DEF Settled, BatchWires, Pipe
      <4>4. \A q \in Range(up) : Written(q) = s => q.data = wanted[s]
        BY <4>3 DEF Settled, SentFrames
      <4>5. \A q \in Range(down) : q.cmd # "read"
        BY <4>2 DEF Pipe, Batch
      <4>6. Fresh(s)
        BY <4>2, <4>4, <4>5 DEF Fresh
      <4> QED
        BY <2>1, <4>6
    <3> QED
      BY <1>2, <3>2, <3>3
  <2> QED
    BY <2>1, <2>2 DEF Settled, CardFresh
<1> QED
  BY <1>8, <1>9, <1>10, <1>11 DEF Settled

\* No answer goes to a place in front of the buffer.
LEMMA ReceiveAlive ==
    ASSUME TypeInv, KeysApart, NEW F, NEW P, Settled(F, P), Receive
    PROVE  conn' = conn /\ todo' = todo
<1> DEFINE p == Head(down)
           known == HasSequence(p) /\ Answers(p) # {}
           slot == FirstOf(Answers(p))
           f == unacked[slot]
<1>1. CASE known /\ callbacks = "ethernet" /\ p.cmd = "read"
  <2>1. slot \in Answers(p) /\ slot \in Occupied
    BY <1>1, AnsweredSlot DEF TypeInv
  <2>2. f \in Frames /\ EthernetMatch(p, f)
    BY <1>1, <2>1 DEF Answers, MatchPayloads, TypeInv, SlotTypes, Occupied
  <2>3. p \in AllAnswers
    BY ReceiveEffect
  <2>4. f.cmd = "read" /\ p.key = f.key
    BY <1>1, <2>2, <2>3, MatchFacts
  <2>5. f.key >= eth_batch_start_sector
    BY <2>1, <2>4 DEF Settled, HeldFrames
  <2>6. f.key \in Int /\ eth_batch_start_sector \in Int
    BY <2>2, <2>4, FrameFacts, EtherloadAssumption DEF Reads, Sectors, TypeInv, ValueTypes
  <2>7. ~(Index(p) < 0)
    BY <2>4, <2>5, <2>6 DEF Index
  <2> QED
    BY <2>7 DEF Receive
<1>2. CASE ~(known /\ callbacks = "ethernet" /\ p.cmd = "read")
  BY <1>2 DEF Receive
<1> QED
  BY <1>1, <1>2

\* The steps the host does not take on its own.
Around == Receive \/ Resend \/ DeviceReceives \/ Lose

LEMMA AroundKeeps ==
    ASSUME TypeInv, KeysApart, NEW F, NEW P, Settled(F, P), Around
    PROVE  /\ Settled(F, P)'
           /\ UNCHANGED <<conn, todo, queue_length, callbacks, write_batch_counter,
                          eth_batch_start_sector, wanted, gaveUp>>
           /\ Occupied' \subseteq Occupied
           /\ \A s \in Occupied' : unacked'[s] = unacked[s]
<1>1. CASE Receive
  BY <1>1, ReceiveSettled, ReceiveAlive, ReceiveEffect DEF protocol
<1>2. CASE Resend
  BY <1>2, ResendSettled DEF Resend, protocol, ghosts, Occupied
<1>3. CASE DeviceReceives
  BY <1>3, DeviceSettled DEF DeviceReceives, host, protocol, ghosts, Occupied
<1>4. CASE Lose
  BY <1>4, LoseSettled DEF Lose, host, protocol, ghosts, Occupied
<1> QED
  BY <1>1, <1>2, <1>3, <1>4 DEF Around

\* What comes onto the wires was there or is held, or answers what was there.
LEMMA AroundPipe ==
    ASSUME TypeInv, Around
    PROVE  \A q \in Pipe' :
             \/ q \in Pipe \/ (\E s \in Occupied : q = unacked[s])
             \/ \E p \in Range(up) : q.cmd = p.cmd /\ (p.cmd \notin {"write", "read"} => q = p)
<1>1. CASE Receive
  BY <1>1, ReceiveEffect DEF Pipe
<1>2. CASE Resend
  <2>1. up' = Append(up, unacked[OldestSent]) /\ down' = down
    BY <1>2 DEF Resend
  <2>2. OldestSent \in Occupied /\ unacked[OldestSent] \in Frames
    BY <1>2, OldestFrame DEF Resend, TypeInv
  <2>3. Range(up') = Range(up) \cup {unacked[OldestSent]}
    BY <2>1, <2>2, WireFacts, RangeFacts
  <2> QED
    BY <2>1, <2>2, <2>3 DEF Pipe
<1>3. CASE DeviceReceives
  <2> DEFINE p == Head(up)
  <2>1. p \in Frames /\ p \in Range(up) /\ Range(up') \subseteq Range(up)
        /\ Range(down') \subseteq Range(down) \cup Range(Replies(p))
    BY <1>3, DeviceEffect
  <2> HIDE DEF p
  <2>2. \A r \in Range(Replies(p)) : r.cmd = p.cmd /\ (p.cmd \notin {"write", "read"} => r = p)
    BY <2>1, RepliesRange
  <2> QED
    BY <2>1, <2>2 DEF Pipe
<1>4. CASE Lose
  <2>1. Range(up') \subseteq Range(up) /\ Range(down') \subseteq Range(down)
    BY <1>4, WireFacts, RangeFacts DEF Lose
  <2> QED
    BY <2>1 DEF Pipe
<1> QED
  BY <1>1, <1>2, <1>3, <1>4 DEF Around

LEMMA AroundQuiet ==
    ASSUME TypeInv, Around, Quiet,
           \A s \in Occupied : unacked[s].cmd \in {"peek", "write", "read"}
    PROVE  Quiet'
BY AroundPipe DEF Quiet, Pipe

-----------------------------------------------------------------------------
(***************************************************************************)
(* Where the host is, as long as no wait ran out.                          *)
(***************************************************************************)
ConnectPackets == {Echo, AllDone, Hello} \cup {Load(b) : b \in 1..NumBlocks}

\* Up to the step that sends the peek request, m65ftp_init() has sent nothing
\* that it does not wait for.
Connecting(k) ==
    /\ conn = "down" /\ todo = Remaining(Connect, k)
    /\ k > 12 + NumBlocks => callbacks = "ethernet"
    /\ Pipe \subseteq ConnectPackets
    /\ IF k \in {16 + NumBlocks, 17 + NumBlocks} THEN Occupied = {} ELSE OnlyFrames(ConnectPackets)
    /\ k = 17 + NumBlocks => memory_read_buffer_len = 0
    /\ Settled({}, {})

\* When the answer to the peek is there, what was sent before is not any more.
Peeking(k) ==
    /\ conn = "down" /\ todo = Remaining(Connect, k) /\ callbacks = "ethernet"
    /\ Pipe \subseteq ConnectPackets \cup {ReadMemory}
    /\ InOrder(up, {ReadMemory}) /\ InOrder(down, {ReadMemory})
    /\ ReadMemory \in Range(down) => Range(up) \subseteq {ReadMemory}
    /\ IF k = 18 + NumBlocks THEN OnlyFrames({ReadMemory}) ELSE Occupied = {}
    /\ memory_read_buffer_len = 1 => Pipe \subseteq {ReadMemory}
    /\ k = 20 + NumBlocks => memory_read_buffer_len = 1
    /\ Settled({}, {})

Connected == conn = "up" /\ callbacks = "ethernet" /\ Quiet

Idle == Connected /\ todo = <<>> /\ Occupied = {} /\ Settled({}, {})

Hold(sectors, data) ==
    /\ \A i, j \in 1..Len(sectors) : sectors[i] = sectors[j] => i = j
    /\ \A i \in 1..Len(sectors) : data[i] = wanted[sectors[i]]

BetweenBatches(sectors, data) ==
    /\ Connected /\ todo = WriteJobs(sectors, data)
    /\ AreJobs(sectors, data) /\ Hold(sectors, data)
    /\ Occupied = {} /\ Settled({}, Range(sectors))

\* A batch of writes, what follows it, and how much of it was sent before step k.
WriteRest(id, start, batch, rest, restData) ==
    BatchThen(id, start, batch, WriteJobs(rest, restData))
BatchFrame(id, start, batch, i) == WriteSector(id, Len(batch) - 1, start, i - 1, batch[i])
SentOf(id, start, batch, k) ==
    {BatchFrame(id, start, batch, i) : i \in {j \in 1..Len(batch) : j <= k - 3}}
UnsentOf(start, batch, rest, k) ==
    Range(rest) \cup {start + i - 1 : i \in {j \in 1..Len(batch) : j > k - 3}}
Writing(id, start, batch, rest, restData, k) ==
    /\ Connected /\ id = write_batch_counter
    /\ todo = Remaining(WriteRest(id, start, batch, rest, restData), k)
    /\ IsBatch(id, start, batch) /\ k \in 1 .. 4 + Len(batch)
    /\ AreJobs(rest, restData) /\ Hold(rest, restData)
    /\ \A i \in 1..Len(batch) : batch[i] = wanted[start + i - 1] /\ start + i - 1 \notin Range(rest)
    /\ IF k = 4 + Len(batch) THEN Occupied = {} ELSE OnlyFrames(SentOf(id, start, batch, k))
    /\ Settled(SentOf(id, start, batch, k), UnsentOf(start, batch, rest, k))

ReadFrames(start, k) ==
    {ReadSectors(1, start + i - 1) : i \in {j \in 1..ReadBatch : j <= k - 4}}
Reading(start, k) ==
    /\ Connected /\ todo = Remaining(ReadJob(start), k)
    /\ k > 2 => eth_batch_start_sector = start
    /\ IF k = 6 + ReadBatch THEN Occupied = {} ELSE OnlyFrames(ReadFrames(start, k))
    /\ Settled({}, {})
    /\ \A i \in 1..ReadBatch : i <= k - 4 =>
         queue_read_data[i - 1] = wanted[start + i - 1] \/ Held(ReadSectors(1, start + i - 1))

Quitting(k) ==
    /\ conn = "up" /\ todo = Remaining(RequestQuit, k)
    /\ OnlyFrames({Quit}) /\ Settled({}, {})
Finished == conn = "finished" /\ todo = <<>> /\ Settled({}, {})

Phase ==
    \/ conn = "exited" /\ todo = <<>>
    \/ \E k \in 1 .. 17 + NumBlocks : Connecting(k)
    \/ \E k \in 18 + NumBlocks .. 20 + NumBlocks : Peeking(k)
    \/ Idle
    \/ \E sectors \in Seq(Sectors), data \in Seq(Data) : BetweenBatches(sectors, data)
    \/ \E id \in 0 .. BatchIds - 1, start \in Sectors, batch \in Seq(Data),
          rest \in Seq(Sectors), restData \in Seq(Data), k \in 1 .. 4 + NumSectors :
         Writing(id, start, batch, rest, restData, k)
    \/ \E start \in ReadStarts, k \in 1 .. 6 + ReadBatch : Reading(start, k)
    \/ \E k \in 1..4 : Quitting(k)
    \/ Finished
DataInv == gaveUp = "never" => Phase /\ InWindow

-----------------------------------------------------------------------------
\* How the host's own steps keep the batch settled.

LEMMA AllFresh ==
    ASSUME TypeInv, Settled({}, {}) PROVE \A s \in Sectors : Fresh(s)
BY DEF Settled, CardFresh, HeldFrames

LEMMA SameSettled ==
    ASSUME NEW F, NEW P, Settled(F, P),
           UNCHANGED <<unacked, callbacks, write_batch_counter, eth_batch_start_sector, wanted,
                       up, down, device>>
    PROVE  Settled(F, P)'
BY DEF Settled, SentFrames, HeldFrames, BatchWires, CardFresh, Fresh, Quiet, Pipe, Batch, Held,
       InOrder, Occupied

\* A frame other than a write is sent, or nothing is.
LEMMA PlainSettled ==
    ASSUME TypeInv, Settled({}, {}), NEW f \in Frames, f.cmd # "write",
           up' = up \/ up' = Transmit(up, f),
           UNCHANGED <<write_batch_counter, wanted, down, device>>, HeldFrames({})'
    PROVE  Settled({}, {})'
<1>1. Range(up') \subseteq Range(up) \cup {f}
  BY WireFacts, TransmitOneRange
<1>2. SentFrames({}, {})'
  BY DEF SentFrames
<1>3. up' \in Seq(Frames)
  BY WireFacts, TransmitOne
<1>4. BatchWires({})'
  <2>1. Batch' = Batch
    BY DEF Batch
  <2>2. f \notin Batch
    BY DEF Batch
  <2>3. Range(up') \cap Batch = {} /\ Range(down) \cap Batch = {}
    BY <1>1, <2>2 DEF Settled, BatchWires
  <2>4. \A i \in 1..Len(up') : up'[i] \notin Batch
    BY <1>3, <2>3, LenProperties DEF Range
  <2>5. InOrder(up, Batch)' /\ InOrder(down, Batch)'
    BY <2>1, <2>4 DEF InOrder, Settled, BatchWires
  <2> QED
    BY <2>1, <2>3, <2>5 DEF BatchWires
<1>5. CardFresh({})'
  <2> SUFFICES ASSUME NEW s \in Sectors PROVE Fresh(s)'
    BY DEF CardFresh
  <2>1. Fresh(s)
    BY AllFresh
  <2> QED
    BY <1>1, <2>1 DEF Fresh
<1> QED
  BY <1>2, <1>4, <1>5 DEF Settled

\* A frame gets the slot that is free.
LEMMA SlotTaken ==
    ASSUME TypeInv, SendOrSchedule
    PROVE  LET slot == FirstOf(Free)
           IN /\ slot \in Slots \ Occupied /\ slot < queue_length
              /\ Current.frame \in Frames
              /\ Occupied' = Occupied \cup {slot} /\ unacked'[slot] = Current.frame
              /\ \A s \in Occupied : unacked'[s] = unacked[s]
<1> DEFINE slot == FirstOf(Free)
           p == Current.frame
<1>1. slot \in Slots \ Occupied /\ slot < queue_length
  BY FreeSlot DEF SendOrSchedule, Ready, Free, Visible, TypeInv
<1>2. p \in Frames /\ p # NoFrame
  BY RunningTypes, FrameOfStep, FrameFacts DEF SendOrSchedule, TypeInv
<1>3. unacked' = [unacked EXCEPT ![slot] = p]
  BY DEF SendOrSchedule
<1> HIDE DEF slot, p
<1>4. \A s \in Slots : unacked'[s] = IF s = slot THEN p ELSE unacked[s]
  BY <1>3 DEF TypeInv, SlotTypes
<1>5. Occupied' = Occupied \cup {slot} /\ unacked'[slot] = p
      /\ \A s \in Occupied : unacked'[s] = unacked[s]
  BY <1>1, <1>2, <1>4 DEF Occupied
<1> QED
  BY <1>1, <1>2, <1>5 DEF slot, p

\* The next frame of the batch is sent.
LEMMA SendSettled ==
    ASSUME TypeInv, NEW F, NEW P, Settled(F, P), OnlyFrames(F), Quiet, callbacks = "ethernet",
           SendOrSchedule, Current.op = "send", NEW f, f = Current.frame,
           f \in Batch, f.data = wanted[Written(f)], Written(f) \in P
    PROVE  /\ Settled(F \cup {f}, P \ {Written(f)})'
           /\ OnlyFrames(F \cup {f})' /\ Quiet'
<1> DEFINE G == F \cup {f}
           slot == FirstOf(Free)
           w == Written(f)
<1>1. /\ slot \in Slots \ Occupied /\ f \in Frames
      /\ Occupied' = Occupied \cup {slot} /\ unacked'[slot] = f
      /\ \A s \in Occupied : unacked'[s] = unacked[s]
  BY SlotTaken
<1>2. /\ up' = Transmit(up, f)
      /\ UNCHANGED <<callbacks, write_batch_counter, eth_batch_start_sector, wanted, down, device>>
  BY DEF SendOrSchedule, protocol, ghosts
<1>3. f \in Batch /\ f.cmd = "write" /\ f.data = wanted[w] /\ w \in P
  BY DEF Batch
<1> HIDE DEF slot
<1>4. Range(up') \subseteq Range(up) \cup {f}
  BY <1>1, <1>2, WireFacts, TransmitOneRange
<1>5. Batch' = Batch
  BY <1>2 DEF Batch
<1>6. OnlyFrames(G)'
  BY <1>1, <1>2 DEF OnlyFrames
<1>7. Quiet'
  BY <1>2, <1>3, <1>4 DEF Quiet, Pipe
<1>8. SentFrames(G, P \ {w})'
  <2>1. \A g \in F : g \in Batch /\ g.data = wanted[Written(g)] /\ Written(g) \notin P
    BY DEF Settled, SentFrames
  <2>2. \A g, h \in F : Written(g) = Written(h) => g = h
    BY DEF Settled, SentFrames
  <2>3. \A g, h \in G : Written(g) = Written(h) => g = h
    BY <1>3, <2>1, <2>2
  <2> QED
    BY <1>2, <1>3, <1>5, <1>7, <2>1, <2>3 DEF SentFrames
<1>9. HeldFrames(G)'
  <2>1. \A s \in Occupied' : unacked'[s] \in G
    BY <1>6 DEF OnlyFrames
  <2>2. \A g \in G : g.cmd = "write"
    BY <1>3 DEF Settled, SentFrames, Batch
  <2> QED
    BY <2>1, <2>2 DEF HeldFrames
<1>10. BatchWires(G)'
  <2>1. Range(up') \cap Batch \subseteq G
    BY <1>4 DEF Settled, BatchWires
  <2>2. \A p \in Range(down) \cap Batch :
          \E g \in G : p = [g EXCEPT !.data = None] /\ device.card[Written(g)] = g.data
    BY DEF Settled, BatchWires
  <2>3. InOrder(up', Batch)
    <3> DEFINE one == <<f>>
               B == Batch
    <3>1. one \in Seq(Frames) /\ Range(one) = {f}
      BY <1>1 DEF Range
    <3>2. up \in Seq(Frames) /\ Len(up) <= WireCapacity /\ InOrder(up, B) /\ up' = TransmitAll(up, one)
      BY <1>2, WireFacts DEF Settled, BatchWires, Transmit
    <3>3. f \in B
      BY <1>3
    <3> HIDE DEF one, B
    <3>4. InOrder(TransmitAll(up, one), B)
      BY <3>1, <3>2, <3>3, TransmitInOrder
    <3> QED
      BY <3>2, <3>4 DEF B
  <2>4. InOrder(up, Batch)' /\ InOrder(down, Batch)'
    BY <1>2, <1>5, <2>3 DEF InOrder, Settled, BatchWires
  <2>5. Range(down) \cap Batch # {} => Range(up') \subseteq Batch
    BY <1>3, <1>4 DEF Settled, BatchWires
  <2>6. \A g \in G : Held(g)' \/ Pipe' \subseteq Batch
    <3> SUFFICES ASSUME NEW g \in G PROVE Held(g)' \/ Pipe' \subseteq Batch
      OBVIOUS
    <3>1. CASE g = f
      BY <1>1, <3>1 DEF Held
    <3>2. CASE Held(g)
      BY <1>1, <3>2 DEF Held
    <3>3. CASE Pipe \subseteq Batch
      BY <1>2, <1>3, <1>4, <3>3 DEF Pipe
    <3> QED
      BY <3>1, <3>2, <3>3 DEF Settled, BatchWires
  <2> QED
    BY <1>2, <1>5, <2>1, <2>2, <2>4, <2>5, <2>6 DEF BatchWires
<1>11. CardFresh(P \ {w})'
  <2> SUFFICES ASSUME NEW s \in Sectors \ (P \ {w})
               PROVE  Fresh(s)' \/ \E t \in Occupied' : unacked'[t].cmd = "write" /\ Written(unacked'[t]) = s
    BY DEF CardFresh
  <2>1. CASE s = w
    BY <1>1, <1>3, <2>1
  <2>2. CASE s # w /\ Fresh(s)
    BY <1>2, <1>4, <2>2 DEF Fresh
  <2>3. CASE \E t \in Occupied : unacked[t].cmd = "write" /\ Written(unacked[t]) = s
    BY <1>1, <2>3
  <2> QED
    BY <2>1, <2>2, <2>3 DEF Settled, CardFresh
<1> QED
  BY <1>6, <1>7, <1>8, <1>9, <1>10, <1>11 DEF Settled

\* The batch is over: nothing on the wires can be taken for the next one.
LEMMA NextBatchSettled ==
    ASSUME TypeInv, KeysApart, NEW F, NEW P, Settled(F, P), F # {}, Occupied = {},
           write_batch_counter' = NextBatch,
           UNCHANGED <<unacked, callbacks, eth_batch_start_sector, wanted, up, down, device>>
    PROVE  Settled({}, P)'
<1>1. write_batch_counter' # write_batch_counter
  <2>1. write_batch_counter \in 0 .. BatchIds - 1 /\ BatchIds \in Nat /\ BatchIds > 1
    BY EtherloadAssumption DEF KeysApart, TypeInv, ValueTypes
  <2>2. CASE write_batch_counter + 1 < BatchIds
    <3>1. NextBatch = write_batch_counter + 1
      BY <2>1, <2>2 DEF NextBatch
    <3> QED
      BY <2>1, <3>1
  <2>3. CASE write_batch_counter + 1 = BatchIds
    <3>1. NextBatch = 0
      BY <2>1, <2>3 DEF NextBatch
    <3> QED
      BY <2>1, <2>3, <3>1
  <2> QED
    BY <2>1, <2>2, <2>3
<1>2. Occupied' = {}
  BY DEF Occupied
<1>3. Pipe \subseteq Batch
  BY DEF Settled, BatchWires, Held
<1>4. \A p \in Pipe : p \notin Batch'
  BY <1>1, <1>3 DEF Batch
<1>5. Range(up) \cap Batch' = {} /\ Range(down) \cap Batch' = {}
  BY <1>4 DEF Pipe
<1>6. InOrder(up, Batch)' /\ InOrder(down, Batch)'
  <2>1. up \in Seq(Frames) /\ down \in Seq(AllAnswers)
    BY WireFacts
  <2>2. (\A i \in 1..Len(up) : up[i] \in Range(up)) /\ (\A i \in 1..Len(down) : down[i] \in Range(down))
    BY <2>1, LenProperties DEF Range
  <2> QED
    BY <1>5, <2>2 DEF InOrder
<1>7. BatchWires({})'
  BY <1>5, <1>6 DEF BatchWires
<1>8. CardFresh(P)'
  <2> SUFFICES ASSUME NEW s \in Sectors \ P PROVE Fresh(s)'
    BY DEF CardFresh
  <2>1. Fresh(s)
    BY DEF Settled, CardFresh
  <2> QED
    BY <2>1 DEF Fresh
<1> QED
  BY <1>2, <1>7, <1>8 DEF Settled, SentFrames, HeldFrames

-----------------------------------------------------------------------------
\* The network, the device and the waiting host change nothing about where the
\* host is, except that it may get the answer it waits for.

LEMMA AroundWindow == ASSUME TypeInv, KeysApart, NEW F, NEW P, Settled(F, P), Around, InWindow
                      PROVE  InWindow'
BY AroundKeeps DEF InWindow

LEMMA AroundFrames ==
    ASSUME TypeInv, KeysApart, NEW F, NEW P, Settled(F, P), Around, NEW A, OnlyFrames(A)
    PROVE  OnlyFrames(A)'
BY AroundKeeps DEF OnlyFrames

LEMMA AroundConnected ==
    ASSUME TypeInv, KeysApart, NEW F, NEW P, Settled(F, P), Around, Connected,
           \A s \in Occupied : unacked[s].cmd \in {"peek", "write", "read"}
    PROVE  Connected'
BY AroundKeeps, AroundQuiet DEF Connected

LEMMA AroundIdle == ASSUME TypeInv, KeysApart, Idle, Around PROVE Idle'
BY AroundKeeps, AroundConnected DEF Idle

LEMMA AroundBetween ==
    ASSUME TypeInv, KeysApart, NEW sectors, NEW data, BetweenBatches(sectors, data), Around
    PROVE  BetweenBatches(sectors, data)'
<1> DEFINE P == Range(sectors)
<1>1. Settled({}, P) /\ Connected /\ Occupied = {}
  BY DEF BetweenBatches
<1>2. Settled({}, P)' /\ UNCHANGED <<todo, wanted>> /\ Occupied' = {}
  BY <1>1, AroundKeeps
<1>3. Connected'
  BY <1>1, AroundConnected
<1> QED
  BY <1>2, <1>3 DEF BetweenBatches, Hold

LEMMA SentAreWrites ==
    ASSUME NEW id, NEW start, NEW batch, NEW k
    PROVE  \A f \in SentOf(id, start, batch, k) : f.cmd = "write"
BY DEF SentOf, BatchFrame, WriteSector, Packet

LEMMA AroundWriting ==
    ASSUME TypeInv, KeysApart, NEW id, NEW start, NEW batch, NEW rest, NEW restData, NEW k,
           Writing(id, start, batch, rest, restData, k), Around
    PROVE  Writing(id, start, batch, rest, restData, k)'
<1> DEFINE F == SentOf(id, start, batch, k)
           P == UnsentOf(start, batch, rest, k)
<1>1. Settled(F, P) /\ Connected /\ (Occupied = {} \/ OnlyFrames(F))
  BY DEF Writing
<1>2. Settled(F, P)' /\ UNCHANGED <<todo, wanted, write_batch_counter>> /\ Occupied' \subseteq Occupied
  BY <1>1, AroundKeeps
<1>3. Connected'
  BY <1>1, AroundConnected, SentAreWrites DEF OnlyFrames
<1>4. IF k = 4 + Len(batch) THEN Occupied' = {} ELSE OnlyFrames(F)'
  <2>1. CASE k = 4 + Len(batch)
    BY <1>2, <2>1 DEF Writing
  <2>2. CASE k # 4 + Len(batch)
    <3>1. OnlyFrames(F)
      BY <2>2 DEF Writing
    <3> HIDE DEF F, P
    <3> QED
      BY <1>1, <2>2, <3>1, AroundFrames
  <2> QED
    BY <2>1, <2>2
<1> QED
  BY <1>2, <1>3, <1>4 DEF Writing, Hold

LEMMA AroundQuitting ==
    ASSUME TypeInv, KeysApart, NEW k, Quitting(k), Around PROVE Quitting(k)'
BY AroundKeeps, AroundFrames DEF Quitting

LEMMA AroundFinished == ASSUME TypeInv, KeysApart, Finished, Around PROVE Finished'
BY AroundKeeps DEF Finished

LEMMA ReadMatch ==
    ASSUME KeysApart, NEW packet \in AllAnswers, NEW f \in Reads, EthernetMatch(packet, f),
           packet.cmd \in {"peek", "write", "read"}
    PROVE  packet.cmd = "read" /\ packet.key = f.key
<1>1. f.cmd = "read" /\ f.key \in 1 .. NumSectors + 1 /\ f.key \in Nat
  BY EtherloadAssumption DEF Reads, Sectors
<1>2. packet.key = f.key
  BY <1>1 DEF EthernetMatch
<1>3. packet.cmd # "write"
  BY <1>1, <1>2, AnswerFacts DEF KeysApart, WriteAnswers
<1>4. packet.cmd # "peek"
  <2> SUFFICES ASSUME packet.cmd = "peek" PROVE FALSE
    OBVIOUS
  <2>1. packet.key = -1
    BY AnswerFacts, SignalKeys
  <2> QED
    BY <1>1, <1>2, <2>1
<1> QED
  BY <1>2, <1>3, <1>4

LEMMA ReadFrameFacts ==
    ASSUME NEW start \in ReadStarts, NEW i \in 1..ReadBatch
    PROVE  LET f == ReadSectors(1, start + i - 1)
           IN /\ f \in Reads /\ f \in Frames /\ f.cmd = "read" /\ f.key = start + i - 1
              /\ start + i - 1 \in Sectors
<1>1. ReadBatch \in Nat /\ ReadBatch > 0 /\ ReadBatch <= NumSectors /\ NumSectors \in Nat
      /\ ReadWindow \in Nat /\ ReadWindow > 0
  BY EtherloadAssumption
<1>2. start + i - 1 \in Sectors /\ start + i - 1 + 1 <= NumSectors + 1
  BY <1>1 DEF ReadStarts, Sectors
<1>3. 1 \in 0..ReadWindow
  BY <1>1
<1> DEFINE s == start + i - 1
<1> HIDE DEF s
<1>4. s \in Sectors /\ s + 1 <= NumSectors + 1
  BY <1>2 DEF s
<1>5. ReadSectors(1, s) \in Reads /\ ReadSectors(1, s).cmd = "read" /\ ReadSectors(1, s).key = s
  BY <1>3, <1>4 DEF ReadSectors, Packet, Reads
<1> QED
  BY <1>4, <1>5 DEF s, Frames

\* The answer to the read of a sector brings what was written to it last, and
\* it goes to the place of that sector.
LEMMA ReceiveReading ==
    ASSUME TypeInv, KeysApart, NEW start \in ReadStarts, NEW k \in 1 .. 6 + ReadBatch,
           Reading(start, k), Receive,
           NEW i \in 1..ReadBatch, i <= k - 4,
           queue_read_data[i - 1] = wanted[start + i - 1] \/ Held(ReadSectors(1, start + i - 1))
    PROVE  queue_read_data'[i - 1] = wanted[start + i - 1] \/ Held(ReadSectors(1, start + i - 1))'
<1> DEFINE p == Head(down)
           known == HasSequence(p) /\ Answers(p) # {}
           slot == FirstOf(Answers(p))
           f == unacked[slot]
           r == ReadSectors(1, start + i - 1)
<1>1. CASE ~known
  <2>1. UNCHANGED <<unacked, queue_read_data>>
    BY <1>1 DEF Receive
  <2> QED
    BY <2>1 DEF Held, Occupied
<1>2. CASE known
  <2>1. slot \in Answers(p) /\ slot \in Occupied
    BY <1>2, AnsweredSlot DEF TypeInv
  <2>2. callbacks = "ethernet" /\ Quiet /\ Settled({}, {}) /\ eth_batch_start_sector = start
    <3>1. k > 2
      BY EtherloadAssumption
    <3> QED
      BY <3>1 DEF Reading, Connected
  <2>3. f \in ReadFrames(start, k)
    BY <2>1 DEF Reading, OnlyFrames
  <2>4. PICK j \in 1..ReadBatch : f = ReadSectors(1, start + j - 1)
    BY <2>3 DEF ReadFrames
  <2>5. p \in AllAnswers /\ p \in Range(down)
    BY ReceiveEffect
  <2>6. p.cmd \in {"peek", "write", "read"}
    BY <2>2, <2>5 DEF Quiet, Pipe
  <2>7. EthernetMatch(p, f)
    BY <2>1, <2>2 DEF Answers, MatchPayloads
  <2>8. p.cmd = "read" /\ p.key = start + j - 1 /\ start + j - 1 \in Sectors
    BY <2>4, <2>5, <2>6, <2>7, ReadFrameFacts, ReadMatch
  <2>9. Fresh(start + j - 1)
    BY <2>2, <2>8, AllFresh
  <2>10. p.data = wanted[start + j - 1]
    BY <2>5, <2>8, <2>9 DEF Fresh
  <2>11. Index(p) = j - 1 /\ j - 1 \in 0 .. ReadBatch - 1
    BY <2>2, <2>8, EtherloadAssumption DEF Index, ReadStarts
  <2>12. queue_read_data \in [0 .. ReadBatch - 1 -> Data \cup {AsFound, None}]
    BY DEF TypeInv, ValueTypes
  <2>13. queue_read_data' = [queue_read_data EXCEPT ![j - 1] = p.data]
    BY <1>2, <2>2, <2>8, <2>11, <2>12 DEF Receive
  <2>14. unacked' = [unacked EXCEPT ![slot] = NoFrame]
    BY <1>2 DEF Receive
  <2> HIDE DEF slot, p
  <2>15. \A s \in Slots : unacked'[s] = IF s = slot THEN NoFrame ELSE unacked[s]
    BY <2>14 DEF TypeInv, SlotTypes
  <2>16. CASE i = j
    BY <2>10, <2>11, <2>12, <2>13, <2>16
  <2>17. CASE i # j
    <3>1. queue_read_data'[i - 1] = queue_read_data[i - 1]
      <4>1. i - 1 # j - 1 /\ i - 1 \in 0 .. ReadBatch - 1
        BY <2>17, EtherloadAssumption
      <4> QED
        BY <2>12, <2>13, <4>1
    <3>2. f # r
      <4>1. f.key = start + j - 1 /\ r.key = start + i - 1
        BY <2>4, ReadFrameFacts
      <4>2. start \in Nat
        BY EtherloadAssumption DEF ReadStarts
      <4> QED
        BY <2>17, <4>1, <4>2
    <3>3. ASSUME NEW s \in Occupied, unacked[s] = r PROVE s \in Occupied' /\ unacked'[s] = r
      BY <2>15, <3>2, <3>3 DEF Occupied
    <3> QED
      BY <3>1, <3>3 DEF Held
  <2> QED
    BY <2>16, <2>17
<1> QED
  BY <1>1, <1>2

LEMMA AroundReading ==
    ASSUME TypeInv, KeysApart, NEW start \in ReadStarts, NEW k \in 1 .. 6 + ReadBatch,
           Reading(start, k), Around
    PROVE  Reading(start, k)'
<1> DEFINE A == ReadFrames(start, k)
<1>1. Settled({}, {}) /\ Connected /\ (Occupied = {} \/ OnlyFrames(A))
  BY DEF Reading
<1>2. Settled({}, {})' /\ UNCHANGED <<todo, wanted, eth_batch_start_sector>> /\ Occupied' \subseteq Occupied
  BY <1>1, AroundKeeps
<1>3. \A f \in A : f.cmd = "read"
  BY DEF ReadFrames, ReadSectors, Packet
<1>4. Connected'
  BY <1>1, <1>3, AroundConnected DEF OnlyFrames
<1>5. OnlyFrames(A) => OnlyFrames(A)'
  <2> HIDE DEF A
  <2> QED
    BY <1>1, AroundFrames
<1>6. ASSUME NEW i \in 1..ReadBatch, i <= k - 4
      PROVE  queue_read_data'[i - 1] = wanted[start + i - 1] \/ Held(ReadSectors(1, start + i - 1))'
  <2>1. queue_read_data[i - 1] = wanted[start + i - 1] \/ Held(ReadSectors(1, start + i - 1))
    BY <1>6 DEF Reading
  <2>2. CASE Receive
    BY <1>6, <2>1, <2>2, ReceiveReading
  <2>3. CASE UNCHANGED <<queue_read_data, unacked>>
    BY <2>1, <2>3 DEF Held, Occupied
  <2> QED
    BY <2>2, <2>3 DEF Around, Resend, DeviceReceives, Lose, host, results
<1> QED
  BY <1>1, <1>2, <1>4, <1>5, <1>6 DEF Reading

LEMMA ConnectPacketFacts ==
    /\ ConnectPackets \cup {ReadMemory} \subseteq Frames
    /\ \A p \in ConnectPackets : p.cmd \notin {"write", "read", "peek"}
    /\ ReadMemory.cmd = "peek" /\ ReadMemory \notin ConnectPackets
<1>1. \A p \in ConnectPackets : p.cmd \notin {"write", "read", "peek"}
  BY DEF ConnectPackets, Echo, AllDone, Hello, Load, Packet
<1>2. ReadMemory.cmd = "peek"
  BY DEF ReadMemory, Packet
<1> QED
  BY <1>1, <1>2 DEF ConnectPackets, Frames, Signals

LEMMA AroundConnecting ==
    ASSUME TypeInv, KeysApart, NEW k, Connecting(k), Around
    PROVE  Connecting(k)'
<1>1. Settled({}, {}) /\ Pipe \subseteq ConnectPackets
      /\ \A s \in Occupied : unacked[s] \in ConnectPackets
  BY DEF Connecting, OnlyFrames
<1>2. Settled({}, {})' /\ UNCHANGED <<conn, todo, callbacks>> /\ Occupied' \subseteq Occupied
  BY <1>1, AroundKeeps
<1>3. \A q \in Pipe' : q \in Pipe \/ (\E s \in Occupied : q = unacked[s]) \/ \E p \in Range(up) : q = p
  <2>1. \A p \in Range(up) : p.cmd \notin {"write", "read"}
    BY <1>1, ConnectPacketFacts DEF Pipe
  <2> QED
    BY <2>1, AroundPipe
<1>4. Pipe' \subseteq ConnectPackets
  BY <1>1, <1>3 DEF Pipe
<1>5. OnlyFrames(ConnectPackets) => OnlyFrames(ConnectPackets)'
  BY <1>1, AroundFrames
<1>6. k = 17 + NumBlocks => memory_read_buffer_len' = memory_read_buffer_len
  <2> SUFFICES ASSUME k = 17 + NumBlocks PROVE memory_read_buffer_len' = memory_read_buffer_len
    OBVIOUS
  <2>1. Occupied = {}
    BY DEF Connecting
  <2>2. CASE Receive
    BY <2>1, <2>2, ReceiveEffect
  <2> QED
    BY <2>2 DEF Around, Resend, DeviceReceives, Lose, results
<1> QED
  BY <1>2, <1>4, <1>5, <1>6 DEF Connecting

LEMMA AroundPeeking ==
    ASSUME TypeInv, KeysApart, NEW k, Peeking(k), Around
    PROVE  Peeking(k)'
<1> DEFINE M == {ReadMemory}
           A == ConnectPackets \cup M
<1>1. /\ Settled({}, {}) /\ Pipe \subseteq A /\ callbacks = "ethernet"
      /\ InOrder(up, M) /\ InOrder(down, M)
      /\ ReadMemory \in Range(down) => Range(up) \subseteq M
      /\ \A s \in Occupied : unacked[s] \in M
  BY DEF Peeking, OnlyFrames
<1>2. Settled({}, {})' /\ UNCHANGED <<conn, todo, callbacks>> /\ Occupied' \subseteq Occupied
  BY <1>1, AroundKeeps
<1>3. up \in Seq(Frames) /\ down \in Seq(AllAnswers) /\ Len(down) <= WireCapacity
  BY WireFacts
<1>4. OnlyFrames(M) => OnlyFrames(M)'
  <2> HIDE DEF M
  <2> QED
    BY <1>1, AroundFrames
<1> DEFINE Wires == /\ Pipe \subseteq A
                    /\ InOrder(up, M) /\ InOrder(down, M)
                    /\ ReadMemory \in Range(down) => Range(up) \subseteq M
                    /\ memory_read_buffer_len = 1 => Pipe \subseteq M
<1>5. memory_read_buffer_len = 1 => Pipe \subseteq M
  BY DEF Peeking
<1>6. ASSUME Receive PROVE Wires'
  <2>1. /\ Head(down) \in Range(down) /\ down' = Tail(down) /\ Range(down') \subseteq Range(down)
        /\ up' = up /\ down # <<>>
    BY <1>6, ReceiveEffect DEF Receive
  <2>2. InOrder(Tail(down), M) /\ (Head(down) \in M => Range(down) \subseteq M)
    <3> HIDE DEF M
    <3> QED
      BY <1>1, <1>3, <2>1, HeadInOrder
  <2>3. memory_read_buffer_len' = memory_read_buffer_len \/ Head(down).cmd = "peek"
    BY <1>6 DEF Receive
  <2>4. Head(down).cmd = "peek" => Head(down) \in M
    BY <1>1, <2>1, ConnectPacketFacts DEF Pipe
  <2>5. Head(down).cmd = "peek" => Pipe \subseteq M
    BY <1>1, <2>1, <2>2, <2>4 DEF Pipe
  <2>6. Pipe' \subseteq Pipe
    BY <2>1 DEF Pipe
  <2>7. InOrder(up', M) /\ InOrder(down', M)
    BY <1>1, <2>1, <2>2
  <2>8. InOrder(up, M)' /\ InOrder(down, M)'
    BY <2>7 DEF InOrder
  <2>9. memory_read_buffer_len' = 1 => Pipe' \subseteq M
    BY <1>5, <2>3, <2>5, <2>6
  <2> QED
    BY <1>1, <2>1, <2>6, <2>8, <2>9
<1>7. ASSUME Resend PROVE Wires'
  <2> DEFINE f == unacked[OldestSent]
  <2>1. up' = Append(up, f) /\ UNCHANGED <<down, memory_read_buffer_len>>
    BY <1>7 DEF Resend, results
  <2>2. OldestSent \in Occupied /\ f \in Frames
    BY <1>7, OldestFrame DEF Resend, TypeInv
  <2>3. f \in M
    BY <1>1, <2>2
  <2> HIDE DEF f
  <2>4. Range(up') = Range(up) \cup {f}
    BY <1>3, <2>1, <2>2, RangeFacts
  <2>5. InOrder(Append(up, f), M)
    <3> HIDE DEF M
    <3> QED
      BY <1>1, <1>3, <2>2, <2>3, AppendInOrder
  <2>6. InOrder(up, M)' /\ InOrder(down, M)'
    BY <1>1, <2>1, <2>5 DEF InOrder
  <2> QED
    BY <1>1, <1>5, <2>1, <2>3, <2>4, <2>6 DEF Pipe
<1>8. ASSUME DeviceReceives PROVE Wires'
  <2> DEFINE p == Head(up)
             packets == Replies(p)
  <2>1. /\ up # <<>> /\ p \in Frames /\ p \in Range(up) /\ up' = Tail(up)
        /\ Range(up') \subseteq Range(up) /\ packets \in Seq(AllAnswers)
        /\ down' = TransmitAll(down, packets) /\ Range(down') \subseteq Range(down) \cup Range(packets)
    BY <1>8, DeviceEffect
  <2>2. memory_read_buffer_len' = memory_read_buffer_len
    BY <1>8 DEF DeviceReceives, results
  <2>3. p \in A /\ p.cmd \notin {"write", "read"}
    BY <1>1, <2>1, ConnectPacketFacts DEF Pipe
  <2>4. Range(packets) \subseteq {p}
    <3> HIDE DEF p
    <3> QED
      BY <2>1, <2>3, RepliesRange
  <2>5. InOrder(Tail(up), M) /\ (p \in M => Range(up) \subseteq M)
    <3> HIDE DEF M
    <3> QED
      BY <1>1, <1>3, <2>1, HeadInOrder
  <2> HIDE DEF p, packets
  <2>6. Range(packets) \subseteq M \/ (Range(down) \cap M = {} /\ Range(packets) \cap M = {})
    BY <1>1, <2>1, <2>4
  <2>7. InOrder(TransmitAll(down, packets), M)
    <3> HIDE DEF M
    <3> QED
      BY <1>1, <1>3, <2>1, <2>6, TransmitInOrder
  <2>8. InOrder(up, M)' /\ InOrder(down, M)'
    BY <2>1, <2>5, <2>7 DEF InOrder
  <2>9. ReadMemory \in Range(down') => Range(up') \subseteq M
    BY <1>1, <2>1, <2>4, <2>5
  <2>10. Pipe' \subseteq Pipe
    BY <2>1, <2>4 DEF Pipe
  <2> QED
    BY <1>1, <1>5, <2>2, <2>8, <2>9, <2>10
<1>9. ASSUME Lose PROVE Wires'
  <2>1. memory_read_buffer_len' = memory_read_buffer_len
    BY <1>9 DEF Lose, results
  <2>2. Range(up') \subseteq Range(up) /\ Range(down') \subseteq Range(down)
    BY <1>3, <1>9, RangeFacts DEF Lose
  <2>3. InOrder(up', M) /\ InOrder(down', M)
    <3> HIDE DEF M
    <3> QED
      BY <1>1, <1>3, <1>9, HeadInOrder DEF Lose
  <2>4. InOrder(up, M)' /\ InOrder(down, M)'
    BY <2>3 DEF InOrder
  <2> QED
    BY <1>1, <1>5, <2>1, <2>2, <2>4 DEF Pipe
<1>10. Wires'
  <2> HIDE DEF Wires
  <2> QED
    BY <1>6, <1>7, <1>8, <1>9 DEF Around
<1>11. k = 20 + NumBlocks => memory_read_buffer_len' = memory_read_buffer_len
  <2> SUFFICES ASSUME k = 20 + NumBlocks PROVE memory_read_buffer_len' = memory_read_buffer_len
    OBVIOUS
  <2>1. k # 18 + NumBlocks
    BY EtherloadAssumption
  <2>2. Occupied = {}
    BY <2>1 DEF Peeking
  <2>3. CASE Receive
    BY <2>2, <2>3, ReceiveEffect
  <2> QED
    BY <2>3 DEF Around, Resend, DeviceReceives, Lose, results
<1> QED
  BY <1>2, <1>4, <1>10, <1>11 DEF Peeking

LEMMA AroundPhase ==
    ASSUME TypeInv, KeysApart, Phase, InWindow, Around
    PROVE  Phase' /\ InWindow'
<1>1. CASE conn = "exited" /\ todo = <<>>
  <2>1. DeviceReceives \/ Lose
    BY <1>1 DEF Around, Receive, Resend, Waiting, Running
  <2>2. UNCHANGED <<conn, todo, unacked, queue_length>>
    BY <2>1 DEF DeviceReceives, Lose, host
  <2> QED
    BY <1>1, <2>2 DEF Phase, InWindow, Occupied
<1>2. ASSUME NEW k \in 1 .. 17 + NumBlocks, Connecting(k) PROVE Phase' /\ InWindow'
  BY <1>2, AroundConnecting, AroundWindow DEF Phase, Connecting
<1>3. ASSUME NEW k \in 18 + NumBlocks .. 20 + NumBlocks, Peeking(k) PROVE Phase' /\ InWindow'
  BY <1>3, AroundPeeking, AroundWindow DEF Phase, Peeking
<1>4. CASE Idle
  BY <1>4, AroundIdle, AroundWindow DEF Phase, Idle
<1>5. ASSUME NEW sectors \in Seq(Sectors), NEW data \in Seq(Data), BetweenBatches(sectors, data)
      PROVE  Phase' /\ InWindow'
  BY <1>5, AroundBetween, AroundWindow DEF Phase, BetweenBatches
<1>6. ASSUME NEW id \in 0 .. BatchIds - 1, NEW start \in Sectors, NEW batch \in Seq(Data),
             NEW rest \in Seq(Sectors), NEW restData \in Seq(Data), NEW k \in 1 .. 4 + NumSectors,
             Writing(id, start, batch, rest, restData, k)
      PROVE  Phase' /\ InWindow'
  <2>1. Writing(id, start, batch, rest, restData, k)'
    BY <1>6, AroundWriting
  <2>2. InWindow'
    BY <1>6, AroundWindow DEF Writing
  <2> QED
    BY <2>1, <2>2 DEF Phase
<1>7. ASSUME NEW start \in ReadStarts, NEW k \in 1 .. 6 + ReadBatch, Reading(start, k)
      PROVE  Phase' /\ InWindow'
  BY <1>7, AroundReading, AroundWindow DEF Phase, Reading
<1>8. ASSUME NEW k \in 1..4, Quitting(k) PROVE Phase' /\ InWindow'
  BY <1>8, AroundQuitting, AroundWindow DEF Phase, Quitting
<1>9. CASE Finished
  BY <1>9, AroundFinished, AroundWindow DEF Phase, Finished
<1> QED
  BY <1>1, <1>2, <1>3, <1>4, <1>5, <1>6, <1>7, <1>8, <1>9 DEF Phase

-----------------------------------------------------------------------------
\* The host's own steps, one function after the other.

LEMMA HostWindow == ASSUME TypeInv, HostStep, ~SetQueueLength, InWindow PROVE InWindow'
<1>1. CASE SendOrSchedule
  BY <1>1, SlotTaken DEF InWindow, SendOrSchedule
<1>2. CASE ~SendOrSchedule
  <2>1. UNCHANGED <<unacked, queue_length>>
    BY <1>2 DEF HostStep, Wait, SendUnscheduled, SetCallbacks, Assign, NextJobs, PeekFails, host
  <2> QED
    BY <2>1 DEF InWindow, Occupied
<1> QED
  BY <1>1, <1>2

LEMMA AllAnswered ==
    ASSUME TypeInv, InWindow, Wait, Current.slots = 0
    PROVE  Occupied = {} /\ Occupied' = {}
<1>1. Cardinality(Free) >= queue_length
  BY DEF Wait, Ready
<1>2. Occupied = {}
  BY <1>1, AllFree DEF InWindow
<1> QED
  BY <1>2 DEF Wait, Occupied

LEMMA WaitSettled == ASSUME NEW F, NEW P, Settled(F, P), Wait PROVE Settled(F, P)'
BY SameSettled DEF Wait, protocol, ghosts, wires

LEMMA ConnectingStep ==
    ASSUME NEW k \in 1 .. 17 + NumBlocks, todo = Remaining(Connect, k)
    PROVE  /\ Running /\ Tail(todo) = Remaining(Connect, k + 1)
           /\ \/ Current.op = "wait" /\ Current.slots = 0 /\ k # 12 + NumBlocks /\ k < 16 + NumBlocks
              \/ /\ Current.op = "callbacks" /\ k <= 12 + NumBlocks
                 /\ k = 12 + NumBlocks => Current.who = "ethernet"
              \/ /\ Current.op = "send" /\ Current.frame \in ConnectPackets
                 /\ k # 12 + NumBlocks /\ k <= 13 + NumBlocks
              \/ Current.op = "clear_memory_read" /\ k = 16 + NumBlocks
              \/ Current.op = "send" /\ Current.frame = ReadMemory /\ k = 17 + NumBlocks
<1> DEFINE n == NumBlocks
           c == Connect
           Kind(step) ==
             \/ step.op = "wait" /\ step.slots = 0 /\ k # 12 + n /\ k < 16 + n
             \/ step.op = "callbacks" /\ k <= 12 + n /\ (k = 12 + n => step.who = "ethernet")
             \/ step.op = "send" /\ step.frame \in ConnectPackets /\ k # 12 + n /\ k <= 13 + n
             \/ step.op = "clear_memory_read" /\ k = 16 + n
             \/ step.op = "send" /\ step.frame = ReadMemory /\ k = 17 + n
<1>1. n \in Nat
  BY EtherloadAssumption
<1>2. c \in Seq(Steps) /\ Len(c) = 20 + n
  BY ConnectScript
<1>3. k \in 1..Len(c)
  BY <1>1, <1>2
<1>4. Running /\ Current = c[k] /\ Tail(todo) = Remaining(Connect, k + 1)
  BY <1>2, <1>3, ScriptFacts
<1>5. /\ WaitAll.op = "wait" /\ WaitAll.slots = 0
      /\ WaitSlots(0, TRUE).op = "wait" /\ WaitSlots(0, TRUE).slots = 0
      /\ \A who : Callbacks(who).op = "callbacks" /\ Callbacks(who).who = who
      /\ Send(Echo, TRUE).op = "send" /\ Send(Echo, TRUE).frame = Echo
      /\ Send(AllDone, TRUE).op = "send" /\ Send(AllDone, TRUE).frame = AllDone
      /\ Send(Hello, FALSE).op = "send" /\ Send(Hello, FALSE).frame = Hello
      /\ Send(ReadMemory, FALSE).op = "send" /\ Send(ReadMemory, FALSE).frame = ReadMemory
      /\ \A b : Send(Load(b), TRUE).op = "send" /\ Send(Load(b), TRUE).frame = Load(b)
      /\ Step("clear_memory_read").op = "clear_memory_read"
  BY DEF WaitAll, WaitSlots, Callbacks, Send, Step
<1>6. {Echo, AllDone, Hello} \subseteq ConnectPackets /\ \A b \in 1..n : Load(b) \in ConnectPackets
  BY DEF ConnectPackets
<1>7. k \in {1, 4, 6 + n, 7 + n, 10 + n, 14 + n, 15 + n} => Kind(c[k])
  <2> SUFFICES ASSUME k \in {1, 4, 6 + n, 7 + n, 10 + n, 14 + n, 15 + n} PROVE Kind(c[k])
    OBVIOUS
  <2>1. {c[1], c[4], c[6 + n], c[7 + n], c[10 + n], c[14 + n], c[15 + n]}
          \subseteq {WaitAll, WaitSlots(0, TRUE)}
    BY ConnectScript
  <2> HIDE DEF c
  <2>2. c[k] \in {WaitAll, WaitSlots(0, TRUE)}
    BY <2>1
  <2>3. k # 12 + n /\ k < 16 + n
    BY <1>1
  <2> QED
    BY <1>5, <2>2, <2>3
<1>8. k \in {2, 5, 8 + n, 11 + n, 12 + n} => Kind(c[k])
  <2> SUFFICES ASSUME k \in {2, 5, 8 + n, 11 + n, 12 + n} PROVE Kind(c[k])
    OBVIOUS
  <2>1. {c[2], c[5], c[8 + n], c[11 + n]}
          \subseteq {Callbacks("single"), Callbacks("dmaload")}
        /\ c[12 + n] = Callbacks("ethernet")
    BY ConnectScript
  <2> HIDE DEF c
  <2>2. c[k] \in {Callbacks("single"), Callbacks("dmaload"), Callbacks("ethernet")}
        /\ (k = 12 + n => c[k] = Callbacks("ethernet"))
    BY <2>1
  <2>3. k <= 12 + n
    BY <1>1
  <2> QED
    BY <1>5, <2>2, <2>3
<1>9. k \in {3, 9 + n, 13 + n} => Kind(c[k])
  <2> SUFFICES ASSUME k \in {3, 9 + n, 13 + n} PROVE Kind(c[k])
    OBVIOUS
  <2>1. {c[3], c[9 + n], c[13 + n]} \subseteq {Send(Echo, TRUE), Send(AllDone, TRUE), Send(Hello, FALSE)}
    BY ConnectScript
  <2> HIDE DEF c
  <2>2. c[k] \in {Send(Echo, TRUE), Send(AllDone, TRUE), Send(Hello, FALSE)}
    BY <2>1
  <2>3. k # 12 + n /\ k <= 13 + n
    BY <1>1
  <2> QED
    BY <1>5, <1>6, <2>2, <2>3
<1>10. k \in 6 .. 5 + n => Kind(c[k])
  <2> SUFFICES ASSUME k \in 6 .. 5 + n PROVE Kind(c[k])
    OBVIOUS
  <2> DEFINE b == k - 5
  <2>1. b \in 1..n /\ 5 + b = k
    BY <1>1
  <2> HIDE DEF b
  <2>2. c[5 + b] = Send(Load(b), TRUE)
    BY <2>1, ConnectScript
  <2>3. k # 12 + n /\ k <= 13 + n
    BY <1>1
  <2> HIDE DEF c
  <2> QED
    BY <1>5, <1>6, <2>1, <2>2, <2>3
<1>11. k = 16 + n => Kind(c[k])
  BY <1>5, ConnectScript
<1>12. k = 17 + n => Kind(c[k])
  <2>1. c[17 + n] = Send(ReadMemory, FALSE)
    BY ConnectScript
  <2> HIDE DEF c
  <2> QED
    BY <1>5, <2>1
<1>13. \/ k \in {1, 4, 6 + n, 7 + n, 10 + n, 14 + n, 15 + n}
       \/ k \in {2, 5, 8 + n, 11 + n, 12 + n} \/ k \in {3, 9 + n, 13 + n}
       \/ k \in 6 .. 5 + n \/ k = 16 + n \/ k = 17 + n
  BY <1>1
<1>14. Kind(c[k])
  <2> HIDE DEF Kind
  <2> QED
    BY <1>7, <1>8, <1>9, <1>10, <1>11, <1>12, <1>13
<1> QED
  BY <1>4, <1>14

LEMMA HeldKept ==
    ASSUME HeldFrames({}), Occupied' = Occupied, \A s \in Occupied : unacked'[s] = unacked[s],
           eth_batch_start_sector' = eth_batch_start_sector
    PROVE  HeldFrames({})'
BY DEF HeldFrames

\* A request that is no write is sent and waits for its answer.
LEMMA PlainSent ==
    ASSUME TypeInv, Settled({}, {}), SendOrSchedule, Current.frame.cmd # "write",
           Current.frame.cmd = "read" => Current.frame.key >= eth_batch_start_sector
    PROVE  Settled({}, {})' /\ Pipe' \subseteq Pipe \cup {Current.frame}
<1> DEFINE f == Current.frame
           slot == FirstOf(Free)
<1>1. /\ f \in Frames /\ Occupied' = Occupied \cup {slot} /\ unacked'[slot] = f
      /\ \A s \in Occupied : unacked'[s] = unacked[s]
  BY SlotTaken
<1>2. /\ up' = up \/ up' = Transmit(up, f)
      /\ UNCHANGED <<write_batch_counter, eth_batch_start_sector, wanted, down, device>>
  BY DEF SendOrSchedule, protocol, ghosts
<1>3. f.cmd # "write" /\ (f.cmd = "read" => f.key >= eth_batch_start_sector)
  OBVIOUS
<1>4. Range(up') \subseteq Range(up) \cup {f}
  BY <1>1, <1>2, WireFacts, TransmitOneRange
<1> HIDE DEF f, slot
<1>5. HeldFrames({})'
  BY <1>1, <1>2, <1>3 DEF Settled, HeldFrames
<1>6. Settled({}, {})'
  BY <1>1, <1>2, <1>3, <1>5, PlainSettled
<1> QED
  BY <1>2, <1>4, <1>6 DEF Pipe, f

LEMMA ConnectingHost ==
    ASSUME TypeInv, InWindow, NEW k \in 1 .. 17 + NumBlocks, Connecting(k), HostStep
    PROVE  Phase'
<1> DEFINE n == NumBlocks
           A == ConnectPackets
           M == {ReadMemory}
<1>1. n \in Nat
  BY EtherloadAssumption
<1>2. todo = Remaining(Connect, k) /\ Settled({}, {}) /\ conn = "down" /\ Pipe \subseteq A
  BY DEF Connecting
<1>3. Running /\ Tail(todo) = Remaining(Connect, k + 1)
      /\ (k > 12 + n => Current.op # "callbacks" /\ callbacks = "ethernet")
  <2>1. k > 12 + n => callbacks = "ethernet"
    BY DEF Connecting
  <2>2. k > 12 + n => ~(k <= 12 + n)
    BY <1>1
  <2> QED
    BY <1>2, <2>1, <2>2, ConnectingStep
<1>4. SUFFICES (\E m \in 1 .. 17 + n : Connecting(m)') \/ Peeking(18 + n)'
  <2>1. 18 + n \in 18 + n .. 20 + n
    BY <1>1
  <2> QED
    BY <2>1 DEF Phase
<1>5. CASE Current.op = "wait" /\ Current.slots = 0 /\ k # 12 + n /\ k < 16 + n
  <2>1. Wait
    BY <1>5 DEF HostStep, SendOrSchedule, SendUnscheduled, SetQueueLength, SetCallbacks, Assign,
                NextJobs, PeekFails
  <2>2. todo' = Remaining(Connect, k + 1) /\ UNCHANGED <<conn, callbacks, unacked, up, down>>
    BY <1>3, <2>1 DEF Wait, NextStep, wires
  <2>3. Occupied' = {} /\ Settled({}, {})'
    BY <1>2, <1>5, <2>1, AllAnswered, WaitSettled
  <2>4. k + 1 \in 1 .. 17 + n /\ k + 1 # 17 + n /\ (k + 1 > 12 + n => k > 12 + n)
    BY <1>1, <1>5
  <2>5. OnlyFrames(A)' /\ Pipe' = Pipe
    BY <2>2, <2>3 DEF OnlyFrames, Pipe
  <2>6. Connecting(k + 1)'
    BY <1>2, <1>3, <2>2, <2>3, <2>4, <2>5 DEF Connecting
  <2> QED
    BY <2>4, <2>6
<1>6. CASE Current.op = "callbacks" /\ k <= 12 + n /\ (k = 12 + n => Current.who = "ethernet")
  <2>1. SetCallbacks
    BY <1>6 DEF HostStep, Wait, SendOrSchedule, SendUnscheduled, SetQueueLength, Assign,
                NextJobs, PeekFails
  <2>2. /\ todo' = Remaining(Connect, k + 1) /\ callbacks' = Current.who
        /\ UNCHANGED <<conn, unacked, up, down, device, write_batch_counter,
                       eth_batch_start_sector, wanted>>
    BY <1>3, <2>1 DEF SetCallbacks, NextStep, wires, protocol, ghosts
  <2>3. Occupied' = Occupied /\ Pipe' = Pipe
    BY <2>2 DEF Occupied, Pipe
  <2>4. HeldFrames({})'
    BY <1>2, <2>2, <2>3, HeldKept DEF Settled
  <2>5. Hello \in Frames /\ Hello.cmd # "write"
    BY ConnectPacketFacts DEF ConnectPackets
  <2>6. Settled({}, {})'
    BY <1>2, <2>2, <2>4, <2>5, PlainSettled
  <2>7. k + 1 \in 1 .. 17 + n /\ k + 1 < 16 + n /\ (k + 1 > 12 + n => k = 12 + n) /\ k < 16 + n
    BY <1>1, <1>6
  <2>8. OnlyFrames(A)'
    <3>1. OnlyFrames(A)
      BY <1>1, <2>7 DEF Connecting
    <3> QED
      BY <2>2, <2>3, <3>1 DEF OnlyFrames
  <2>9. Connecting(k + 1)'
    BY <1>1, <1>2, <1>6, <2>2, <2>3, <2>6, <2>7, <2>8 DEF Connecting
  <2> QED
    BY <2>7, <2>9
<1>7. CASE Current.op = "send" /\ Current.frame \in A /\ k # 12 + n /\ k <= 13 + n
  <2>1. SendOrSchedule
    BY <1>7 DEF HostStep, Wait, SetCallbacks, SendUnscheduled, SetQueueLength, Assign,
                NextJobs, PeekFails
  <2>2. todo' = Remaining(Connect, k + 1) /\ UNCHANGED <<conn, callbacks>>
    BY <1>3, <2>1 DEF SendOrSchedule, NextStep
  <2>3. Settled({}, {})' /\ Pipe' \subseteq Pipe \cup {Current.frame}
    BY <1>2, <1>7, <2>1, PlainSent, ConnectPacketFacts
  <2>4. k + 1 \in 1 .. 17 + n /\ k + 1 < 16 + n /\ k < 16 + n /\ (k + 1 > 12 + n => k > 12 + n)
    BY <1>1, <1>7
  <2>5. OnlyFrames(A)'
    <3>1. OnlyFrames(A)
      BY <1>1, <2>4 DEF Connecting
    <3>2. \A s \in Occupied' : unacked'[s] \in A
      BY <1>7, <2>1, <3>1, SlotTaken DEF OnlyFrames
    <3> QED
      BY <3>2 DEF OnlyFrames
  <2>6. Pipe' \subseteq A
    BY <1>2, <1>7, <2>3
  <2>7. Connecting(k + 1)'
    BY <1>1, <1>2, <1>3, <2>2, <2>3, <2>4, <2>5, <2>6 DEF Connecting
  <2> QED
    BY <2>4, <2>7
<1>8. CASE Current.op = "clear_memory_read" /\ k = 16 + n
  <2>1. Assign /\ memory_read_buffer_len' = 0
    BY <1>8 DEF HostStep, Wait, SendOrSchedule, SetCallbacks, SendUnscheduled, SetQueueLength,
                NextJobs, PeekFails, Assign
  <2>2. /\ todo' = Remaining(Connect, k + 1)
        /\ UNCHANGED <<conn, callbacks, unacked, up, down, device, write_batch_counter,
                       eth_batch_start_sector, wanted>>
    BY <1>3, <1>8, <2>1 DEF Assign, NextStep, wires, protocol, ghosts
  <2>3. Settled({}, {})'
    BY <1>2, <2>2, SameSettled
  <2>4. Occupied' = {} /\ Pipe' = Pipe
    BY <1>8, <2>2 DEF Connecting, Occupied, Pipe
  <2>5. k + 1 \in 1 .. 17 + n /\ k + 1 = 17 + n /\ k > 12 + n
    BY <1>1, <1>8
  <2>6. Connecting(k + 1)'
    BY <1>2, <1>3, <2>1, <2>2, <2>3, <2>4, <2>5 DEF Connecting
  <2> QED
    BY <2>5, <2>6
<1>9. CASE Current.op = "send" /\ Current.frame = ReadMemory /\ k = 17 + n
  <2>1. SendOrSchedule
    BY <1>9 DEF HostStep, Wait, SetCallbacks, SendUnscheduled, SetQueueLength, Assign,
                NextJobs, PeekFails
  <2>2. /\ todo' = Remaining(Connect, k + 1) /\ up' = Transmit(up, ReadMemory)
        /\ UNCHANGED <<conn, callbacks, down, memory_read_buffer_len>>
    BY <1>3, <1>9, <2>1 DEF SendOrSchedule, NextStep, results
  <2>3. Settled({}, {})' /\ Pipe' \subseteq Pipe \cup M
    BY <1>9, <1>2, <2>1, PlainSent, ConnectPacketFacts
  <2>4. k + 1 = 18 + n /\ k > 12 + n
    BY <1>1, <1>9
  <2>5. Occupied = {} /\ memory_read_buffer_len = 0
    BY <1>1, <1>9 DEF Connecting
  <2>6. \A s \in Occupied' : unacked'[s] \in M
    BY <1>9, <2>1, <2>5, SlotTaken
  <2>7. Range(up) \cap M = {} /\ Range(down) \cap M = {} /\ ReadMemory \in Frames
    BY <1>2, ConnectPacketFacts DEF Pipe
  <2>8. up \in Seq(Frames) /\ down \in Seq(AllAnswers) /\ Len(up) <= WireCapacity
    BY WireFacts
  <2>9. InOrder(up', M) /\ InOrder(down, M)
    <3> DEFINE one == <<ReadMemory>>
    <3>1. one \in Seq(Frames) /\ Range(one) \subseteq M
      BY <2>7 DEF Range
    <3>2. InOrder(up, M) /\ InOrder(down, M)
      BY <2>7, <2>8, LenProperties DEF InOrder, Range
    <3> HIDE DEF one, M
    <3>3. InOrder(TransmitAll(up, one), M)
      BY <2>8, <3>1, <3>2, TransmitInOrder
    <3> QED
      BY <2>2, <3>2, <3>3 DEF Transmit, one
  <2>10. InOrder(up, M)' /\ InOrder(down, M)'
    BY <2>2, <2>9 DEF InOrder
  <2>11. 18 + n # 20 + n
    BY <1>1
  <2>12. OnlyFrames(M)'
    BY <2>6 DEF OnlyFrames
  <2>13. Pipe' \subseteq A \cup M /\ ReadMemory \notin Range(down')
    BY <1>2, <2>2, <2>3, <2>7
  <2>14. Peeking(18 + n)'
    BY <1>2, <1>3, <2>2, <2>3, <2>4, <2>5, <2>10, <2>11, <2>12, <2>13 DEF Peeking
  <2> QED
    BY <2>14
<1> QED
  BY <1>2, <1>5, <1>6, <1>7, <1>8, <1>9, ConnectingStep

LEMMA PeekingStep ==
    ASSUME NEW k \in 18 + NumBlocks .. 20 + NumBlocks, todo = Remaining(Connect, k)
    PROVE  /\ Running /\ Tail(todo) = Remaining(Connect, k + 1)
           /\ k = 18 + NumBlocks => Current.op = "wait" /\ Current.slots = 0
           /\ k = 19 + NumBlocks => Current.op = "check_memory_read"
           /\ k = 20 + NumBlocks => Current.op = "connected" /\ Tail(todo) = <<>>
<1> DEFINE n == NumBlocks
           c == Connect
<1>1. n \in Nat
  BY EtherloadAssumption
<1>2. c \in Seq(Steps) /\ Len(c) = 20 + n
  BY ConnectScript
<1>3. k \in 1..Len(c)
  BY <1>1, <1>2
<1>4. Running /\ Current = c[k] /\ Tail(todo) = Remaining(c, k + 1)
  BY <1>2, <1>3, ScriptFacts
<1>5. c[18 + n] = WaitAll /\ c[19 + n] = Step("check_memory_read") /\ c[20 + n] = Step("connected")
  BY ConnectScript
<1>6. Remaining(c, Len(c) + 1) = <<>>
  BY <1>2, ScriptEnds
<1>7. /\ WaitAll.op = "wait" /\ WaitAll.slots = 0
      /\ Step("check_memory_read").op = "check_memory_read" /\ Step("connected").op = "connected"
  BY DEF WaitAll, WaitSlots, Step
<1> HIDE DEF c
<1>8. k = 20 + n => Remaining(c, k + 1) = <<>>
  BY <1>2, <1>6
<1> QED
  BY <1>4, <1>5, <1>7, <1>8 DEF c

\* The steps of the host that change nothing but where it is.
LEMMA AssignKeeps ==
    ASSUME Assign, Current.op # "next_batch", Current.op # "batch_start",
           NEW F, NEW P, Settled(F, P)
    PROVE  /\ Settled(F, P)' /\ todo' = Tail(todo) /\ Pipe' = Pipe /\ Occupied' = Occupied
           /\ UNCHANGED <<unacked, callbacks, up, down, wanted, write_batch_counter,
                          eth_batch_start_sector, queue_read_data>>
           /\ Current.op # "connected" /\ Current.op # "finished" => conn' = conn
           /\ Current.op = "connected" => conn' = "up"
           /\ Current.op = "finished" => conn' = "finished"
           /\ Current.op = "clear_memory_read" \/ memory_read_buffer_len' = memory_read_buffer_len
<1>1. /\ UNCHANGED <<unacked, callbacks, write_batch_counter, eth_batch_start_sector, wanted,
                     up, down, device, queue_read_data>>
      /\ todo' = Tail(todo)
  BY DEF Assign, NextStep, wires, protocol, ghosts
<1>2. Settled(F, P)'
  BY <1>1, SameSettled
<1> QED
  BY <1>1, <1>2 DEF Assign, Pipe, Occupied

LEMMA PeekingHost ==
    ASSUME TypeInv, InWindow, NEW k \in 18 + NumBlocks .. 20 + NumBlocks, Peeking(k), HostStep
    PROVE  Phase'
<1> DEFINE n == NumBlocks
           M == {ReadMemory}
<1>1. n \in Nat
  BY EtherloadAssumption
<1>2. todo = Remaining(Connect, k) /\ Settled({}, {}) /\ conn = "down" /\ callbacks = "ethernet"
  BY DEF Peeking
<1>3. Running /\ Tail(todo) = Remaining(Connect, k + 1)
  BY <1>2, PeekingStep
<1>4. CASE k = 18 + n
  <2>1. Current.op = "wait" /\ Current.slots = 0
    BY <1>2, <1>4, PeekingStep
  <2>2. Wait
    BY <2>1 DEF HostStep, SendOrSchedule, SendUnscheduled, SetQueueLength, SetCallbacks, Assign,
                NextJobs, PeekFails
  <2>3. todo' = Remaining(Connect, k + 1)
        /\ UNCHANGED <<conn, callbacks, up, down, memory_read_buffer_len>>
    BY <1>3, <2>2 DEF Wait, NextStep, wires, results
  <2>4. Occupied' = {} /\ Settled({}, {})'
    BY <1>2, <2>1, <2>2, AllAnswered, WaitSettled
  <2>5. k + 1 # 18 + n /\ k + 1 # 20 + n /\ k + 1 \in 18 + n .. 20 + n
    BY <1>1, <1>4
  <2>6. Pipe' = Pipe
    BY <2>3 DEF Pipe
  <2>7. InOrder(up, M)' /\ InOrder(down, M)'
    BY <2>3 DEF InOrder, Peeking
  <2>8. Peeking(k + 1)'
    BY <1>2, <2>3, <2>4, <2>5, <2>6, <2>7 DEF Peeking
  <2> QED
    BY <2>5, <2>8 DEF Phase
<1>5. CASE k = 19 + n
  <2>1. Current.op = "check_memory_read"
    BY <1>2, <1>5, PeekingStep
  <2>2. CASE PeekFails
    BY <2>2 DEF PeekFails, Phase
  <2>3. CASE Assign
    <3>1. memory_read_buffer_len = 1
      BY <2>1, <2>3 DEF Assign
    <3>2. /\ Settled({}, {})' /\ todo' = Tail(todo) /\ Pipe' = Pipe /\ Occupied' = Occupied
          /\ UNCHANGED <<conn, callbacks, up, down, memory_read_buffer_len>>
      BY <1>2, <2>1, <2>3, AssignKeeps
    <3>3. k + 1 # 18 + n /\ k # 18 + n /\ k + 1 \in 18 + n .. 20 + n
      BY <1>1, <1>5
    <3>4. InOrder(up, M)' /\ InOrder(down, M)'
      BY <3>2 DEF InOrder, Peeking
    <3>5. Occupied = {}
      BY <3>3 DEF Peeking
    <3>6. Peeking(k + 1)'
      BY <1>2, <1>3, <3>1, <3>2, <3>3, <3>4, <3>5 DEF Peeking
    <3> QED
      BY <3>3, <3>6 DEF Phase
  <2> QED
    BY <2>1, <2>2, <2>3 DEF HostStep, Wait, SendOrSchedule, SendUnscheduled, SetQueueLength,
                            SetCallbacks, NextJobs
<1>6. CASE k = 20 + n
  <2>1. Current.op = "connected" /\ Tail(todo) = <<>>
    BY <1>2, <1>6, PeekingStep
  <2>2. Assign
    BY <2>1 DEF HostStep, Wait, SendOrSchedule, SendUnscheduled, SetQueueLength, SetCallbacks,
                NextJobs, PeekFails
  <2>3. /\ Settled({}, {})' /\ todo' = <<>> /\ Pipe' = Pipe /\ Occupied' = Occupied
        /\ callbacks' = callbacks /\ conn' = "up"
    BY <1>2, <2>1, <2>2, AssignKeeps
  <2>4. k # 18 + n
    BY <1>1, <1>6
  <2>5. Occupied = {} /\ Pipe \subseteq M
    BY <1>6, <2>4 DEF Peeking
  <2>6. Quiet'
    BY <2>3, <2>5, ConnectPacketFacts DEF Quiet
  <2>7. Idle'
    BY <1>2, <2>3, <2>5, <2>6 DEF Idle, Connected
  <2> QED
    BY <2>7 DEF Phase
<1>7. k = 18 + n \/ k = 19 + n \/ k = 20 + n
  BY <1>1
<1> QED
  BY <1>4, <1>5, <1>6, <1>7

LEMMA QuittingHost ==
    ASSUME TypeInv, InWindow, NEW k \in 1..4, Quitting(k), HostStep
    PROVE  Phase'
<1> DEFINE q == RequestQuit
<1>1. q \in Seq(Steps) /\ Len(q) = 4
      /\ q[1] = WaitAll /\ q[2] = Send(Quit, FALSE) /\ q[3] = WaitAll /\ q[4] = Step("finished")
  BY QuitScript
<1>2. todo = Remaining(q, k) /\ Settled({}, {}) /\ conn = "up" /\ OnlyFrames({Quit})
  BY DEF Quitting
<1>3. k \in 1..Len(q) /\ (k = 1 \/ k = 2 \/ k = 3 \/ k = 4)
  BY <1>1
<1>4. Running /\ Current = q[k] /\ Tail(todo) = Remaining(q, k + 1)
  BY <1>1, <1>2, <1>3, ScriptFacts
<1>5. Remaining(q, 5) = <<>>
  <2>1. Remaining(q, Len(q) + 1) = <<>>
    BY <1>1, ScriptEnds
  <2> QED
    BY <1>1, <2>1
<1> HIDE DEF q
<1>6. CASE k \in {1, 3}
  <2>1. Current.op = "wait" /\ Current.slots = 0
    BY <1>1, <1>4, <1>6 DEF WaitAll, WaitSlots
  <2>2. Wait
    BY <2>1 DEF HostStep, SendOrSchedule, SendUnscheduled, SetQueueLength, SetCallbacks, Assign,
                NextJobs, PeekFails
  <2>3. todo' = Remaining(q, k + 1) /\ conn' = conn
    BY <1>4, <2>2 DEF Wait, NextStep
  <2>4. Occupied' = {} /\ Settled({}, {})'
    BY <1>2, <2>1, <2>2, AllAnswered, WaitSettled
  <2>5. Quitting(k + 1)' /\ k + 1 \in 1..4
    BY <1>2, <1>6, <2>3, <2>4 DEF Quitting, OnlyFrames, q
  <2> QED
    BY <2>5 DEF Phase
<1>7. CASE k = 2
  <2>1. Current.op = "send" /\ Current.frame = Quit
    BY <1>1, <1>4, <1>7 DEF Send
  <2>2. SendOrSchedule
    BY <2>1 DEF HostStep, Wait, SendUnscheduled, SetQueueLength, SetCallbacks, Assign,
                NextJobs, PeekFails
  <2>3. todo' = Remaining(q, k + 1) /\ conn' = conn
    BY <1>4, <2>2 DEF SendOrSchedule, NextStep
  <2>4. Quit.cmd = "quit"
    BY DEF Quit, Packet
  <2>5. Settled({}, {})'
    BY <1>2, <2>1, <2>2, <2>4, PlainSent
  <2>6. \A s \in Occupied' : unacked'[s] = Quit
    BY <1>2, <2>1, <2>2, SlotTaken DEF OnlyFrames
  <2>7. Quitting(k + 1)' /\ k + 1 \in 1..4
    BY <1>2, <1>7, <2>3, <2>5, <2>6 DEF Quitting, OnlyFrames, q
  <2> QED
    BY <2>7 DEF Phase
<1>8. CASE k = 4
  <2>1. Current.op = "finished"
    BY <1>1, <1>4, <1>8 DEF Step
  <2>2. Assign
    BY <2>1 DEF HostStep, Wait, SendOrSchedule, SendUnscheduled, SetQueueLength, SetCallbacks,
                NextJobs, PeekFails
  <2>3. Settled({}, {})' /\ todo' = Tail(todo) /\ conn' = "finished"
    BY <1>2, <2>1, <2>2, AssignKeeps
  <2>4. Tail(todo) = <<>>
    BY <1>4, <1>5, <1>8
  <2>5. Finished'
    BY <2>3, <2>4 DEF Finished
  <2> QED
    BY <2>5 DEF Phase
<1> QED
  BY <1>3, <1>6, <1>7, <1>8

LEMMA WriteTail ==
    ASSUME NEW id, NEW start, NEW batch, IsBatch(id, start, batch),
           NEW rest, NEW restData, AreJobs(rest, restData)
    PROVE  Remaining(WriteRest(id, start, batch, rest, restData), 5 + Len(batch)) = WriteJobs(rest, restData)
<1> DEFINE s == WriteRest(id, start, batch, rest, restData)
           n == Len(batch)
           r == SubSeq(s, 5 + n, Len(s))
<1>1. PICK t \in Seq(Steps) : t = WriteJobs(rest, restData) /\ Len(t) = 1
  BY JobsScript
<1>2. n \in Nat
  BY LenProperties DEF IsBatch
<1>3. s \in Seq(Steps) /\ Len(s) = 4 + n + Len(t) /\ \A i \in 1..Len(t) : s[4 + n + i] = t[i]
  <2> DEFINE u == BatchThen(id, start, batch, t)
  <2>1. u \in Seq(Steps) /\ Len(u) = 4 + n + Len(t) /\ \A i \in 1..Len(t) : u[4 + n + i] = t[i]
    BY WriteScript
  <2>2. s = u
    BY <1>1 DEF WriteRest
  <2> QED
    BY <2>1, <2>2
<1> HIDE DEF s
<1>4. Len(s) = 5 + n /\ s[5 + n] = t[1]
  <2>1. 1 \in 1..Len(t) /\ 4 + n + 1 = 5 + n
    BY <1>1, <1>2
  <2> QED
    BY <1>1, <1>2, <1>3, <2>1
<1>5. r \in Seq(Steps) /\ Len(r) = 1 /\ r[1] = s[5 + n]
  <2>1. \A i \in 5 + n .. Len(s) : s[i] \in Steps
    BY <1>2, <1>3, ElementOfSeq
  <2>2. r \in Seq(Steps) /\ Len(r) = (IF 5 + n <= Len(s) THEN Len(s) - (5 + n) + 1 ELSE 0)
        /\ \A i \in 1 .. Len(s) - (5 + n) + 1 : r[i] = s[5 + n + i - 1]
    BY <1>2, <1>4, <2>1, SubSeqProperties
  <2>3. 1 \in 1 .. Len(s) - (5 + n) + 1 /\ 5 + n + 1 - 1 = 5 + n /\ Len(s) - (5 + n) + 1 = 1 /\ 5 + n <= Len(s)
    BY <1>2, <1>4
  <2> HIDE DEF r
  <2> QED
    BY <2>2, <2>3
<1>6. \A i \in 1..Len(r) : r[i] = t[i]
  BY <1>4, <1>5
<1> HIDE DEF r
<1>7. r = t
  BY <1>1, <1>5, <1>6, SeqEqual
<1> QED
  BY <1>1, <1>7 DEF r, Remaining, s, n

LEMMA WritingStep ==
    ASSUME NEW id, NEW start, NEW batch, IsBatch(id, start, batch),
           NEW rest, NEW restData, AreJobs(rest, restData), NEW k \in 1 .. 4 + Len(batch),
           todo = Remaining(WriteRest(id, start, batch, rest, restData), k)
    PROVE  /\ Running /\ Tail(todo) = Remaining(WriteRest(id, start, batch, rest, restData), k + 1)
           /\ k = 1 => Current.op = "queue_length"
           /\ k = 2 \/ k = 3 + Len(batch) => Current.op = "wait" /\ Current.slots = 0
           /\ k \in 3 .. 2 + Len(batch) =>
                /\ k - 2 \in 1..Len(batch) /\ Current.op = "send"
                /\ Current.frame = BatchFrame(id, start, batch, k - 2)
           /\ k = 4 + Len(batch) =>
                Current.op = "next_batch" /\ Tail(todo) = WriteJobs(rest, restData)
<1> DEFINE s == WriteRest(id, start, batch, rest, restData)
           n == Len(batch)
<1>1. PICK t \in Seq(Steps) : t = WriteJobs(rest, restData) /\ Len(t) = 1
  BY JobsScript
<1>2. n \in Nat
  BY LenProperties DEF IsBatch
<1>3. Remaining(s, 5 + n) = t
  BY <1>1, WriteTail
<1>4. /\ s \in Seq(Steps) /\ Len(s) = 4 + n + Len(t)
      /\ s[1] = QueueLength(WriteWindow) /\ s[2] = WaitAll /\ s[3 + n] = WaitAll
      /\ s[4 + n] = Step("next_batch")
      /\ \A i \in 1..n : s[2 + i] = SendOfBatch(id, start, batch, i)
  <2> DEFINE u == BatchThen(id, start, batch, t)
  <2>1. /\ u \in Seq(Steps) /\ Len(u) = 4 + n + Len(t)
        /\ u[1] = QueueLength(WriteWindow) /\ u[2] = WaitAll /\ u[3 + n] = WaitAll
        /\ u[4 + n] = Step("next_batch")
        /\ \A i \in 1..n : u[2 + i] = SendOfBatch(id, start, batch, i)
    BY WriteScript
  <2>2. s = u
    BY <1>1 DEF WriteRest
  <2> HIDE DEF u
  <2> QED
    BY <2>1, <2>2
<1> HIDE DEF s
<1>5. k \in 1..Len(s) /\ todo = Remaining(s, k)
  BY <1>1, <1>2, <1>4 DEF s
<1>6. Running /\ Current = s[k] /\ Tail(todo) = Remaining(s, k + 1)
  BY <1>4, <1>5, ScriptFacts
<1>7. QueueLength(WriteWindow).op = "queue_length" /\ WaitAll.op = "wait" /\ WaitAll.slots = 0
      /\ Step("next_batch").op = "next_batch"
      /\ \A i : /\ SendOfBatch(id, start, batch, i).op = "send"
               /\ SendOfBatch(id, start, batch, i).frame = BatchFrame(id, start, batch, i)
  BY DEF QueueLength, WaitAll, WaitSlots, Step, Send, SendOfBatch, BatchFrame
<1>8. k \in 3 .. 2 + n => k - 2 \in 1..n /\ Current = SendOfBatch(id, start, batch, k - 2)
  <2> SUFFICES ASSUME k \in 3 .. 2 + n
               PROVE  k - 2 \in 1..n /\ Current = SendOfBatch(id, start, batch, k - 2)
    OBVIOUS
  <2>1. k - 2 \in 1..n /\ 2 + (k - 2) = k
    BY <1>2
  <2> QED
    BY <1>4, <1>6, <2>1
<1>9. k = 4 + n => k + 1 = 5 + n
  BY <1>2
<1>10. k = 4 + n => Tail(todo) = t
  BY <1>3, <1>6, <1>9
<1> QED
  BY <1>4, <1>6, <1>7, <1>8, <1>10, <1>1 DEF s, n

\* A frame of a batch names its sector and brings its data.
LEMMA BatchFrameFacts ==
    ASSUME NEW id, NEW start, NEW batch, IsBatch(id, start, batch), NEW i \in 1..Len(batch)
    PROVE  LET f == BatchFrame(id, start, batch, i)
           IN /\ f \in Frames /\ f.cmd = "write" /\ f.id = id /\ f.data = batch[i]
              /\ Written(f) = start + i - 1
<1> DEFINE f == BatchFrame(id, start, batch, i)
           key == (i - 1) + SlotBase * start
<1>1. f \in Writes
  BY BatchFrames DEF BatchFrame
<1>2. f.cmd = "write" /\ f.id = id /\ f.data = batch[i] /\ f.key = key
  BY DEF BatchFrame, WriteSector, Packet
<1>3. SlotBase \in Nat \ {0} /\ start \in Nat /\ i - 1 \in 0 .. SlotBase - 1
  BY SMTT(30), EtherloadAssumption DEF IsBatch, Sectors
<1>4. key \div SlotBase = start /\ key % SlotBase = i - 1
  BY <1>3, DivMod
<1> HIDE DEF f, key
<1>5. Written(f) = start + (i - 1)
  BY <1>2, <1>4 DEF Written
<1> QED
  BY <1>1, <1>2, <1>3, <1>5 DEF Frames, f

\* What was sent and what was not, before and after the frame of step k.
LEMMA BatchProgress ==
    ASSUME NEW id, NEW start, NEW batch, NEW rest, IsBatch(id, start, batch), NEW k \in Nat
    PROVE  /\ k <= 3 => SentOf(id, start, batch, k) = {}
           /\ k <= 3 => UnsentOf(start, batch, rest, k)
                          = Range(rest) \cup {start + i - 1 : i \in 1..Len(batch)}
           /\ k >= 3 + Len(batch) => UnsentOf(start, batch, rest, k) = Range(rest)
           /\ k >= 3 + Len(batch) =>
                SentOf(id, start, batch, k) = {BatchFrame(id, start, batch, i) : i \in 1..Len(batch)}
           /\ k \in 3 .. 2 + Len(batch) =>
                /\ SentOf(id, start, batch, k + 1)
                     = SentOf(id, start, batch, k) \cup {BatchFrame(id, start, batch, k - 2)}
                /\ start + (k - 2) - 1 \notin Range(rest) =>
                     UnsentOf(start, batch, rest, k + 1)
                       = UnsentOf(start, batch, rest, k) \ {start + (k - 2) - 1}
                /\ start + (k - 2) - 1 \in UnsentOf(start, batch, rest, k)
<1> DEFINE n == Len(batch)
           F(m) == SentOf(id, start, batch, m)
           P(m) == UnsentOf(start, batch, rest, m)
           f(i) == BatchFrame(id, start, batch, i)
<1>1. n \in Nat /\ start \in Nat
  BY EtherloadAssumption DEF IsBatch, Sectors
<1>2. F(k) = {f(i) : i \in {j \in 1..n : j <= k - 3}}
      /\ F(k + 1) = {f(i) : i \in {j \in 1..n : j <= (k + 1) - 3}}
  BY DEF SentOf
<1>3. P(k) = Range(rest) \cup {start + i - 1 : i \in {j \in 1..n : j > k - 3}}
      /\ P(k + 1) = Range(rest) \cup {start + i - 1 : i \in {j \in 1..n : j > (k + 1) - 3}}
  BY DEF UnsentOf
<1> HIDE DEF F, P, f
<1>4. k <= 3 => {j \in 1..n : j <= k - 3} = {} /\ {j \in 1..n : j > k - 3} = 1..n
  BY <1>1
<1>5. k >= 3 + n => {j \in 1..n : j > k - 3} = {} /\ {j \in 1..n : j <= k - 3} = 1..n
  BY <1>1
<1>6. ASSUME k \in 3 .. 2 + n
      PROVE  /\ F(k + 1) = F(k) \cup {f(k - 2)}
             /\ start + (k - 2) - 1 \notin Range(rest) => P(k + 1) = P(k) \ {start + (k - 2) - 1}
             /\ start + (k - 2) - 1 \in P(k)
  <2>1. k - 2 \in 1..n /\ k - 2 > k - 3
    BY <1>1, <1>6
  <2>2. {j \in 1..n : j <= (k + 1) - 3} = {j \in 1..n : j <= k - 3} \cup {k - 2}
    BY <1>1, <1>6
  <2>3. {j \in 1..n : j > k - 3} = {j \in 1..n : j > (k + 1) - 3} \cup {k - 2}
        /\ k - 2 \notin {j \in 1..n : j > (k + 1) - 3}
    BY <1>1, <1>6
  <2>4. \A i, j \in 1..n : start + i - 1 = start + j - 1 => i = j
    BY <1>1
  <2>5. F(k + 1) = F(k) \cup {f(k - 2)}
    BY <1>2, <2>2
  <2> DEFINE A == {j \in 1..n : j > k - 3}
             B == {j \in 1..n : j > (k + 1) - 3}
             c == k - 2
  <2>6. A = B \cup {c} /\ c \notin B /\ B \subseteq 1..n /\ c \in 1..n
    BY <2>1, <2>3
  <2> HIDE DEF A, B, c
  <2>7. {start + i - 1 : i \in B} = {start + i - 1 : i \in A} \ {start + c - 1}
    BY <2>4, <2>6
  <2>8. start + c - 1 \in {start + i - 1 : i \in A}
    BY <2>6
  <2> QED
    BY <1>3, <2>5, <2>7, <2>8 DEF A, B, c
<1> QED
  BY <1>2, <1>3, <1>4, <1>5, <1>6 DEF F, P, f

LEMMA StillFrames == ASSUME NEW A, OnlyFrames(A), unacked' = unacked PROVE OnlyFrames(A)'
BY DEF OnlyFrames, Occupied

\* One step further in a batch.
LEMMA WritingOn ==
    ASSUME NEW id \in 0 .. BatchIds - 1, NEW start \in Sectors, NEW batch \in Seq(Data),
           NEW rest \in Seq(Sectors), NEW restData \in Seq(Data), NEW k \in 1 .. 4 + NumSectors,
           Writing(id, start, batch, rest, restData, k), k < 4 + Len(batch),
           todo' = Remaining(WriteRest(id, start, batch, rest, restData), k + 1),
           UNCHANGED <<conn, callbacks, write_batch_counter, wanted>>, Quiet',
           NEW F, F = SentOf(id, start, batch, k + 1),
           NEW P, P = UnsentOf(start, batch, rest, k + 1), Settled(F, P)',
           IF k + 1 = 4 + Len(batch) THEN Occupied' = {} ELSE OnlyFrames(F)'
    PROVE  Phase'
<1>1. IsBatch(id, start, batch) /\ Len(batch) \in 1..NumSectors /\ NumSectors \in Nat
  BY EtherloadAssumption DEF Writing, IsBatch
<1>2. k + 1 \in 1 .. 4 + Len(batch) /\ k + 1 \in 1 .. 4 + NumSectors
  BY <1>1
<1>3. Connected' /\ id = write_batch_counter'
  BY DEF Writing, Connected
<1>4. AreJobs(rest, restData) /\ Hold(rest, restData)'
      /\ \A i \in 1..Len(batch) : batch[i] = wanted'[start + i - 1] /\ start + i - 1 \notin Range(rest)
  BY DEF Writing, Hold
<1>5. Writing(id, start, batch, rest, restData, k + 1)'
  BY <1>1, <1>2, <1>3, <1>4 DEF Writing
<1> QED
  BY <1>2, <1>5 DEF Phase

LEMMA WritingHost ==
    ASSUME TypeInv, KeysApart, InWindow,
           NEW id \in 0 .. BatchIds - 1, NEW start \in Sectors, NEW batch \in Seq(Data),
           NEW rest \in Seq(Sectors), NEW restData \in Seq(Data), NEW k \in 1 .. 4 + NumSectors,
           Writing(id, start, batch, rest, restData, k), HostStep
    PROVE  Phase' /\ InWindow'
<1> DEFINE n == Len(batch)
           s == WriteRest(id, start, batch, rest, restData)
<1>1. /\ Connected /\ id = write_batch_counter /\ todo = Remaining(s, k)
      /\ IsBatch(id, start, batch) /\ k \in 1 .. 4 + n
      /\ AreJobs(rest, restData) /\ Hold(rest, restData)
      /\ \A i \in 1..n : batch[i] = wanted[start + i - 1] /\ start + i - 1 \notin Range(rest)
      /\ IF k = 4 + n THEN Occupied = {} ELSE OnlyFrames(SentOf(id, start, batch, k))
  BY DEF Writing
<1>2. n \in Nat /\ n > 0 /\ k \in Nat
  BY <1>1 DEF IsBatch
<1>3. PICK F : F = SentOf(id, start, batch, k)
  OBVIOUS
<1>4. PICK P : P = UnsentOf(start, batch, rest, k)
  OBVIOUS
<1>5. PICK G : G = SentOf(id, start, batch, k + 1)
  OBVIOUS
<1>6. PICK Q : Q = UnsentOf(start, batch, rest, k + 1)
  OBVIOUS
<1>7. Settled(F, P)
  BY <1>3, <1>4 DEF Writing
<1>8. /\ Running /\ Tail(todo) = Remaining(s, k + 1)
      /\ k = 1 => Current.op = "queue_length"
      /\ k = 2 \/ k = 3 + n => Current.op = "wait" /\ Current.slots = 0
      /\ k \in 3 .. 2 + n =>
           /\ k - 2 \in 1..n /\ Current.op = "send"
           /\ Current.frame = BatchFrame(id, start, batch, k - 2)
      /\ k = 4 + n => Current.op = "next_batch" /\ Tail(todo) = WriteJobs(rest, restData)
  <2>1. IsBatch(id, start, batch) /\ AreJobs(rest, restData) /\ k \in 1 .. 4 + n /\ todo = Remaining(s, k)
    BY <1>1
  <2> HIDE DEF s
  <2>2. /\ Running /\ Tail(todo) = Remaining(s, k + 1)
        /\ k = 1 => Current.op = "queue_length"
        /\ k = 2 \/ k = 3 + n => Current.op = "wait" /\ Current.slots = 0
    BY <2>1, WritingStep DEF s
  <2>3. k \in 3 .. 2 + n =>
           /\ k - 2 \in 1..n /\ Current.op = "send"
           /\ Current.frame = BatchFrame(id, start, batch, k - 2)
    BY <2>1, WritingStep DEF s
  <2>4. k = 4 + n => Current.op = "next_batch" /\ Tail(todo) = WriteJobs(rest, restData)
    BY <2>1, WritingStep DEF s
  <2> QED
    BY <2>2, <2>3, <2>4
<1>9. /\ k < 3 => F = {} /\ G = {} /\ P = Q
      /\ k = 3 + n => F = G /\ P = Q
      /\ k = 4 + n => P = Range(rest) /\ F # {}
  <2>1. k + 1 \in Nat
    BY <1>2
  <2>2. k <= 3 => F = {} /\ P = Range(rest) \cup {start + i - 1 : i \in 1..n}
    BY <1>1, <1>2, <1>3, <1>4, BatchProgress
  <2>3. k + 1 <= 3 => G = {} /\ Q = Range(rest) \cup {start + i - 1 : i \in 1..n}
    BY <1>1, <1>5, <1>6, <2>1, BatchProgress, SMTT(60)
  <2>4. k >= 3 + n => P = Range(rest) /\ F = {BatchFrame(id, start, batch, i) : i \in 1..n}
    BY <1>1, <1>2, <1>3, <1>4, BatchProgress
  <2>5. k + 1 >= 3 + n => Q = Range(rest) /\ G = {BatchFrame(id, start, batch, i) : i \in 1..n}
    BY <1>1, <1>5, <1>6, <2>1, BatchProgress
  <2>6. 1 \in 1..n
    BY <1>2
  <2>7. /\ k < 3 => k <= 3 /\ k + 1 <= 3
        /\ k = 3 + n => k >= 3 + n /\ k + 1 >= 3 + n
        /\ k = 4 + n => k >= 3 + n
    BY <1>2
  <2>8. BatchFrame(id, start, batch, 1) \in {BatchFrame(id, start, batch, i) : i \in 1..n}
    BY <2>6
  <2> QED
    BY <2>2, <2>3, <2>4, <2>5, <2>7, <2>8
<1> HIDE DEF s
<1>10. CASE k = 1
  <2>1. SetQueueLength
    BY <1>8, <1>10 DEF HostStep, Wait, SendOrSchedule, SendUnscheduled, SetCallbacks, Assign,
                       NextJobs, PeekFails
  <2>2. /\ todo' = Remaining(s, k + 1)
        /\ UNCHANGED <<conn, unacked, callbacks, write_batch_counter, eth_batch_start_sector, wanted,
                       up, down, device>>
    BY <1>8, <2>1 DEF SetQueueLength, NextStep, protocol, wires, ghosts
  <2>3. k < 3 /\ k # 4 + n /\ k + 1 # 4 + n /\ k < 4 + n
    BY <1>2, <1>10
  <2>4. Settled(G, Q)'
    BY <1>7, <1>9, <2>2, <2>3, SameSettled
  <2>5. OnlyFrames({}) /\ Quiet /\ Occupied = {}
    BY <1>1, <1>3, <1>9, <2>3 DEF Connected, OnlyFrames
  <2>6. OnlyFrames(G)' /\ Quiet' /\ Occupied' = {}
    BY <1>9, <2>2, <2>3, <2>5 DEF OnlyFrames, Quiet, Pipe, Occupied
  <2>7. Phase'
    BY <1>5, <1>6, <2>2, <2>3, <2>4, <2>6, WritingOn DEF s
  <2> QED
    BY <2>6, <2>7 DEF InWindow
<1>11. CASE k = 2 \/ k = 3 + n
  <2>1. Wait /\ Current.slots = 0
    BY <1>8, <1>11 DEF HostStep, SetQueueLength, SendOrSchedule, SendUnscheduled, SetCallbacks,
                       Assign, NextJobs, PeekFails
  <2>2. /\ todo' = Remaining(s, k + 1)
        /\ UNCHANGED <<conn, unacked, callbacks, write_batch_counter, wanted, up, down>>
    BY <1>8, <2>1 DEF Wait, NextStep, protocol, wires, ghosts
  <2>3. Settled(F, P)' /\ Occupied' = {}
    BY <1>7, <2>1, AllAnswered, WaitSettled
  <2>4. (k < 3 \/ k = 3 + n) /\ k < 4 + n /\ (k + 1 = 4 + n => k = 3 + n)
    BY <1>2, <1>11
  <2>5. F = G /\ P = Q
    BY <1>9, <2>4
  <2>6. Quiet' /\ OnlyFrames(G)'
    BY <1>1, <2>2, <2>3 DEF Connected, Quiet, Pipe, OnlyFrames
  <2>7. Phase'
    BY <1>5, <1>6, <2>2, <2>3, <2>4, <2>5, <2>6, WritingOn DEF s
  <2> QED
    BY <2>3, <2>7 DEF InWindow
<1>12. CASE k \in 3 .. 2 + n
  <2>1. SendOrSchedule
    BY <1>8, <1>12 DEF HostStep, Wait, SetQueueLength, SendUnscheduled, SetCallbacks, Assign,
                       NextJobs, PeekFails
  <2>2. PICK f : f = BatchFrame(id, start, batch, k - 2)
    OBVIOUS
  <2>3. f = Current.frame /\ k - 2 \in 1..n /\ Current.op = "send"
    BY <1>8, <1>12, <2>2
  <2>4. f \in Frames /\ f.cmd = "write" /\ f.id = id /\ f.data = batch[k - 2]
        /\ Written(f) = start + (k - 2) - 1
    BY <1>1, <2>2, <2>3, BatchFrameFacts
  <2>5. f \in Batch
    BY <1>1, <2>4 DEF Batch
  <2>6. f.data = wanted[Written(f)] /\ start + (k - 2) - 1 \notin Range(rest)
    BY <1>1, <2>3, <2>4
  <2>7. G = F \cup {f} /\ Q = P \ {Written(f)} /\ Written(f) \in P
    BY <1>1, <1>2, <1>3, <1>4, <1>5, <1>6, <1>12, <2>2, <2>4, <2>6, BatchProgress
  <2>8. k # 4 + n /\ k + 1 # 4 + n /\ k < 4 + n
    BY <1>2, <1>12
  <2>9. OnlyFrames(F) /\ Quiet /\ callbacks = "ethernet"
    BY <1>1, <1>3, <2>8 DEF Connected
  <2>10. Settled(F \cup {f}, P \ {Written(f)})' /\ OnlyFrames(F \cup {f})' /\ Quiet'
    BY <1>7, <2>1, <2>3, <2>5, <2>6, <2>7, <2>9, SendSettled
  <2>11. /\ todo' = Remaining(s, k + 1)
         /\ UNCHANGED <<conn, callbacks, write_batch_counter, wanted>>
    BY <1>8, <2>1 DEF SendOrSchedule, NextStep, protocol, ghosts
  <2>12. Settled(G, Q)' /\ OnlyFrames(G)'
    BY <2>7, <2>10
  <2>13. Phase'
    BY <1>5, <1>6, <2>8, <2>10, <2>11, <2>12, WritingOn DEF s
  <2>14. ~SetQueueLength
    BY <2>3 DEF SetQueueLength
  <2> QED
    BY <2>13, <2>14, HostWindow
<1>13. CASE k = 4 + n
  <2>1. Assign
    BY <1>8, <1>13 DEF HostStep, Wait, SetQueueLength, SendOrSchedule, SendUnscheduled, SetCallbacks,
                       NextJobs, PeekFails
  <2>2. /\ todo' = WriteJobs(rest, restData) /\ write_batch_counter' = NextBatch
        /\ UNCHANGED <<conn, unacked, callbacks, eth_batch_start_sector, wanted, up, down, device>>
    BY <1>8, <1>13, <2>1 DEF Assign, NextStep, wires, ghosts
  <2>3. Occupied = {} /\ Occupied' = {}
    BY <1>1, <1>13, <2>2 DEF Occupied
  <2>4. Settled({}, P)' /\ P = Range(rest)
    BY <1>7, <1>9, <1>13, <2>2, <2>3, NextBatchSettled
  <2>5. Connected' /\ Hold(rest, restData)'
    BY <1>1, <2>2 DEF Connected, Quiet, Pipe, Hold
  <2>6. Settled({}, Range(rest))'
    BY <2>4
  <2>7. BetweenBatches(rest, restData)'
    BY <1>1, <2>2, <2>3, <2>5, <2>6 DEF BetweenBatches
  <2> QED
    BY <2>3, <2>7 DEF Phase, InWindow
<1>14. k = 1 \/ k = 2 \/ k = 3 + n \/ k \in 3 .. 2 + n \/ k = 4 + n
  BY <1>1, <1>2
<1> QED
  BY <1>10, <1>11, <1>12, <1>13, <1>14

\* A list falls into its first run and the rest.
LEMMA RunSplit ==
    ASSUME TypeInv, NEW sectors, NEW data, AreJobs(sectors, data), Hold(sectors, data),
           NEW n \in DOMAIN sectors, FirstRun(sectors, n)
    PROVE  LET start == sectors[1]
               batch == SubSeq(data, 1, n)
               rest == RestOf(sectors, n)
               restData == RestOf(data, n)
           IN /\ IsBatch(write_batch_counter, start, batch) /\ Len(batch) = n
              /\ AreJobs(rest, restData) /\ Hold(rest, restData)
              /\ Range(sectors) = Range(rest) \cup {start + i - 1 : i \in 1..n}
              /\ \A i \in 1..n : batch[i] = wanted[start + i - 1] /\ start + i - 1 \notin Range(rest)
<1> DEFINE m == Len(sectors)
           start == sectors[1]
           batch == SubSeq(data, 1, n)
           rest == RestOf(sectors, n)
           restData == RestOf(data, n)
<1>1. sectors \in Seq(Sectors) /\ m \in Nat /\ DOMAIN sectors = 1..m /\ n \in 1..m
  BY LenProperties DEF AreJobs, JobLists
<1>2. /\ IsBatch(write_batch_counter, start, batch)
      /\ Len(batch) = n /\ \A i \in 1..n : batch[i] = data[i]
      /\ AreJobs(rest, restData) /\ Len(rest) = m - n
      /\ \A i \in 1 .. m - n : rest[i] = sectors[n + i] /\ restData[i] = data[n + i]
  BY NextRun
<1>3. \A i \in 1..n : sectors[i] = start + i - 1
  BY DEF FirstRun
<1>4. (\A i, j \in 1..m : sectors[i] = sectors[j] => i = j) /\ \A i \in 1..m : data[i] = wanted[sectors[i]]
  BY DEF Hold
<1> HIDE DEF m, start, batch, rest, restData
<1>5. DOMAIN rest = 1 .. m - n
  BY <1>2, LenProperties DEF AreJobs, JobLists
<1>6. /\ \A i \in 1 .. m - n : n + i \in 1..m /\ ~(n + i <= n)
      /\ \A i \in 1..n : i \in 1..m /\ i <= n
      /\ \A i \in 1..m : i \in 1..n \/ (i - n \in 1 .. m - n /\ n + (i - n) = i)
      /\ \A i, j \in 1 .. m - n : n + i = n + j => i = j
  BY <1>1
<1>7. Hold(rest, restData)
  <2>1. \A i, j \in 1 .. m - n : rest[i] = rest[j] => i = j
    BY <1>2, <1>4, <1>6
  <2>2. ASSUME NEW i \in 1 .. m - n PROVE restData[i] = wanted[rest[i]]
    <3>1. data[n + i] = wanted[sectors[n + i]]
      BY <1>4, <1>6
    <3> QED
      BY <1>2, <3>1
  <2> QED
    BY <1>2, <2>1, <2>2 DEF Hold
<1>8. Range(sectors) = Range(rest) \cup {start + i - 1 : i \in 1..n}
  <2>1. ASSUME NEW i \in 1..m PROVE sectors[i] \in Range(rest) \cup {start + j - 1 : j \in 1..n}
    <3>1. CASE i \in 1..n
      BY <1>3, <3>1
    <3>2. CASE i - n \in 1 .. m - n /\ n + (i - n) = i
      <4>1. rest[i - n] = sectors[i] /\ i - n \in DOMAIN rest
        BY <1>2, <1>5, <3>2
      <4> QED
        BY <4>1 DEF Range
    <3> QED
      BY <1>6, <3>1, <3>2
  <2>2. ASSUME NEW i \in 1..n PROVE start + i - 1 \in Range(sectors)
    <3>1. i \in DOMAIN sectors /\ sectors[i] = start + i - 1
      BY <1>1, <1>3, <1>6
    <3> QED
      BY <3>1 DEF Range
  <2>3. ASSUME NEW i \in 1 .. m - n PROVE rest[i] \in Range(sectors)
    <3>1. n + i \in DOMAIN sectors /\ rest[i] = sectors[n + i]
      BY <1>1, <1>2, <1>6
    <3> QED
      BY <3>1 DEF Range
  <2>4. Range(sectors) = {sectors[i] : i \in 1..m} /\ Range(rest) = {rest[i] : i \in 1 .. m - n}
    BY <1>1, <1>5 DEF Range
  <2> QED
    BY <2>1, <2>2, <2>3, <2>4
<1>9. ASSUME NEW i \in 1..n PROVE batch[i] = wanted[start + i - 1] /\ start + i - 1 \notin Range(rest)
  <2>1. batch[i] = wanted[start + i - 1]
    <3>1. batch[i] = data[i] /\ sectors[i] = start + i - 1
      BY <1>2, <1>3
    <3>2. data[i] = wanted[sectors[i]]
      BY <1>4, <1>6
    <3> QED
      BY <3>1, <3>2
  <2>2. ASSUME NEW j \in 1 .. m - n PROVE rest[j] # start + i - 1
    <3>1. sectors[n + j] # sectors[i]
      BY <1>4, <1>6
    <3> QED
      BY <1>2, <1>3, <3>1
  <2> QED
    BY <1>5, <2>1, <2>2 DEF Range
<1> QED
  BY <1>2, <1>7, <1>8, <1>9 DEF m, start, batch, rest, restData

LEMMA BatchBegins ==
    ASSUME NEW id, NEW start, NEW batch, NEW rest, IsBatch(id, start, batch)
    PROVE  /\ SentOf(id, start, batch, 1) = {}
           /\ UnsentOf(start, batch, rest, 1) = Range(rest) \cup {start + i - 1 : i \in 1..Len(batch)}
<1>1. Len(batch) \in Nat
  BY LenProperties DEF IsBatch
<1>2. {j \in 1..Len(batch) : j <= 1 - 3} = {} /\ {j \in 1..Len(batch) : j > 1 - 3} = 1..Len(batch)
  BY <1>1
<1> QED
  BY <1>2 DEF SentOf, UnsentOf

LEMMA BetweenHost ==
    ASSUME TypeInv, InWindow, NEW sectors \in Seq(Sectors), NEW data \in Seq(Data),
           BetweenBatches(sectors, data), HostStep
    PROVE  Phase' /\ InWindow'
<1>1. /\ Connected /\ todo = WriteJobs(sectors, data) /\ AreJobs(sectors, data)
      /\ Hold(sectors, data) /\ Occupied = {} /\ Settled({}, Range(sectors))
  BY DEF BetweenBatches
<1>2. CASE sectors = <<>>
  <2>1. todo = <<WaitAll>>
    BY <1>1, <1>2 DEF WriteJobs
  <2>2. PICK w : w = WaitAll
    OBVIOUS
  <2>3. todo = <<w>>
    BY <2>1, <2>2
  <2>4. Current = w /\ Tail(todo) = <<>>
    BY <2>3 DEF Current
  <2>5. Current.op = "wait" /\ Current.slots = 0
    BY <2>2, <2>4 DEF WaitAll, WaitSlots
  <2>6. Wait
    BY <2>5 DEF HostStep, SetQueueLength, SendOrSchedule, SendUnscheduled, SetCallbacks,
                Assign, NextJobs, PeekFails
  <2>7. todo' = <<>> /\ UNCHANGED <<conn, callbacks, unacked, up, down>>
    BY <2>4, <2>6 DEF Wait, NextStep, wires
  <2>8. PICK P : P = Range(sectors)
    OBVIOUS
  <2>9. Settled({}, P)
    BY <1>1, <2>8
  <2>10. Settled({}, P)' /\ P = {}
    BY <1>2, <2>6, <2>8, <2>9, WaitSettled, EmptySeq DEF Range
  <2>11. Settled({}, {})'
    BY <2>10
  <2>12. Connected' /\ Occupied' = {}
    BY <1>1, <2>7 DEF Connected, Quiet, Pipe, Occupied
  <2>13. Idle'
    BY <2>7, <2>11, <2>12 DEF Idle
  <2> QED
    BY <2>12, <2>13 DEF Phase, InWindow
<1>3. CASE sectors # <<>>
  <2>1. PICK j : j = [op |-> "jobs", sectors |-> sectors, data |-> data]
    OBVIOUS
  <2>2. todo = <<j>>
    BY <1>1, <1>3, <2>1 DEF WriteJobs
  <2>3. Current = j
    BY <2>2 DEF Current
  <2>4. Current.op = "jobs" /\ Current.sectors = sectors /\ Current.data = data
    BY <2>1, <2>3
  <2>5. NextJobs
    BY <2>4 DEF HostStep, Wait, SetQueueLength, SendOrSchedule, SendUnscheduled, SetCallbacks,
                Assign, PeekFails
  <2>6. PICK n \in DOMAIN sectors :
          /\ FirstRun(sectors, n)
          /\ todo' = WriteSectorsJob(write_batch_counter, sectors[1], SubSeq(data, 1, n))
                       \o WriteJobs(SubSeq(sectors, n + 1, Len(sectors)),
                                    SubSeq(data, n + 1, Len(data)))
    BY <2>4, <2>5 DEF NextJobs
  <2>7. PICK id : id = write_batch_counter
    OBVIOUS
  <2> DEFINE start == sectors[1]
             batch == SubSeq(data, 1, n)
             rest == RestOf(sectors, n)
             restData == RestOf(data, n)
             P == Range(sectors)
  <2>8. /\ IsBatch(id, start, batch) /\ Len(batch) = n
        /\ AreJobs(rest, restData) /\ Hold(rest, restData)
        /\ P = Range(rest) \cup {start + i - 1 : i \in 1..n}
        /\ \A i \in 1..n : batch[i] = wanted[start + i - 1] /\ start + i - 1 \notin Range(rest)
    BY <1>1, <2>6, <2>7, RunSplit
  <2>9. todo' = WriteRest(id, start, batch, rest, restData)
    BY <2>6, <2>7 DEF WriteRest, BatchThen, RestOf
  <2> HIDE DEF start, batch, rest, restData
  <2>10. WriteRest(id, start, batch, rest, restData) \in Seq(Steps)
    <3>1. WriteJobs(rest, restData) \in Seq(Steps)
      BY <2>8, JobsScript
    <3> QED
      BY <2>8, <3>1, WriteScript DEF WriteRest
  <2>11. Remaining(WriteRest(id, start, batch, rest, restData), 1)
           = WriteRest(id, start, batch, rest, restData)
    BY <2>10, ScriptEnds
  <2>12. UNCHANGED <<conn, callbacks, unacked, queue_length, write_batch_counter,
                     eth_batch_start_sector, wanted, up, down, device>>
    BY <2>5 DEF NextJobs, protocol, wires, ghosts
  <2>13. /\ IsBatch(id, start, batch)
         /\ id \in 0 .. BatchIds - 1 /\ start \in Sectors /\ batch \in Seq(Data)
         /\ rest \in Seq(Sectors) /\ restData \in Seq(Data)
    BY <2>8 DEF IsBatch, AreJobs, JobLists
  <2>14. SentOf(id, start, batch, 1) = {} /\ UnsentOf(start, batch, rest, 1) = P
    <3>1. SentOf(id, start, batch, 1) = {}
          /\ UnsentOf(start, batch, rest, 1) = Range(rest) \cup {start + i - 1 : i \in 1..Len(batch)}
      BY <2>13, BatchBegins
    <3> QED
      BY <2>8, <3>1
  <2> HIDE DEF P
  <2>15. Settled({}, P)'
    BY <1>1, <2>12, SameSettled DEF P
  <2>16. Settled(SentOf(id, start, batch, 1), UnsentOf(start, batch, rest, 1))'
    BY <2>14, <2>15
  <2>17. Connected' /\ Occupied' = {} /\ Hold(rest, restData)'
    BY <1>1, <2>8, <2>12 DEF Connected, Quiet, Pipe, Occupied, Hold
  <2>18. n \in 1..NumSectors /\ NumSectors \in Nat /\ 1 # 4 + n /\ 1 \in 1 .. 4 + n
         /\ 1 \in 1 .. 4 + NumSectors
    <3>1. n \in 1..NumSectors /\ NumSectors \in Nat
      BY <2>8, EtherloadAssumption DEF IsBatch
    <3> QED
      BY <3>1
  <2>19. Writing(id, start, batch, rest, restData, 1)'
    BY <2>7, <2>8, <2>9, <2>11, <2>12, <2>16, <2>17, <2>18 DEF Writing, OnlyFrames
  <2> QED
    BY <2>17, <2>18, <2>19, <2>13 DEF Phase, InWindow
<1> QED
  BY <1>2, <1>3

LEMMA ReadingStep ==
    ASSUME NEW start \in ReadStarts, NEW k \in 1 .. 6 + ReadBatch, todo = Remaining(ReadJob(start), k)
    PROVE  /\ Running /\ Tail(todo) = Remaining(ReadJob(start), k + 1)
           /\ k = 1 => Current.op = "queue_length"
           /\ k = 2 => Current.op = "batch_start" /\ Current.sector = start
           /\ k = 3 => Current.op = "wait"
           /\ k \in 4 .. 3 + ReadBatch =>
                /\ k - 3 \in 1..ReadBatch /\ Current.op = "schedule"
                /\ Current.frame = ReadSectors(1, start + (k - 3) - 1)
           /\ k = 4 + ReadBatch =>
                Current.op = "unscheduled" /\ Current.frame = ReadSectors(ReadBatch - 1, start)
           /\ k = 5 + ReadBatch => Current.op = "wait" /\ Current.slots = 0
           /\ k = 6 + ReadBatch => Current.op = "read_done" /\ Tail(todo) = <<>>
<1> DEFINE s == ReadJob(start)
           n == ReadBatch
<1>1. n \in Nat
  BY EtherloadAssumption
<1>2. /\ s \in Seq(Steps) /\ Len(s) = 6 + n
      /\ s[1] = QueueLength(ReadWindow)
      /\ s[2] = [op |-> "batch_start", sector |-> start]
      /\ s[3] = WaitSlots(n, FALSE)
      /\ \A i \in 1..n : s[3 + i] = Schedule(ReadSectors(1, start + i - 1))
      /\ s[4 + n] = Unscheduled(ReadSectors(n - 1, start))
      /\ s[5 + n] = WaitAll /\ s[6 + n] = Step("read_done")
  BY ReadScript
<1> HIDE DEF s
<1>3. k \in 1..Len(s) /\ todo = Remaining(s, k)
  BY <1>2 DEF s
<1>4. Running /\ Current = s[k] /\ Tail(todo) = Remaining(s, k + 1)
  BY <1>2, <1>3, ScriptFacts
<1>5. /\ QueueLength(ReadWindow).op = "queue_length" /\ WaitSlots(n, FALSE).op = "wait"
      /\ WaitAll.op = "wait" /\ WaitAll.slots = 0 /\ Step("read_done").op = "read_done"
      /\ \A f : Schedule(f).op = "schedule" /\ Schedule(f).frame = f
      /\ \A f : Unscheduled(f).op = "unscheduled" /\ Unscheduled(f).frame = f
  BY DEF QueueLength, WaitAll, WaitSlots, Step, Schedule, Unscheduled
<1>6. k \in 4 .. 3 + n => /\ k - 3 \in 1..n
                          /\ Current = Schedule(ReadSectors(1, start + (k - 3) - 1))
  <2> SUFFICES ASSUME k \in 4 .. 3 + n
               PROVE  k - 3 \in 1..n /\ Current = Schedule(ReadSectors(1, start + (k - 3) - 1))
    OBVIOUS
  <2>1. k - 3 \in 1..n /\ 3 + (k - 3) = k
    BY <1>1
  <2>2. s[3 + (k - 3)] = Schedule(ReadSectors(1, start + (k - 3) - 1))
    BY <1>2, <2>1
  <2> QED
    BY <1>4, <2>1, <2>2
<1>7. k = 6 + n => Tail(todo) = <<>>
  <2>1. Remaining(s, Len(s) + 1) = <<>>
    BY <1>2, ScriptEnds
  <2>2. k = 6 + n => k + 1 = Len(s) + 1
    BY <1>2
  <2> QED
    BY <1>4, <2>1, <2>2
<1>8. /\ k = 1 => Current = QueueLength(ReadWindow)
      /\ k = 2 => Current = [op |-> "batch_start", sector |-> start]
      /\ k = 3 => Current = WaitSlots(n, FALSE)
      /\ k = 4 + n => Current = Unscheduled(ReadSectors(n - 1, start))
      /\ k = 5 + n => Current = WaitAll
      /\ k = 6 + n => Current = Step("read_done")
  BY <1>2, <1>4
<1>9. k \in 4 .. 3 + n =>
        Current.op = "schedule" /\ Current.frame = ReadSectors(1, start + (k - 3) - 1)
  BY <1>5, <1>6
<1>10. k \in 4 .. 3 + n => k - 3 \in 1..n
  BY <1>6
<1>11. /\ k = 1 => Current.op = "queue_length"
       /\ k = 2 => Current.op = "batch_start" /\ Current.sector = start
       /\ k = 3 => Current.op = "wait"
  <2>1. k = 1 => Current.op = "queue_length"
    BY <1>5, <1>8
  <2>2. k = 2 => Current.op = "batch_start" /\ Current.sector = start
    BY <1>8
  <2>3. k = 3 => Current.op = "wait"
    BY <1>5, <1>8
  <2> QED
    BY <2>1, <2>2, <2>3
<1>12. k = 4 + n => Current.op = "unscheduled" /\ Current.frame = ReadSectors(n - 1, start)
  BY <1>5, <1>8
<1>13. k = 5 + n => Current.op = "wait" /\ Current.slots = 0
  BY <1>5, <1>8
<1>14. k = 6 + n => Current.op = "read_done"
  BY <1>5, <1>8
<1>15. Running /\ Tail(todo) = Remaining(ReadJob(start), k + 1)
  BY <1>4 DEF s
<1> QED
  BY <1>7, <1>9, <1>10, <1>11, <1>12, <1>13, <1>14, <1>15

\* One step further in a read.
LEMMA ReadingOn ==
    ASSUME NEW start \in ReadStarts, NEW k \in 1 .. 5 + ReadBatch, Reading(start, k),
           todo' = Remaining(ReadJob(start), k + 1),
           UNCHANGED <<conn, callbacks>>, Quiet',
           k + 1 > 2 => eth_batch_start_sector' = start,
           IF k + 1 = 6 + ReadBatch THEN Occupied' = {} ELSE OnlyFrames(ReadFrames(start, k + 1))',
           Settled({}, {})',
           \A i \in 1..ReadBatch : i <= k + 1 - 4 =>
             queue_read_data'[i - 1] = wanted'[start + i - 1] \/ Held(ReadSectors(1, start + i - 1))'
    PROVE  Phase'
<1>1. k + 1 \in 1 .. 6 + ReadBatch
  BY EtherloadAssumption
<1>2. Connected'
  BY DEF Reading, Connected
<1>3. Reading(start, k + 1)'
  BY <1>2 DEF Reading
<1> QED
  BY <1>1, <1>3 DEF Phase

LEMMA ReadProgress ==
    ASSUME NEW start, NEW k \in Nat
    PROVE  /\ k <= 4 => ReadFrames(start, k) = {}
           /\ k \in 4 .. 3 + ReadBatch =>
                ReadFrames(start, k + 1) = ReadFrames(start, k) \cup {ReadSectors(1, start + (k - 3) - 1)}
           /\ k >= 4 + ReadBatch => ReadFrames(start, k + 1) = ReadFrames(start, k)
<1> DEFINE n == ReadBatch
           f(i) == ReadSectors(1, start + i - 1)
<1>1. n \in Nat
  BY EtherloadAssumption
<1>2. ReadFrames(start, k) = {f(i) : i \in {j \in 1..n : j <= k - 4}}
      /\ ReadFrames(start, k + 1) = {f(i) : i \in {j \in 1..n : j <= (k + 1) - 4}}
  BY DEF ReadFrames
<1> HIDE DEF f
<1>3. k <= 4 => {j \in 1..n : j <= k - 4} = {}
  BY <1>1
<1>4. k \in 4 .. 3 + n =>
        {j \in 1..n : j <= (k + 1) - 4} = {j \in 1..n : j <= k - 4} \cup {k - 3}
  BY <1>1
<1>5. k >= 4 + n => {j \in 1..n : j <= (k + 1) - 4} = {j \in 1..n : j <= k - 4}
  BY <1>1
<1> QED
  BY <1>2, <1>3, <1>4, <1>5 DEF f

LEMMA ReadingHost ==
    ASSUME TypeInv, InWindow, NEW start \in ReadStarts, NEW k \in 1 .. 6 + ReadBatch,
           Reading(start, k), HostStep
    PROVE  Phase' /\ InWindow'
<1> DEFINE n == ReadBatch
           s == ReadJob(start)
<1>1. /\ Connected /\ todo = Remaining(s, k) /\ Settled({}, {})
      /\ k > 2 => eth_batch_start_sector = start
      /\ IF k = 6 + n THEN Occupied = {} ELSE OnlyFrames(ReadFrames(start, k))
      /\ \A i \in 1..n : i <= k - 4 =>
           queue_read_data[i - 1] = wanted[start + i - 1] \/ Held(ReadSectors(1, start + i - 1))
  BY DEF Reading
<1>2. n \in Nat /\ n > 0 /\ k \in Nat
  BY EtherloadAssumption
<1>3. /\ Running /\ Tail(todo) = Remaining(s, k + 1)
      /\ k = 1 => Current.op = "queue_length"
      /\ k = 2 => Current.op = "batch_start" /\ Current.sector = start
      /\ k = 3 => Current.op = "wait"
      /\ k \in 4 .. 3 + n =>
           /\ k - 3 \in 1..n /\ Current.op = "schedule"
           /\ Current.frame = ReadSectors(1, start + (k - 3) - 1)
      /\ k = 4 + n => Current.op = "unscheduled" /\ Current.frame = ReadSectors(n - 1, start)
      /\ k = 5 + n => Current.op = "wait" /\ Current.slots = 0
      /\ k = 6 + n => Current.op = "read_done" /\ Tail(todo) = <<>>
  BY <1>1, ReadingStep
<1> HIDE DEF s
<1>4. k <= 4 => ReadFrames(start, k) = {}
  BY <1>2, ReadProgress
<1>5. k + 1 <= 4 => ReadFrames(start, k + 1) = {}
  <2>1. k + 1 \in Nat
    BY <1>2
  <2> QED
    BY <2>1, ReadProgress
<1>6. CASE k = 1
  <2>1. SetQueueLength
    BY <1>3, <1>6 DEF HostStep, Wait, SendOrSchedule, SendUnscheduled, SetCallbacks, Assign,
                      NextJobs, PeekFails
  <2>2. /\ todo' = Remaining(s, k + 1)
        /\ UNCHANGED <<conn, unacked, callbacks, write_batch_counter, eth_batch_start_sector, wanted,
                       up, down, device>>
    BY <1>3, <2>1 DEF SetQueueLength, NextStep, protocol, wires, ghosts
  <2>3. k <= 4 /\ k + 1 <= 4 /\ k \in 1 .. 5 + n /\ k # 6 + n /\ k + 1 # 6 + n /\ ~(k + 1 > 2)
        /\ \A i \in 1..n : ~(i <= k + 1 - 4)
    BY <1>2, <1>6
  <2>4. Occupied = {} /\ Quiet
    BY <1>1, <1>4, <2>3 DEF OnlyFrames, Connected
  <2>5. Settled({}, {})'
    BY <1>1, <2>2, SameSettled
  <2>6. Occupied' = {} /\ Quiet'
    BY <2>2, <2>4 DEF Quiet, Pipe, Occupied
  <2>7. PICK A : A = ReadFrames(start, k + 1)
    OBVIOUS
  <2>8. OnlyFrames(A)'
    BY <2>6 DEF OnlyFrames
  <2>9. Phase'
    BY <2>2, <2>3, <2>5, <2>6, <2>7, <2>8, ReadingOn DEF s
  <2> QED
    BY <2>6, <2>9 DEF InWindow
<1>7. CASE k = 2
  <2>1. Assign
    BY <1>3, <1>7 DEF HostStep, Wait, SetQueueLength, SendOrSchedule, SendUnscheduled, SetCallbacks,
                      NextJobs, PeekFails
  <2>2. /\ todo' = Remaining(s, k + 1) /\ eth_batch_start_sector' = start
        /\ UNCHANGED <<conn, unacked, callbacks, write_batch_counter, wanted, up, down, device>>
    BY <1>3, <1>7, <2>1 DEF Assign, NextStep, wires, ghosts
  <2>3. k <= 4 /\ k + 1 <= 4 /\ k \in 1 .. 5 + n /\ k # 6 + n /\ k + 1 # 6 + n
        /\ \A i \in 1..n : ~(i <= k + 1 - 4)
    BY <1>2, <1>7
  <2>4. Occupied = {} /\ Quiet
    BY <1>1, <1>4, <2>3 DEF OnlyFrames, Connected
  <2>5. Occupied' = {} /\ Quiet'
    BY <2>2, <2>4 DEF Quiet, Pipe, Occupied
  <2>6. HeldFrames({})'
    BY <2>5 DEF HeldFrames
  <2>7. Quit \in Frames /\ Quit.cmd # "write"
    BY DEF Frames, Signals, Quit, Packet
  <2>8. Settled({}, {})'
    BY <1>1, <2>2, <2>6, <2>7, PlainSettled
  <2>9. PICK A : A = ReadFrames(start, k + 1)
    OBVIOUS
  <2>10. OnlyFrames(A)'
    BY <2>5 DEF OnlyFrames
  <2>11. Phase'
    BY <2>2, <2>3, <2>5, <2>8, <2>9, <2>10, ReadingOn DEF s
  <2> QED
    BY <2>5, <2>11 DEF InWindow
<1>8. CASE k = 3
  <2>1. Wait
    BY <1>3, <1>8 DEF HostStep, SetQueueLength, SendOrSchedule, SendUnscheduled, SetCallbacks, Assign,
                      NextJobs, PeekFails
  <2>2. /\ todo' = Remaining(s, k + 1)
        /\ UNCHANGED <<conn, unacked, callbacks, eth_batch_start_sector, up, down, queue_length>>
    BY <1>3, <2>1 DEF Wait, NextStep, wires, protocol
  <2>3. k <= 4 /\ k + 1 <= 4 /\ k \in 1 .. 5 + n /\ k # 6 + n /\ k + 1 # 6 + n /\ k > 2
        /\ \A i \in 1..n : ~(i <= k + 1 - 4)
    BY <1>2, <1>8
  <2>4. Occupied = {} /\ Quiet
    BY <1>1, <1>4, <2>3 DEF OnlyFrames, Connected
  <2>5. Occupied' = {} /\ Quiet'
    BY <2>2, <2>4 DEF Quiet, Pipe, Occupied
  <2>6. Settled({}, {})'
    BY <1>1, <2>1, WaitSettled
  <2>7. PICK A : A = ReadFrames(start, k + 1)
    OBVIOUS
  <2>8. OnlyFrames(A)'
    BY <2>5 DEF OnlyFrames
  <2>9. Phase'
    BY <1>1, <2>2, <2>3, <2>5, <2>6, <2>7, <2>8, ReadingOn DEF s
  <2> QED
    BY <2>5, <2>9 DEF InWindow
<1>9. CASE k \in 4 .. 3 + n
  <2>1. SendOrSchedule
    BY <1>3, <1>9 DEF HostStep, Wait, SetQueueLength, SendUnscheduled, SetCallbacks, Assign,
                      NextJobs, PeekFails
  <2>2. k \in 1 .. 5 + n /\ k # 6 + n /\ k + 1 # 6 + n /\ k > 2
        /\ \A i \in 1..n : i <= k + 1 - 4 => i <= k - 4 \/ i = k - 3
    BY <1>2, <1>9
  <2>3. PICK m \in 1..n : m = k - 3
    BY <1>3, <1>9
  <2>4. PICK f : f = ReadSectors(1, start + m - 1)
    OBVIOUS
  <2>5. Current.frame = f /\ Current.op = "schedule"
    BY <1>3, <1>9, <2>3, <2>4
  <2>6. f.cmd = "read" /\ f.key = start + m - 1
    BY <2>4, ReadFrameFacts
  <2>7. f.key >= eth_batch_start_sector
    <3>1. start \in Nat
      BY EtherloadAssumption DEF ReadStarts
    <3> QED
      BY <1>1, <2>2, <2>6, <3>1
  <2>8. Settled({}, {})' /\ Pipe' \subseteq Pipe \cup {f}
    BY <1>1, <2>1, <2>5, <2>6, <2>7, PlainSent
  <2>9. /\ todo' = Remaining(s, k + 1)
        /\ UNCHANGED <<conn, callbacks, eth_batch_start_sector, wanted, queue_read_data>>
    BY <1>3, <2>1 DEF SendOrSchedule, NextStep, protocol, ghosts, results
  <2>10. Quiet'
    BY <1>1, <2>6, <2>8 DEF Connected, Quiet
  <2>11. PICK A : A = ReadFrames(start, k)
    OBVIOUS
  <2>12. PICK B : B = ReadFrames(start, k + 1)
    OBVIOUS
  <2>13. B = A \cup {f}
    BY <1>2, <1>9, <2>3, <2>4, <2>11, <2>12, ReadProgress
  <2>14. PICK slot : /\ Occupied' = Occupied \cup {slot} /\ unacked'[slot] = f
                     /\ \A t \in Occupied : unacked'[t] = unacked[t]
    BY <2>1, <2>5, SlotTaken
  <2>15. OnlyFrames(A)
    BY <1>1, <2>2, <2>11
  <2>16. OnlyFrames(B)'
    BY <2>13, <2>14, <2>15 DEF OnlyFrames
  <2>17. ASSUME NEW i \in 1..n, i <= k + 1 - 4
         PROVE  queue_read_data'[i - 1] = wanted'[start + i - 1] \/ Held(ReadSectors(1, start + i - 1))'
    <3>1. CASE i = k - 3
      <4>1. ReadSectors(1, start + i - 1) = f
        BY <2>3, <2>4, <3>1
      <4> QED
        BY <2>14, <4>1 DEF Held
    <3>2. CASE i <= k - 4
      <4>1. queue_read_data[i - 1] = wanted[start + i - 1] \/ Held(ReadSectors(1, start + i - 1))
        BY <1>1, <3>2
      <4>2. PICK g : g = ReadSectors(1, start + i - 1)
        OBVIOUS
      <4>3. Held(g) => Held(g)'
        BY <2>14 DEF Held
      <4> QED
        BY <2>9, <4>1, <4>2, <4>3
    <3> QED
      BY <2>2, <2>17, <3>1, <3>2
  <2>18. Phase'
    BY <1>1, <2>2, <2>8, <2>9, <2>10, <2>12, <2>16, <2>17, ReadingOn DEF s
  <2>19. ~SetQueueLength
    BY <2>5 DEF SetQueueLength
  <2> QED
    BY <2>18, <2>19, HostWindow
<1>10. CASE k = 4 + n
  <2>1. SendUnscheduled
    BY <1>3, <1>10 DEF HostStep, Wait, SetQueueLength, SendOrSchedule, SetCallbacks, Assign,
                       NextJobs, PeekFails
  <2>2. k \in 1 .. 5 + n /\ k # 6 + n /\ k + 1 # 6 + n /\ k > 2 /\ k >= 4 + n
        /\ \A i \in 1..n : i <= k + 1 - 4 => i <= k - 4
    BY <1>2, <1>10
  <2>3. PICK f : f = ReadSectors(n - 1, start)
    OBVIOUS
  <2>4. Current.frame = f /\ f.cmd = "read"
    BY <1>3, <1>10, <2>3 DEF ReadSectors, Packet
  <2>5. f \in Frames
    BY <1>3, <1>10, <2>4, RunningTypes, FrameOfStep DEF TypeInv
  <2>6. /\ todo' = Remaining(s, k + 1) /\ up' = Transmit(up, f)
        /\ UNCHANGED <<conn, callbacks, unacked, queue_length, eth_batch_start_sector, wanted,
                       queue_read_data, write_batch_counter, down, device>>
    BY <1>3, <2>1, <2>4 DEF SendUnscheduled, NextStep, protocol, ghosts, results
  <2>7. Occupied' = Occupied
    BY <2>6 DEF Occupied
  <2>8. HeldFrames({})'
    BY <1>1, <2>6, <2>7, HeldKept DEF Settled
  <2>9. Settled({}, {})'
    BY <1>1, <2>4, <2>5, <2>6, <2>8, PlainSettled
  <2>10. Range(up') \subseteq Range(up) \cup {f}
    BY <2>5, <2>6, WireFacts, TransmitOneRange
  <2>11. Quiet'
    BY <1>1, <2>4, <2>6, <2>10 DEF Connected, Quiet, Pipe
  <2>12. PICK A : A = ReadFrames(start, k)
    OBVIOUS
  <2>13. ReadFrames(start, k + 1) = A
    BY <1>2, <2>2, <2>12, ReadProgress
  <2>14. OnlyFrames(A)
    BY <1>1, <2>2, <2>12
  <2>15. OnlyFrames(A)'
    BY <2>6, <2>14, StillFrames
  <2>16. ASSUME NEW i \in 1..n, i <= k + 1 - 4
         PROVE  queue_read_data'[i - 1] = wanted'[start + i - 1] \/ Held(ReadSectors(1, start + i - 1))'
    <3>1. queue_read_data[i - 1] = wanted[start + i - 1] \/ Held(ReadSectors(1, start + i - 1))
      BY <1>1, <2>2, <2>16
    <3>2. PICK g : g = ReadSectors(1, start + i - 1)
      OBVIOUS
    <3>3. Held(g) => Held(g)'
      BY <2>6, <2>7 DEF Held
    <3> QED
      BY <2>6, <3>1, <3>2, <3>3
  <2>17. Phase'
    BY <1>1, <2>2, <2>6, <2>9, <2>11, <2>13, <2>15, <2>16, ReadingOn DEF s
  <2> QED
    BY <2>6, <2>7, <2>17 DEF InWindow
<1>11. CASE k = 5 + n
  <2>1. Wait /\ Current.slots = 0
    BY <1>3, <1>11 DEF HostStep, SetQueueLength, SendOrSchedule, SendUnscheduled, SetCallbacks,
                       Assign, NextJobs, PeekFails
  <2>2. k \in 1 .. 5 + n /\ k # 6 + n /\ k + 1 = 6 + n /\ k > 2
        /\ \A i \in 1..n : i <= k - 4
    BY <1>2, <1>11
  <2>3. /\ todo' = Remaining(s, k + 1)
        /\ UNCHANGED <<conn, callbacks, eth_batch_start_sector, wanted, queue_read_data, up, down>>
    BY <1>3, <2>1 DEF Wait, NextStep, protocol, wires, ghosts, results
  <2>4. Occupied = {} /\ Occupied' = {}
    BY <2>1, AllAnswered
  <2>5. Settled({}, {})'
    BY <1>1, <2>1, WaitSettled
  <2>6. Quiet'
    BY <1>1, <2>3 DEF Connected, Quiet, Pipe
  <2>7. \A i \in 1..n : queue_read_data[i - 1] = wanted[start + i - 1]
    BY <1>1, <2>2, <2>4 DEF Held
  <2>8. \A i \in 1..n : queue_read_data'[i - 1] = wanted'[start + i - 1]
    BY <2>3, <2>7
  <2>9. Phase'
    BY <1>1, <2>2, <2>3, <2>4, <2>5, <2>6, <2>8, ReadingOn DEF s
  <2> QED
    BY <2>4, <2>9 DEF InWindow
<1>12. CASE k = 6 + n
  <2>1. Assign
    BY <1>3, <1>12 DEF HostStep, Wait, SetQueueLength, SendOrSchedule, SendUnscheduled, SetCallbacks,
                       NextJobs, PeekFails
  <2>2. /\ Settled({}, {})' /\ todo' = Tail(todo) /\ Pipe' = Pipe /\ Occupied' = Occupied
        /\ conn' = conn /\ callbacks' = callbacks
    BY <1>1, <1>3, <1>12, <2>1, AssignKeeps
  <2>3. todo' = <<>> /\ Occupied' = {}
    BY <1>1, <1>3, <1>12, <2>2
  <2>4. Connected'
    BY <1>1, <2>2 DEF Connected, Quiet
  <2>5. Idle'
    BY <2>2, <2>3, <2>4 DEF Idle
  <2> QED
    BY <2>3, <2>5 DEF Phase, InWindow
<1>13. k = 1 \/ k = 2 \/ k = 3 \/ k \in 4 .. 3 + n \/ k = 4 + n \/ k = 5 + n \/ k = 6 + n
  BY <1>2
<1> QED
  BY <1>6, <1>7, <1>8, <1>9, <1>10, <1>11, <1>12, <1>13

LEMMA HostPhase ==
    ASSUME TypeInv, KeysApart, Phase, InWindow, HostStep
    PROVE  Phase' /\ InWindow'
<1>1. todo # <<>>
  BY DEF HostStep, Wait, SendOrSchedule, SendUnscheduled, SetQueueLength, SetCallbacks, Assign,
         NextJobs, PeekFails, Running
<1>2. ASSUME NEW k \in 1 .. 17 + NumBlocks, Connecting(k) PROVE Phase' /\ InWindow'
  <2>1. ~SetQueueLength
    BY <1>2, ConnectingStep DEF Connecting, SetQueueLength
  <2> QED
    BY <1>2, <2>1, ConnectingHost, HostWindow
<1>3. ASSUME NEW k \in 18 + NumBlocks .. 20 + NumBlocks, Peeking(k) PROVE Phase' /\ InWindow'
  <2>1. ~SetQueueLength
    <3>1. k = 18 + NumBlocks \/ k = 19 + NumBlocks \/ k = 20 + NumBlocks
      BY EtherloadAssumption
    <3>2. Current.op \in {"wait", "check_memory_read", "connected"}
      BY <1>3, <3>1, PeekingStep DEF Peeking
    <3> QED
      BY <3>2 DEF SetQueueLength
  <2> QED
    BY <1>3, <2>1, PeekingHost, HostWindow
<1>4. ASSUME NEW sectors \in Seq(Sectors), NEW data \in Seq(Data), BetweenBatches(sectors, data)
      PROVE  Phase' /\ InWindow'
  BY <1>4, BetweenHost
<1>5. ASSUME NEW id \in 0 .. BatchIds - 1, NEW start \in Sectors, NEW batch \in Seq(Data),
             NEW rest \in Seq(Sectors), NEW restData \in Seq(Data), NEW k \in 1 .. 4 + NumSectors,
             Writing(id, start, batch, rest, restData, k)
      PROVE  Phase' /\ InWindow'
  BY <1>5, WritingHost
<1>6. ASSUME NEW start \in ReadStarts, NEW k \in 1 .. 6 + ReadBatch, Reading(start, k)
      PROVE  Phase' /\ InWindow'
  BY <1>6, ReadingHost
<1>7. ASSUME NEW k \in 1..4, Quitting(k) PROVE Phase' /\ InWindow'
  <2>1. ~SetQueueLength
    <3>1. RequestQuit \in Seq(Steps) /\ Len(RequestQuit) = 4 /\ todo = Remaining(RequestQuit, k)
      BY <1>7, QuitScript DEF Quitting
    <3>2. k \in 1..Len(RequestQuit)
      BY <3>1
    <3>3. Current = RequestQuit[k]
      BY <3>1, <3>2, ScriptFacts
    <3>4. k = 1 \/ k = 2 \/ k = 3 \/ k = 4
      OBVIOUS
    <3>6. RequestQuit[k] \in {WaitAll, Send(Quit, FALSE), Step("finished")}
      BY <3>4, QuitScript
    <3>5. Current.op \in {"wait", "send", "finished"}
      BY <3>3, <3>6 DEF WaitAll, WaitSlots, Send, Step
    <3> QED
      BY <3>5 DEF SetQueueLength
  <2> QED
    BY <1>7, <2>1, QuittingHost, HostWindow
<1>8. ~(conn = "exited" /\ todo = <<>>) /\ ~Idle /\ ~Finished
  BY <1>1 DEF Idle, Finished
<1> QED
  BY <1>2, <1>3, <1>4, <1>5, <1>6, <1>7, <1>8 DEF Phase

-----------------------------------------------------------------------------
\* Calls, and the end of the program.

LEMMA AtRest ==
    ASSUME TypeInv, Phase, ~Running
    PROVE  conn = "exited" \/ Idle \/ Finished
<1>1. todo = <<>>
  BY DEF Running
<1>2. ASSUME NEW k \in 1 .. 17 + NumBlocks, Connecting(k) PROVE FALSE
  BY <1>2, ConnectingStep DEF Connecting
<1>3. ASSUME NEW k \in 18 + NumBlocks .. 20 + NumBlocks, Peeking(k) PROVE FALSE
  BY <1>3, PeekingStep DEF Peeking
<1>4. ASSUME NEW sectors \in Seq(Sectors), NEW data \in Seq(Data), BetweenBatches(sectors, data)
      PROVE  FALSE
  <2>1. todo \in Seq(Steps) /\ Len(todo) = 1
    BY <1>4, JobsScript DEF BetweenBatches
  <2> QED
    BY <1>1, <2>1, EmptySeq
<1>5. ASSUME NEW id \in 0 .. BatchIds - 1, NEW start \in Sectors, NEW batch \in Seq(Data),
             NEW rest \in Seq(Sectors), NEW restData \in Seq(Data), NEW k \in 1 .. 4 + NumSectors,
             Writing(id, start, batch, rest, restData, k)
      PROVE  FALSE
  <2>1. /\ IsBatch(id, start, batch) /\ AreJobs(rest, restData) /\ k \in 1 .. 4 + Len(batch)
        /\ todo = Remaining(WriteRest(id, start, batch, rest, restData), k)
    BY <1>5 DEF Writing
  <2>2. Running
    BY <2>1, WritingStep
  <2> QED
    BY <2>2
<1>6. ASSUME NEW start \in ReadStarts, NEW k \in 1 .. 6 + ReadBatch, Reading(start, k) PROVE FALSE
  BY <1>6, ReadingStep DEF Reading
<1>7. ASSUME NEW k \in 1..4, Quitting(k) PROVE FALSE
  <2>1. RequestQuit \in Seq(Steps) /\ k \in 1..Len(RequestQuit) /\ todo = Remaining(RequestQuit, k)
    BY <1>7, QuitScript DEF Quitting
  <2> QED
    BY <2>1, ScriptFacts
<1> QED
  BY <1>2, <1>3, <1>4, <1>5, <1>6, <1>7 DEF Phase

\* Calls are made when none runs.
LEMMA CallsFromIdle ==
    ASSUME TypeInv, Phase, NEW script, Call(script)
    PROVE  Idle /\ UNCHANGED <<conn, callbacks, unacked, queue_length, write_batch_counter,
                               eth_batch_start_sector, up, down, device>>
<1>1. ~Running /\ conn = "up"
  BY DEF Call, Running
<1>2. Idle
  BY <1>1, AtRest DEF Finished
<1> QED
  BY <1>2 DEF Call, host, protocol, wires

LEMMA CallWindow == ASSUME Idle, unacked' = unacked PROVE InWindow' /\ Occupied' = {}
BY DEF Idle, InWindow, Occupied

LEMMA ReadCalled ==
    ASSUME TypeInv, Phase, NEW start \in ReadStarts, ReadSector(start)
    PROVE  Phase' /\ InWindow'
<1>1. Call(ReadJob(start)) /\ wanted' = wanted /\ todo' = ReadJob(start)
  BY DEF ReadSector, Call
<1>2. Idle /\ UNCHANGED <<conn, callbacks, unacked, queue_length, write_batch_counter,
                          eth_batch_start_sector, up, down, device>>
  BY <1>1, CallsFromIdle
<1>3. Settled({}, {})' /\ Connected'
  BY <1>1, <1>2, SameSettled DEF Idle, Connected, Quiet, Pipe
<1>4. InWindow' /\ Occupied' = {}
  BY <1>2, CallWindow
<1>5. todo' = Remaining(ReadJob(start), 1)
  BY <1>1, ReadScript, ScriptEnds
<1>6. PICK k \in 1 .. 6 + ReadBatch : k = 1 /\ k # 6 + ReadBatch /\ ~(k > 2) /\ \A i \in 1..ReadBatch : ~(i <= k - 4)
  BY EtherloadAssumption
<1>7. PICK A : A = ReadFrames(start, k)
  OBVIOUS
<1>8. OnlyFrames(A)'
  BY <1>4 DEF OnlyFrames
<1>9. todo' = Remaining(ReadJob(start), k)
  BY <1>5, <1>6
<1>10. Reading(start, k)'
  BY <1>3, <1>6, <1>7, <1>8, <1>9 DEF Reading
<1> QED
  BY <1>4, <1>10 DEF Phase

LEMMA QuitCalled == ASSUME TypeInv, Phase, Finish PROVE Phase' /\ InWindow'
<1>1. Call(RequestQuit) /\ wanted' = wanted /\ todo' = RequestQuit
  BY DEF Finish, Call
<1>2. Idle /\ UNCHANGED <<conn, callbacks, unacked, queue_length, write_batch_counter,
                          eth_batch_start_sector, up, down, device>>
  BY <1>1, CallsFromIdle
<1>3. Settled({}, {})' /\ conn' = "up"
  BY <1>1, <1>2, SameSettled DEF Idle, Connected
<1>4. InWindow' /\ Occupied' = {}
  BY <1>2, CallWindow
<1>5. todo' = Remaining(RequestQuit, 1)
  BY <1>1, QuitScript, ScriptEnds
<1>6. Quitting(1)'
  BY <1>3, <1>4, <1>5 DEF Quitting, OnlyFrames
<1> QED
  BY <1>4, <1>6 DEF Phase

LEMMA WriteCalled ==
    ASSUME TypeInv, Phase, NEW sectors \in WriteLists, NEW data \in [DOMAIN sectors -> Data],
           ExecuteWriteQueue(sectors, data)
    PROVE  Phase' /\ InWindow'
<1> DEFINE n == Len(sectors)
<1>1. Call(WriteJobs(sectors, data)) /\ todo' = WriteJobs(sectors, data)
  BY DEF ExecuteWriteQueue, Call
<1>2. Idle /\ UNCHANGED <<conn, callbacks, unacked, queue_length, write_batch_counter,
                          eth_batch_start_sector, up, down, device>>
  BY <1>1, CallsFromIdle
<1>3. /\ sectors \in Seq(Sectors) /\ n \in 1..SlotBase /\ DOMAIN sectors = 1..n /\ n \in Nat
      /\ \A i, j \in 1..n : sectors[i] = sectors[j] => i = j
  BY WriteListsAssumption, LenProperties
<1>4. data \in Seq(Data) /\ Len(data) = n /\ AreJobs(sectors, data)
  <2>1. data \in Seq(Data) /\ Len(data) = n
    BY <1>3, FunctionIsSeq
  <2> QED
    BY <1>3, <2>1 DEF AreJobs, JobLists
<1>5. wanted' = [s \in Sectors |->
                   IF \E i \in DOMAIN sectors : sectors[i] = s
                   THEN data[CHOOSE i \in DOMAIN sectors : sectors[i] = s]
                   ELSE wanted[s]]
  BY DEF ExecuteWriteQueue
<1>6. Hold(sectors, data)'
  <2> SUFFICES ASSUME NEW i \in 1..n PROVE data[i] = wanted'[sectors[i]]
    BY <1>3 DEF Hold
  <2>1. sectors[i] \in Sectors
    BY <1>3, ElementOfSeq
  <2>2. (CHOOSE j \in DOMAIN sectors : sectors[j] = sectors[i]) = i
    BY <1>3
  <2> QED
    BY <1>3, <1>5, <2>1, <2>2
<1>7. PICK P : P = Range(sectors)
  OBVIOUS
<1>8. \A s \in Sectors \ P : wanted'[s] = wanted[s]
  BY <1>5, <1>7 DEF Range
<1>9. InWindow' /\ Occupied' = {}
  BY <1>2, CallWindow
<1>10. Settled({}, {})
  BY <1>2 DEF Idle
<1>11. SentFrames({}, P)' /\ HeldFrames({})'
  BY <1>9 DEF SentFrames, HeldFrames
<1>12. BatchWires({})'
  BY <1>2, <1>10 DEF Settled, BatchWires, Batch, InOrder
<1>13. CardFresh(P)'
  <2> SUFFICES ASSUME NEW s \in Sectors \ P PROVE Fresh(s)'
    BY DEF CardFresh
  <2>1. Fresh(s)
    BY <1>10, AllFresh
  <2> QED
    BY <1>2, <1>8, <2>1 DEF Fresh
<1>14. Settled({}, P)'
  BY <1>11, <1>12, <1>13 DEF Settled
<1>15. Connected'
  BY <1>2 DEF Idle, Connected, Quiet, Pipe
<1>16. Settled({}, Range(sectors))'
  BY <1>7, <1>14
<1>17. BetweenBatches(sectors, data)'
  BY <1>1, <1>4, <1>6, <1>9, <1>15, <1>16 DEF BetweenBatches
<1> QED
  BY <1>3, <1>4, <1>9, <1>17 DEF Phase

LEMMA InitPhase == Init => DataInv
<1> SUFFICES ASSUME Init PROVE Phase /\ InWindow
  BY DEF DataInv
<1>1. Range(up) = {} /\ Range(down) = {} /\ Len(up) = 0 /\ Len(down) = 0
  BY EmptySeq DEF Init, Range
<1>2. Occupied = {}
  BY DEF Init, Occupied
<1>3. SentFrames({}, {}) /\ HeldFrames({}) /\ BatchWires({})
  BY <1>1, <1>2 DEF SentFrames, HeldFrames, BatchWires, InOrder
<1>4. device.card = wanted
  BY DEF Init
<1>5. CardFresh({})
  BY <1>1, <1>4 DEF CardFresh, Fresh
<1>6. todo = Remaining(Connect, 1)
  BY ConnectScript, ScriptEnds DEF Init
<1>7. PICK k \in 1 .. 17 + NumBlocks : k = 1
  BY EtherloadAssumption
<1>8. k \notin {16 + NumBlocks, 17 + NumBlocks} /\ ~(k > 12 + NumBlocks)
  BY <1>7, EtherloadAssumption
<1>9. todo = Remaining(Connect, k) /\ conn = "down" /\ Settled({}, {}) /\ Pipe = {}
  BY <1>1, <1>3, <1>5, <1>6, <1>7 DEF Settled, Init, Pipe
<1>10. Connecting(k)
  BY <1>2, <1>8, <1>9 DEF Connecting, OnlyFrames
<1> QED
  BY <1>2, <1>10 DEF Phase, InWindow

LEMMA StutterPhase ==
    ASSUME Phase, InWindow, UNCHANGED vars
    PROVE  Phase' /\ InWindow'
<1>1. UNCHANGED <<conn, todo, callbacks, unacked, queue_length, write_batch_counter,
                  eth_batch_start_sector, queue_read_data, memory_read_buffer_len, wanted,
                  up, down, device>>
  BY DEF vars, host, results, protocol, wires, ghosts
<1>2. \A F, P : Settled(F, P) => Settled(F, P)'
  BY <1>1, SameSettled
<1>3. Occupied' = Occupied /\ Pipe' = Pipe
  BY <1>1 DEF Occupied, Pipe
<1>4. InWindow' /\ (\A A : OnlyFrames(A) => OnlyFrames(A)') /\ (Connected => Connected')
  BY <1>1, <1>3 DEF InWindow, OnlyFrames, Connected, Quiet
<1>5. CASE conn = "exited" /\ todo = <<>>
  BY <1>1, <1>4, <1>5 DEF Phase
<1>6. ASSUME NEW k \in 1 .. 17 + NumBlocks, Connecting(k) PROVE Phase'
  <2>1. Connecting(k)'
    BY <1>1, <1>2, <1>3, <1>4, <1>6 DEF Connecting
  <2> QED
    BY <2>1 DEF Phase
<1>7. ASSUME NEW k \in 18 + NumBlocks .. 20 + NumBlocks, Peeking(k) PROVE Phase'
  <2>1. InOrder(up, {ReadMemory})' /\ InOrder(down, {ReadMemory})'
    BY <1>1, <1>7 DEF Peeking, InOrder
  <2>2. Peeking(k)'
    BY <1>1, <1>2, <1>3, <1>4, <1>7, <2>1 DEF Peeking
  <2> QED
    BY <2>2 DEF Phase
<1>8. CASE Idle
  BY <1>1, <1>2, <1>3, <1>4, <1>8 DEF Idle, Phase
<1>9. ASSUME NEW sectors \in Seq(Sectors), NEW data \in Seq(Data), BetweenBatches(sectors, data)
      PROVE  Phase'
  <2>1. PICK P : P = Range(sectors)
    OBVIOUS
  <2>2. Settled({}, P)'
    BY <1>2, <1>9, <2>1 DEF BetweenBatches
  <2>3. BetweenBatches(sectors, data)'
    BY <1>1, <1>3, <1>4, <1>9, <2>1, <2>2 DEF BetweenBatches, Hold
  <2> QED
    BY <2>3 DEF Phase
<1>10. ASSUME NEW id \in 0 .. BatchIds - 1, NEW start \in Sectors, NEW batch \in Seq(Data),
              NEW rest \in Seq(Sectors), NEW restData \in Seq(Data), NEW k \in 1 .. 4 + NumSectors,
              Writing(id, start, batch, rest, restData, k)
       PROVE  Phase'
  <2>1. PICK F : F = SentOf(id, start, batch, k)
    OBVIOUS
  <2>2. PICK P : P = UnsentOf(start, batch, rest, k)
    OBVIOUS
  <2>3. Settled(F, P)' /\ (OnlyFrames(F) => OnlyFrames(F)')
    BY <1>2, <1>4, <1>10, <2>1, <2>2 DEF Writing
  <2>4. Writing(id, start, batch, rest, restData, k)'
    BY <1>1, <1>3, <1>4, <1>10, <2>1, <2>2, <2>3 DEF Writing, Hold
  <2> QED
    BY <2>4 DEF Phase
<1>11. ASSUME NEW start \in ReadStarts, NEW k \in 1 .. 6 + ReadBatch, Reading(start, k)
       PROVE  Phase'
  <2>1. PICK A : A = ReadFrames(start, k)
    OBVIOUS
  <2>2. OnlyFrames(A) => OnlyFrames(A)'
    BY <1>4
  <2>3. \A f : Held(f) => Held(f)'
    BY <1>1, <1>3 DEF Held
  <2>4. Reading(start, k)'
    BY <1>1, <1>2, <1>3, <1>4, <1>11, <2>1, <2>2, <2>3 DEF Reading
  <2> QED
    BY <2>4 DEF Phase
<1>12. ASSUME NEW k \in 1..4, Quitting(k) PROVE Phase'
  <2>1. Quitting(k)'
    BY <1>1, <1>2, <1>4, <1>12 DEF Quitting
  <2> QED
    BY <2>1 DEF Phase
<1>13. CASE Finished
  BY <1>1, <1>2, <1>4, <1>13 DEF Finished, Phase
<1> QED
  BY <1>4, <1>5, <1>6, <1>7, <1>8, <1>9, <1>10, <1>11, <1>12, <1>13 DEF Phase

LEMMA StepPhase == KeysApart /\ TypeInv /\ DataInv /\ [Next]_vars => DataInv'
<1> SUFFICES ASSUME KeysApart, TypeInv, DataInv, [Next]_vars, gaveUp' = "never"
             PROVE  Phase' /\ InWindow'
  BY DEF DataInv
<1>1. gaveUp = "never" /\ ~GiveUp
  BY BlocksGrow DEF GiveUp
<1>2. Phase /\ InWindow
  BY <1>1 DEF DataInv
<1>3. CASE HostStep
  BY <1>2, <1>3, HostPhase
<1>4. CASE Receive \/ Resend \/ DeviceReceives \/ Lose
  BY <1>2, <1>4, AroundPhase DEF Around
<1>5. CASE Exit
  <2>1. conn' = "exited" /\ todo' = <<>> /\ unacked' = unacked /\ queue_length' = queue_length
    BY <1>5 DEF Exit, host
  <2> QED
    BY <1>2, <2>1 DEF Phase, InWindow, Occupied
<1>6. CASE \E sectors \in WriteLists : \E data \in [DOMAIN sectors -> Data] : ExecuteWriteQueue(sectors, data)
  BY <1>2, <1>6, WriteCalled
<1>7. CASE \E start \in 1 .. NumSectors - ReadBatch + 1 : ReadSector(start)
  BY <1>2, <1>7, ReadCalled DEF ReadStarts
<1>8. CASE Finish
  BY <1>2, <1>8, QuitCalled
<1>9. CASE UNCHANGED vars
  BY <1>2, <1>9, StutterPhase
<1> QED
  BY <1>1, <1>3, <1>4, <1>5, <1>6, <1>7, <1>8, <1>9 DEF Next

LEMMA PhaseAlways == KeysApart => (Spec => []DataInv)
<1> SUFFICES ASSUME KeysApart PROVE Spec => []DataInv
  OBVIOUS
<1>1. Init => DataInv
  BY InitPhase
<1>2. TypeInv /\ DataInv /\ [Next]_vars => DataInv'
  BY StepPhase
<1> QED
  BY <1>1, <1>2, TypesAlways, PTL DEF Spec

-----------------------------------------------------------------------------
\* What the invariant says when a call is over, and when a batch was read.

LEMMA LandedAtRest == TypeInv /\ Phase => WritesLand
<1> SUFFICES ASSUME TypeInv, Phase, conn \in {"up", "finished"}, todo = <<>>
             PROVE  \A s \in Sectors \ doubtful : device.card[s] = wanted[s]
  BY DEF WritesLand
<1>1. Idle \/ Finished
  BY AtRest DEF Running
<1>2. Settled({}, {})
  BY <1>1 DEF Idle, Finished
<1> QED
  BY <1>2, AllFresh DEF Fresh

LEMMA OnlyReadsEndSo ==
    ASSUME TypeInv, Phase, Running, Current.op = "read_done"
    PROVE  \E start \in ReadStarts : Reading(start, 6 + ReadBatch)
<1>1. ASSUME NEW k \in 1 .. 17 + NumBlocks, Connecting(k) PROVE FALSE
  BY <1>1, ConnectingStep DEF Connecting
<1>2. ASSUME NEW k \in 18 + NumBlocks .. 20 + NumBlocks, Peeking(k) PROVE FALSE
  <2>1. k = 18 + NumBlocks \/ k = 19 + NumBlocks \/ k = 20 + NumBlocks
    BY EtherloadAssumption
  <2> QED
    BY <1>2, <2>1, PeekingStep DEF Peeking
<1>3. ASSUME NEW sectors \in Seq(Sectors), NEW data \in Seq(Data), BetweenBatches(sectors, data)
      PROVE  FALSE
  <2>1. todo = WriteJobs(sectors, data)
    BY <1>3 DEF BetweenBatches
  <2>2. CASE sectors = <<>>
    <3>1. PICK w : w = WaitAll
      OBVIOUS
    <3>2. todo = <<w>>
      BY <2>1, <2>2, <3>1 DEF WriteJobs
    <3>3. Current = w
      BY <3>2 DEF Current
    <3> QED
      BY <3>1, <3>3 DEF WaitAll, WaitSlots
  <2>3. CASE sectors # <<>>
    <3>1. PICK j : j = [op |-> "jobs", sectors |-> sectors, data |-> data]
      OBVIOUS
    <3>2. todo = <<j>>
      BY <2>1, <2>3, <3>1 DEF WriteJobs
    <3>3. Current = j
      BY <3>2 DEF Current
    <3> QED
      BY <3>1, <3>3
  <2> QED
    BY <2>2, <2>3
<1>4. ASSUME NEW id \in 0 .. BatchIds - 1, NEW start \in Sectors, NEW batch \in Seq(Data),
             NEW rest \in Seq(Sectors), NEW restData \in Seq(Data), NEW k \in 1 .. 4 + NumSectors,
             Writing(id, start, batch, rest, restData, k)
      PROVE  FALSE
  <2>1. /\ IsBatch(id, start, batch) /\ AreJobs(rest, restData) /\ k \in 1 .. 4 + Len(batch)
        /\ todo = Remaining(WriteRest(id, start, batch, rest, restData), k)
    BY <1>4 DEF Writing
  <2>2. k = 1 \/ k = 2 \/ k \in 3 .. 2 + Len(batch) \/ k = 3 + Len(batch) \/ k = 4 + Len(batch)
    BY <2>1, LenProperties DEF IsBatch
  <2>3. Current.op \in {"queue_length", "wait", "send", "next_batch"}
    BY <2>1, <2>2, WritingStep
  <2> QED
    BY <2>3
<1>5. ASSUME NEW start \in ReadStarts, NEW k \in 1 .. 6 + ReadBatch, Reading(start, k)
      PROVE  Reading(start, 6 + ReadBatch)
  <2>1. \/ k = 1 \/ k = 2 \/ k = 3 \/ k \in 4 .. 3 + ReadBatch \/ k = 4 + ReadBatch
        \/ k = 5 + ReadBatch \/ k = 6 + ReadBatch
    BY EtherloadAssumption
  <2>2. todo = Remaining(ReadJob(start), k)
    BY <1>5 DEF Reading
  <2>3. k = 6 + ReadBatch
    BY <2>1, <2>2, ReadingStep
  <2> QED
    BY <1>5, <2>3
<1>6. ASSUME NEW k \in 1..4, Quitting(k) PROVE FALSE
  <2>1. RequestQuit \in Seq(Steps) /\ Len(RequestQuit) = 4 /\ todo = Remaining(RequestQuit, k)
    BY <1>6, QuitScript DEF Quitting
  <2>2. k \in 1..Len(RequestQuit) /\ (k = 1 \/ k = 2 \/ k = 3 \/ k = 4)
    BY <2>1
  <2>3. Current = RequestQuit[k]
    BY <2>1, <2>2, ScriptFacts
  <2>4. RequestQuit[k] \in {WaitAll, Send(Quit, FALSE), Step("finished")}
    BY <2>2, QuitScript
  <2>5. Current.op \in {"wait", "send", "finished"}
    BY <2>3, <2>4 DEF WaitAll, WaitSlots, Send, Step
  <2> QED
    BY <2>5
<1>7. ~Idle /\ ~Finished /\ todo # <<>>
  BY DEF Idle, Finished, Running
<1> QED
  BY <1>1, <1>2, <1>3, <1>4, <1>5, <1>6, <1>7 DEF Phase

LEMMA FreshWhenRead == TypeInv /\ Phase => ReadsFresh
<1>1. ASSUME TypeInv, Phase, Running, Current.op = "read_done", NEW i \in 0 .. ReadBatch - 1
      PROVE  queue_read_data[i] = wanted[eth_batch_start_sector + i]
  <2>1. PICK start \in ReadStarts : Reading(start, 6 + ReadBatch)
    BY <1>1, OnlyReadsEndSo
  <2>2. PICK k : k = 6 + ReadBatch
    OBVIOUS
  <2>3. k > 2 /\ \A j \in 1..ReadBatch : j <= k - 4
    BY <2>2, EtherloadAssumption
  <2>4. PICK j \in 1..ReadBatch : i = j - 1
    <3>1. i + 1 \in 1..ReadBatch /\ i = (i + 1) - 1
      BY EtherloadAssumption
    <3> QED
      BY <3>1
  <2>5. eth_batch_start_sector = start /\ Occupied = {}
    BY <2>1, <2>2, <2>3 DEF Reading
  <2>6. queue_read_data[j - 1] = wanted[start + j - 1]
    BY <2>1, <2>2, <2>3, <2>5 DEF Reading, Held
  <2>7. start + (j - 1) = start + j - 1
    BY EtherloadAssumption DEF ReadStarts
  <2> QED
    BY <2>4, <2>5, <2>6, <2>7
<1>2. ASSUME Phase PROVE conn # "killed"
  BY <1>2 DEF Phase, Connecting, Peeking, Idle, BetweenBatches, Writing, Reading, Quitting, Finished,
              Connected
<1> QED
  BY <1>1, <1>2 DEF ReadsFresh

\* As long as no wait of the host ran out, the card holds what the calls wrote
\* whenever no call runs, for any lists of sectors, windows and slots, however
\* many frames and answers are lost, repeated or delayed.
THEOREM WritesLandWithoutGivingUp ==
    KeysApart => (Spec => [](gaveUp = "never" => WritesLand))
<1> SUFFICES ASSUME KeysApart PROVE Spec => [](gaveUp = "never" => WritesLand)
  OBVIOUS
<1>1. TypeInv /\ DataInv => (gaveUp = "never" => WritesLand)
  BY LandedAtRest DEF DataInv
<1>2. Spec => []DataInv
  BY PhaseAlways
<1> QED
  BY <1>1, <1>2, TypesAlways, PTL

\* As long as no wait of the host ran out, a batch that was read holds at the
\* place of each sector what was written to it last, and no answer is taken
\* for one in front of the buffer.
THEOREM ReadsFreshWithoutGivingUp ==
    KeysApart => (Spec => [](gaveUp = "never" => ReadsFresh))
<1> SUFFICES ASSUME KeysApart PROVE Spec => [](gaveUp = "never" => ReadsFresh)
  OBVIOUS
<1>1. TypeInv /\ DataInv => (gaveUp = "never" => ReadsFresh)
  BY FreshWhenRead DEF DataInv
<1>2. Spec => []DataInv
  BY PhaseAlways
<1> QED
  BY <1>1, <1>2, TypesAlways, PTL

=============================================================================
