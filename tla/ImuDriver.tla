------------------------------ MODULE ImuDriver ------------------------------
(***************************************************************************)
(* qmini_imu: the read thread of imu_driver_node.cpp.  It opens the serial *)
(* port, finds frames in the byte stream, keeps the last IMU packet and    *)
(* publishes one message per AHRS frame.                                   *)
(*                                                                         *)
(* The stream is abstracted to cells: the start byte, the rest of the      *)
(* header that its CRC-8 covers (type, size, number and the CRC-8), the    *)
(* CRC-16 of the payload, the payload, in as many cells as its kind of     *)
(* frame takes, and the end byte.  Checksums are taken to detect any       *)
(* damage.  The baud rate is supported.                                    *)
(***************************************************************************)
EXTENDS Integers, Sequences

CONSTANTS
  Kinds,        \* the frames the device sends: of "imu", "ahrs", "other"
  Payload,      \* [Kinds -> cells of the payload]; 56, 48 and 84 bytes
  PayloadMax,   \* no payload is longer
  Ids,          \* a frame is numbered modulo Ids
  WireMax,      \* bound on the cells waiting in the tty
  MaxFaults     \* bound on the times cells are lost or damaged on the way

ASSUME WireAssumption ==
  /\ Kinds \subseteq {"imu", "ahrs", "other"} /\ Kinds # {}
  /\ PayloadMax \in Nat \ {0} /\ Payload \in [Kinds -> 1..PayloadMax]
  /\ Ids \in Nat \ {0} /\ WireMax \in Nat /\ MaxFaults \in Nat

VARIABLES
  running,    \* running_
  thread,     \* the read thread: "run" or "done"
  fd,         \* fd_: "closed" or "open"; of a device that is gone, "failing" if a
              \* read returns an error and "hung" if it returns 0
  stage,      \* what parse_one_frame is reading
  got,        \* how many cells of it it has read
  hdr,        \* kind and number of the frame, from the header
  ok,         \* what its checksums will say of the cells read so far
  have_imu,   \* have_imu_: an IMU packet is kept
  published,  \* whose rates the last message had: "none", "ahrs" or "imu"
  plugged,    \* environment: the device is connected
  wire,       \* environment: cells the tty holds
  id,         \* environment: number of the next frame
  faults,     \* environment: faults so far
  missed      \* history: cells of the plain frames that went by unrecognized,
              \* since the last that was recognized

parserVars == <<stage, got, hdr, ok>>
driverVars == <<parserVars, have_imu, published, missed>>
deviceVars == <<plugged, wire, id, faults>>
imuVars == <<running, thread, fd, driverVars, deviceVars>>

\* A cell is [part, kind, id, head, plain]: its place in its frame (0 if it is
\* damaged), the kind and number of the frame, whether it holds a byte 0xFC, and
\* whether it counts as plain: nothing happened to its frame, in which only the
\* start byte is 0xFC.
FrameLen(k) == Payload[k] + 4
IsEnd(c) == c.part = FrameLen(c.kind)

\* With the start byte found, the parser takes at most so many cells of other
\* frames for its own (the CRC-16, the longest payload and the end byte), and then
\* runs on to the end of the frame it has come out in.
Debt == PayloadMax + 2
MissBound == Debt - 1 + PayloadMax + 4
MissedCap == MissBound + 1

NoHeader == [kind |-> "none", id |-> 0]

ImuInit ==
  /\ running = TRUE /\ thread = "run" /\ fd = "closed"
  /\ stage = "sync" /\ got = 0 /\ hdr = NoHeader /\ ok = TRUE
  /\ have_imu = FALSE /\ published = "none"
  /\ plugged \in BOOLEAN /\ wire = <<>> /\ id = 0 /\ faults = 0
  /\ missed = 0

-----------------------------------------------------------------------------
\* Cells that were on the wire before the trouble do not count as unharmed.
Tainted(cells) == [i \in DOMAIN cells |-> [cells[i] EXCEPT !.plain = FALSE]]

\* open_port flushes what the tty held, which may end in the middle of a frame.
OpenPort ==
  /\ running /\ thread = "run" /\ fd = "closed" /\ plugged
  /\ fd' = "open"
  /\ \E k \in 0..Len(wire) :
       wire' = Tainted(SubSeq(wire, k + 1, Len(wire)))
  /\ missed' = 0
  /\ UNCHANGED <<running, thread, parserVars, have_imu, published, plugged, id,
                 faults>>

\* Mutant of LooksLikeHead: the end byte is taken for a start byte, too.
LooksLikeHeadOrEnd(c) == c.head \/ IsEnd(c)

LooksLikeHead(c) == c.head

\* c is that cell of the frame of the header.
Matches(c, part) == c.part = part /\ c.kind = hdr.kind /\ c.id = hdr.id

\* The read thread goes on to look for the next frame.
Resync == stage' = "sync" /\ got' = 0 /\ hdr' = NoHeader /\ ok' = TRUE

\* 1. of parse_one_frame
ReadSync(c) ==
  /\ stage = "sync"
  /\ stage' = IF LooksLikeHead(c) THEN "header" ELSE "sync"
  /\ UNCHANGED <<got, hdr, ok, have_imu, published>>

\* 2.: type and size; ...
ReadHeader(c) ==
  /\ stage = "header" /\ got = 0
  /\ got' = 1 /\ ok' = (c.part = 2)
  /\ hdr' = [kind |-> c.kind, id |-> c.id]
  /\ UNCHANGED <<stage, have_imu, published>>

\* ... the CRC-16; and 3., the CRC-8.
ReadCrc(c) ==
  /\ stage = "header" /\ got = 1
  /\ IF ok THEN /\ stage' = "payload" /\ got' = 0
                /\ ok' = Matches(c, 3) /\ UNCHANGED hdr
     ELSE Resync
  /\ UNCHANGED <<have_imu, published>>

\* 5., the payload; frames of other types are skipped by their length.
ReadPayload(c) ==
  /\ stage = "payload"
  /\ ok' = (ok /\ Matches(c, 4 + got))
  /\ IF got + 1 = Payload[hdr.kind] THEN stage' = "end" /\ got' = 0
     ELSE stage' = "payload" /\ got' = got + 1
  /\ UNCHANGED <<hdr, have_imu, published>>

\* 5., the end byte, to 7.: the payload is kept, or the message is published,
\* with the rates of the AHRS frame while no IMU frame has been kept.
ReadEnd(c) ==
  /\ stage = "end"
  /\ have_imu' = (have_imu \/ (hdr.kind = "imu" /\ ok /\ IsEnd(c)))
  /\ published' = IF hdr.kind = "ahrs" /\ ok /\ IsEnd(c)
                  THEN IF have_imu THEN "imu" ELSE "ahrs"
                  ELSE published
  /\ Resync

\* c ends a frame all of which the driver has taken for one frame.
Recognized(c) == stage = "end" /\ ok /\ IsEnd(c)

\* Only plain frames count as missed, one after the other.
CountMissed(c) ==
  missed' = IF Recognized(c) \/ ~c.plain THEN 0
            ELSE IF ~IsEnd(c) THEN missed
            ELSE IF missed + c.part < MissedCap THEN missed + c.part
            ELSE MissedCap

\* read_exact, one cell of it.
ReadCell ==
  /\ running /\ thread = "run" /\ fd = "open" /\ wire # <<>>
  /\ LET c == Head(wire) IN
       /\ ReadSync(c) \/ ReadHeader(c) \/ ReadCrc(c) \/ ReadPayload(c) \/ ReadEnd(c)
       /\ CountMissed(c)
  /\ wire' = Tail(wire)
  /\ UNCHANGED <<running, thread, fd, plugged, id, faults>>

\* Mutant of ReadFails: the descriptor is kept.
ReadFailsLeavingFd ==
  /\ running /\ thread = "run" /\ fd = "failing"
  /\ Resync
  /\ UNCHANGED <<running, thread, fd, have_imu, published, missed, deviceVars>>

\* A read fails: the port is closed, and opened again by the loop of run().
\* A read that returns 0 is taken for the 0.2 s timeout and repeated.
ReadFails ==
  /\ running /\ thread = "run" /\ fd = "failing"
  /\ fd' = "closed"
  /\ Resync
  /\ UNCHANGED <<running, thread, have_imu, published, missed, deviceVars>>

\* The thread notices the shutdown, at the latest when a read times out.
ThreadEnds ==
  /\ ~running /\ thread = "run"
  /\ thread' = "done"
  /\ fd' = "closed"
  /\ Resync
  /\ UNCHANGED <<running, have_imu, published, missed, deviceVars>>

\* ~ImuDriverNode
Shutdown ==
  /\ running
  /\ running' = FALSE
  /\ UNCHANGED <<thread, fd, driverVars, deviceVars>>

-----------------------------------------------------------------------------
\* The device and the cable.

\* Any byte of the payload may be 0xFC; h: the cell of it that has one, if any.
FrameOf(k, n, h) ==
  [i \in 1..FrameLen(k) |->
     [part |-> i, kind |-> k, id |-> n,
      head |-> i = 1 \/ (h > 0 /\ i = h + 3), plain |-> h = 0]]

SendFrame(k, h) ==
  /\ plugged /\ Len(wire) + FrameLen(k) <= WireMax
  /\ wire' = wire \o FrameOf(k, id, h)
  /\ id' = (id + 1) % Ids
  /\ UNCHANGED <<running, thread, fd, driverVars, plugged, faults>>

Damaged(c) == [c EXCEPT !.part = 0, !.head = FALSE]

\* A run of cells is lost (a full tty buffer), or a cell is damaged.
Fault ==
  /\ faults < MaxFaults
  /\ \E i, j \in DOMAIN wire :
       \/ wire' = Tainted(SubSeq(wire, 1, i-1) \o SubSeq(wire, j+1, Len(wire)))
          /\ i <= j
       \/ wire' = Tainted([wire EXCEPT ![i] = Damaged(@)])
  /\ faults' = faults + 1
  /\ missed' = 0
  /\ UNCHANGED <<running, thread, fd, parserVars, have_imu, published, plugged, id>>

Unplug ==
  /\ plugged
  /\ plugged' = FALSE
  /\ wire' = <<>>
  /\ IF fd = "open" THEN fd' \in {"failing", "hung"} ELSE UNCHANGED fd
  /\ UNCHANGED <<running, thread, driverVars, id, faults>>

Plug ==
  /\ ~plugged
  /\ plugged' = TRUE
  /\ UNCHANGED <<running, thread, fd, driverVars, wire, id, faults>>

ImuNext ==
  \/ OpenPort \/ ReadCell \/ ReadFails \/ ThreadEnds
  \/ Shutdown
  \/ \E k \in Kinds : \E h \in 0..Payload[k] : SendFrame(k, h)
  \/ Fault \/ Unplug \/ Plug

ImuSpec == ImuInit /\ [][ImuNext]_imuVars

\* The read thread is scheduled; nothing is assumed of the device.
ImuFairSpec ==
  /\ ImuSpec
  /\ WF_imuVars(OpenPort) /\ WF_imuVars(ReadCell)
  /\ WF_imuVars(ReadFails)

-----------------------------------------------------------------------------
\* After lost or damaged bytes, a start byte inside a payload, or an open in the
\* middle of a frame, the driver finds the frames again ("a bad/dropped frame just
\* resyncs", parse_one_frame): of the plain frames that then arrive one after the
\* other it passes over no more than fit into what it still takes for one frame,
\* and the one after; two frames of 56 bytes, with the lengths of the code.
ResyncsWithinBound == missed <= MissBound

\* A device that comes back after being unplugged is opened again, unless a read
\* on the old descriptor goes on returning 0 (read_exact, run, open_port).
PortRecovers ==
  <>[](running /\ plugged /\ fd # "hung") => <>[](fd = "open")

-----------------------------------------------------------------------------
\* The parts of the inductive invariant behind the theorem of DriverProofs.

Cell ==
  {c \in [part : 0..(PayloadMax + 4), kind : Kinds, id : 0..Ids-1,
          head : BOOLEAN, plain : BOOLEAN] :
     (c.part = 1 => c.head) /\ c.part <= FrameLen(c.kind)}

ImuTypeOK ==
  /\ running \in BOOLEAN /\ thread \in {"run", "done"}
  /\ fd \in {"closed", "open", "failing", "hung"}
  /\ stage \in {"sync", "header", "payload", "end"}
  /\ got \in 0..PayloadMax /\ ok \in BOOLEAN
  /\ hdr \in [kind : Kinds, id : 0..Ids-1] \cup {NoHeader}
  /\ have_imu \in BOOLEAN /\ published \in {"none", "ahrs", "imu"}
  /\ plugged \in BOOLEAN /\ wire \in Seq(Cell) /\ id \in 0..Ids-1
  /\ faults \in 0..MaxFaults /\ missed \in 0..MissedCap

\* What each stage has read.
StageInv ==
  /\ stage = "sync" => got = 0
  /\ stage = "header" => got \in {0, 1}
  /\ stage = "header" /\ got = 1 => hdr # NoHeader
  /\ stage = "payload" => hdr # NoHeader /\ got < Payload[hdr.kind]
  /\ stage = "end" => hdr # NoHeader

\* d comes right after c in a stream of whole frames.
Follows(c, d) ==
  IF IsEnd(c) THEN d.part = 1
  ELSE /\ d.part = c.part + 1
       /\ d.id = c.id /\ d.kind = c.kind /\ d.plain = c.plain

\* What comes after a plain cell was sent after the last trouble, so whole frames
\* follow, and a plain frame is plain from its start byte on.
WireInv ==
  \A i \in DOMAIN wire :
    /\ wire[i].plain => /\ wire[i].part > 0
                        /\ wire[i].head => wire[i].part = 1
                        /\ IF i = Len(wire) THEN IsEnd(wire[i])
                           ELSE Follows(wire[i], wire[i+1])
    /\ wire[i].plain /\ wire[i].part > 1 /\ i > 1 => wire[i-1].plain

\* The parser is where it has to be for the next cell, c, if it is to take c for
\* what it is.
Aligned(c) ==
  /\ c.part = 1 => stage = "sync"
  /\ c.part = 2 => stage = "header" /\ got = 0
  /\ c.part > 2 => ok /\ hdr.kind = c.kind /\ hdr.id = c.id
  /\ c.part = 3 => stage = "header" /\ got = 1
  /\ c.part > 3 /\ ~IsEnd(c) => stage = "payload" /\ got = c.part - 4
  /\ IsEnd(c) => stage = "end"

\* The cells that the parser will still take for its own, whatever they are.
Owed ==
  CASE stage = "sync" -> 0
    [] stage = "header" -> IF got = 0 THEN 2 ELSE IF ok THEN Payload[hdr.kind] + 2 ELSE 1
    [] stage = "payload" -> Payload[hdr.kind] - got + 1
    [] stage = "end" -> 1

\* It takes c for another, but will soon be looking for a start byte.
Astray(c) ==
  IF stage = "sync" THEN missed < Debt ELSE missed + (c.part - 1) + Owed <= Debt

ParserInv ==
  IF wire = <<>> THEN stage = "sync" \/ missed + Owed <= Debt
  ELSE wire[1].plain => Aligned(wire[1]) \/ Astray(wire[1])

ImuInv ==
  /\ ImuTypeOK /\ StageInv
  /\ ResyncsWithinBound
  /\ fd = "open" => WireInv /\ ParserInv
=============================================================================
